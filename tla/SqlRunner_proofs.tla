--------------------------- MODULE SqlRunner_proofs ---------------------------
(***************************************************************************)
(* What split_statements() does to every text, of whatever length.          *)
(***************************************************************************)
EXTENDS SqlRunner, Lemmas, SequenceTheorems

-----------------------------------------------------------------------------
(* The reference: what each character is read in.                           *)

Mode == {"code", "line", "literal", "block", "star", "dash", "slash"}

LEMMA ReadType ==
  ASSUME NEW m \in Mode, NEW c
  PROVE  Read(m, c) \in Mode
BY DEF Read, Mode

LEMMA ReadIs ==
  ASSUME NEW c \in Char
  PROVE  /\ Read("line", c) = IF c = "\n" THEN "code" ELSE "line"
         /\ Read("literal", c) = IF c = "'" THEN "code" ELSE "literal"
         /\ Read("block", c) = IF c = "*" THEN "star" ELSE "block"
         /\ Read("star", c) = IF c = "/" THEN "code" ELSE IF c = "*" THEN "star" ELSE "block"
         /\ Read("dash", c) = IF c = "-" THEN "line" ELSE Read("code", c)
         /\ Read("slash", c) = IF c = "*" THEN "block" ELSE Read("code", c)
         /\ Read("code", c) = IF c = "'" THEN "literal" ELSE IF c = "-" THEN "dash"
                              ELSE IF c = "/" THEN "slash" ELSE "code"
BY DEF Read, Char

LEMMA ModesAre ==
  ASSUME NEW text \in Seq(Char)
  PROVE  /\ Modes(text)[1] = "code"
         /\ \A k \in 1 .. Len(text) + 1 : Modes(text)[k] \in Mode
         /\ \A k \in 1 .. Len(text) : Modes(text)[k + 1] = Read(Modes(text)[k], text[k])
<1> DEFINE n == Len(text) + 1
           F == [z \in (2 .. n) \X Mode |-> Read(z[2], text[z[1] - 1])]
           Step(f) == [i \in 1 .. n |-> IF i = 1 THEN "code" ELSE Read(f[i - 1], text[i - 1])]
           ch == CHOOSE f : f = Step(f)
<1>0. n \in Nat /\ 1 <= n OBVIOUS
<1>1. \A i \in (1 + 1) .. n : \A x \in Mode :
         F[<<i, x>>] \in Mode /\ F[<<i, x>>] = Read(x, text[i - 1])
  BY ReadType
<1>2. PICK f \in [1 .. n -> Mode] : /\ f[1] = "code"
                                    /\ \A i \in (1 + 1) .. n : f[i] = F[<<i, f[i - 1]>>]
  <2>1. IsStep(F, 1, n, Mode) BY <1>1 DEF IsStep
  <2>2. "code" \in Mode BY DEF Mode
  <2> HIDE DEF F, n
  <2>3. \E f : Unfolds(f, F, 1, n, Mode, "code") BY <1>0, <2>1, <2>2, RecursionExists
  <2> QED BY <2>3 DEF Unfolds
<1>3. ASSUME NEW i \in 2 .. n PROVE f[i] = Read(f[i - 1], text[i - 1])
  <2> HIDE DEF F
  <2>1. i \in (1 + 1) .. n /\ i - 1 \in 1 .. n BY <1>0
  <2>2. f[i - 1] \in Mode BY <1>2, <2>1
  <2> QED BY <1>1, <1>2, <2>1, <2>2
<1>4. f = Step(f)
  <2>1. \A i \in 1 .. n : f[i] = Step(f)[i] BY <1>0, <1>2, <1>3
  <2> QED BY <1>2, <2>1
<1>5. ch = Step(ch)
  <2> HIDE DEF Step
  <2> QED BY <1>4
<1>6. Modes(text) = ch BY DEF Modes
<1>7. ch[1] = "code" /\ \A i \in 2 .. n : ch[i] = Read(ch[i - 1], text[i - 1])
  <2> HIDE DEF ch
  <2>1. Step(ch)[1] = "code" /\ \A i \in 2 .. n : Step(ch)[i] = Read(ch[i - 1], text[i - 1])
    BY <1>0
  <2> HIDE DEF Step
  <2> QED BY <1>5, <2>1
<1> HIDE DEF ch
<1> DEFINE T == {i \in 1 .. n : ch[i] \in Mode}
<1>8. 1 \in T BY <1>0, <1>7 DEF Mode
<1>9. \A i \in (1 + 1) .. n : i - 1 \in T => i \in T BY <1>7, ReadType
<1>10. \A i \in 1 .. n : i \in T
  <2> HIDE DEF T, n
  <2> QED BY <1>0, <1>8, <1>9, Induction
<1>11. \A k \in 1 .. Len(text) : ch[k + 1] = Read(ch[k], text[k])
  <2> TAKE k \in 1 .. Len(text)
  <2>1. k + 1 \in 2 .. n /\ (k + 1) - 1 = k OBVIOUS
  <2> QED BY <1>7, <2>1
<1> QED BY <1>6, <1>7, <1>10, <1>11

-----------------------------------------------------------------------------
(* The filter: a block is kept by the look of its lines if and only if it   *)
(* is more than comments.                                                   *)

LineStart(block, k) == k = 1 \/ block[k - 1] = "\n"

(* A line with a statement begins at k. *)
Opens(block, k) ==
    /\ block[k] # "\n"
    /\ LineStart(block, k)
    /\ ~ (block[k] = "-" /\ k < Len(block) /\ block[k + 1] = "-")

(* What is before k is blank or in line comments. *)
Commented(block, k) ==
    IF LineStart(block, k) THEN Modes(block)[k] = "code"
    ELSE \/ Modes(block)[k] = "line"
         \/ /\ Modes(block)[k] = "dash" /\ block[k - 1] = "-"
            /\ LineStart(block, k - 1)

LEMMA CommentedUpTo ==
  ASSUME NEW block \in Seq(Char), NEW m \in 1 .. Len(block) + 1,
         \A j \in 1 .. (m - 1) : ~ Opens(block, j)
  PROVE  \A k \in 1 .. m : Commented(block, k)
<1> DEFINE T == {k \in 1 .. m : Commented(block, k)}
           md == Modes(block)
<1>0. Len(block) \in Nat /\ m \in Nat /\ 1 <= m OBVIOUS
<1>1. 1 \in T BY <1>0, ModesAre DEF Commented, LineStart
<1>2. ASSUME NEW i \in (1 + 1) .. m, i - 1 \in T PROVE i \in T
  <2> DEFINE k == i - 1
             c == block[k]
  <2>1. k \in 1 .. Len(block) /\ k + 1 = i /\ k \in 1 .. m /\ ~ Opens(block, k) /\ k \in Nat
    BY <1>0, <1>2
  <2>2. Commented(block, k) /\ c \in Char /\ md[i] = Read(md[k], c)
    BY <1>2, <2>1, ModesAre
  <2>3. LineStart(block, i) <=> c = "\n" BY <2>1 DEF LineStart
  <2> HIDE DEF k, c, md
  <2>4. CASE c = "\n"
    <3>1. md[k] \in {"code", "line", "dash"} BY <2>2 DEF Commented, md
    <3>2. md[i] = "code" BY <2>2, <2>4, <3>1, ReadIs
    <3> QED BY <1>2, <2>3, <2>4, <3>2 DEF Commented, md
  <2>5. CASE c # "\n" /\ LineStart(block, k)
    <3>1. md[k] = "code" BY <2>2, <2>5 DEF Commented, md
    <3>2. c = "-" BY <2>1, <2>5 DEF Opens, c
    <3>3. md[i] = "dash" BY <2>2, <3>1, <3>2, ReadIs
    <3> QED BY <1>2, <2>3, <2>5, <3>2, <3>3 DEF Commented, md, k, c
  <2>6. CASE c # "\n" /\ ~ LineStart(block, k)
    <3>1. CASE md[k] = "line"
      <4>1. md[i] = "line" BY <2>2, <2>6, <3>1, ReadIs
      <4> QED BY <1>2, <2>3, <2>6, <4>1 DEF Commented, md
    <3>2. CASE md[k] # "line"
      <4>1. md[k] = "dash" /\ block[k - 1] = "-" /\ LineStart(block, k - 1)
        BY <2>2, <2>6, <3>2 DEF Commented, md
      <4>2. k # 1 BY <2>6 DEF LineStart
      <4>3. ~ Opens(block, k - 1) /\ k - 1 < Len(block)
        BY <1>0, <1>2, <2>1, <4>2 DEF k
      <4>4. block[k] = "-" BY <2>1, <4>1, <4>3 DEF Opens
      <4>5. md[i] = "line" BY <2>2, <4>1, <4>4, ReadIs DEF c
      <4> QED BY <1>2, <2>3, <2>6, <4>5 DEF Commented, md
    <3> QED BY <3>1, <3>2
  <2> QED BY <2>4, <2>5, <2>6
<1>3. \A k \in 1 .. m : k \in T
  <2> HIDE DEF T
  <2> QED BY <1>0, <1>1, <1>2, Induction
<1> QED BY <1>3

LEMMA FilterAgrees ==
  ASSUME NEW block \in Seq(Char)
  PROVE  HasStatement(block) <=> MoreThanLineComments(block)
<1> DEFINE n == Len(block)
           md == Modes(block)
           More(k) == /\ block[k] # "\n"
                      /\ "line" \notin {md[k], md[k + 1]}
                      /\ md[k + 1] = "dash" /\ k < n => md[k + 2] # "line"
<1>0. n \in Nat /\ DOMAIN block = 1 .. n /\ \A k \in 1 .. n : block[k] \in Char
  OBVIOUS
<1>1. \A k \in 1 .. n : md[k + 1] = Read(md[k], block[k]) BY ModesAre
<1>2. \A k \in 1 .. n : k < n => md[k + 2] = Read(md[k + 1], block[k + 1])
  <2> TAKE k \in 1 .. n
  <2> HAVE k < n
  <2>1. k + 1 \in 1 .. n /\ (k + 1) + 1 = k + 2 BY <1>0
  <2> QED BY <1>1, <2>1
<1>3. HasStatement(block) <=> \E k \in 1 .. n : Opens(block, k)
  BY <1>0 DEF HasStatement, Opens, LineStart
<1>4. MoreThanLineComments(block) <=> \E k \in 1 .. n : More(k)
  BY <1>0 DEF MoreThanLineComments
<1> HIDE DEF n, md
<1>5. ASSUME \E k \in 1 .. n : Opens(block, k) PROVE \E k \in 1 .. n : More(k)
  <2> DEFINE S == {k \in 1 .. n : Opens(block, k)}
  <2>0. S \subseteq Nat /\ S # {} BY <1>0, <1>5
  <2>1. PICK k \in S : \A j \in S : k <= j
    <3> HIDE DEF S
    <3> QED BY <2>0, LeastNat
  <2>2. k \in 1 .. n /\ Opens(block, k) /\ k \in Nat BY <1>0, <2>1
  <2>3. \A j \in 1 .. (k - 1) : ~ Opens(block, j) BY <1>0, <2>1
  <2> HIDE DEF S
  <2>4. k \in 1 .. Len(block) + 1 BY <1>0, <2>2 DEF n
  <2>5. Commented(block, k)
    <3>1. k \in 1 .. k BY <2>2
    <3> QED BY <2>3, <2>4, <3>1, CommentedUpTo
  <2>6. md[k] = "code" /\ block[k] # "\n" BY <2>2, <2>5 DEF Opens, Commented, md
  <2>7. md[k + 1] # "line" /\ (md[k + 1] = "dash" => block[k] = "-")
    BY <1>0, <1>1, <2>2, <2>6, ReadIs
  <2>8. ASSUME md[k + 1] = "dash", k < n PROVE md[k + 2] # "line"
    <3>1. block[k + 1] # "-" BY <2>2, <2>7, <2>8 DEF Opens, n
    <3>2. block[k + 1] \in Char BY <1>0, <2>2, <2>8
    <3>3. md[k + 2] = Read("code", block[k + 1]) BY <1>2, <2>2, <2>8, <3>1, <3>2, ReadIs
    <3> QED BY <3>2, <3>3, ReadIs
  <2>9. More(k) BY <2>6, <2>7, <2>8
  <2> QED BY <2>2, <2>9
<1>6. ASSUME ~ \E k \in 1 .. n : Opens(block, k), NEW k \in 1 .. n, More(k) PROVE FALSE
  <2>1. \A j \in 1 .. ((n + 1) - 1) : ~ Opens(block, j) BY <1>0, <1>6
  <2>2. n + 1 \in 1 .. Len(block) + 1 BY <1>0 DEF n
  <2>3. \A j \in 1 .. n + 1 : Commented(block, j) BY <2>1, <2>2, CommentedUpTo
  <2>4. Commented(block, k) BY <1>0, <2>3
  <2>5. md[k] # "line" /\ block[k] # "\n" /\ md[k + 1] # "line" BY <1>6
  <2>6. CASE LineStart(block, k)
    <3>1. md[k] = "code" BY <2>4, <2>6 DEF Commented, md
    <3>2. block[k] = "-" /\ k < n /\ block[k + 1] = "-" BY <1>6, <2>5, <2>6 DEF Opens, n
    <3>3. block[k + 1] \in Char BY <1>0, <3>2
    <3>4. md[k + 1] = "dash" BY <1>0, <1>1, <3>1, <3>2, ReadIs
    <3>5. md[k + 2] = "line" BY <1>2, <3>2, <3>3, <3>4, ReadIs
    <3> QED BY <1>6, <3>2, <3>4, <3>5
  <2>7. CASE ~ LineStart(block, k)
    <3>1. md[k] = "dash" /\ block[k - 1] = "-" /\ LineStart(block, k - 1)
      BY <2>4, <2>5, <2>7 DEF Commented, md
    <3>2. k # 1 /\ k - 1 \in 1 .. n /\ k - 1 < n /\ (k - 1) + 1 = k
      BY <1>0, <2>7 DEF LineStart
    <3>3. ~ Opens(block, k - 1) BY <1>6, <3>2
    <3>4. block[k] = "-" BY <3>1, <3>2, <3>3 DEF Opens, n
    <3>5. md[k + 1] = "line" BY <1>0, <1>1, <3>1, <3>4, ReadIs
    <3> QED BY <2>5, <3>5
  <2> QED BY <2>6, <2>7
<1> QED BY <1>3, <1>4, <1>5, <1>6


-----------------------------------------------------------------------------
(* The scanner: what it consumes at once has no delimiter in it, and it     *)
(* goes on where the reference reads code.                                  *)

ModeAt(k) == Modes(sql)[k]

LEMMA SqlModes ==
  ASSUME sql \in Seq(Char)
  PROVE  /\ Len(sql) \in Nat /\ \A k \in 1 .. Len(sql) : sql[k] \in Char
         /\ ModeAt(1) = "code"
         /\ \A k \in 1 .. Len(sql) + 1 : ModeAt(k) \in Mode
         /\ \A k \in 1 .. Len(sql) : ModeAt(k + 1) = Read(ModeAt(k), sql[k])
         /\ Delimiters = {k \in 1 .. Len(sql) : sql[k] = ";" /\ InCode(ModeAt(k))}
<1>1. Len(sql) \in Nat /\ DOMAIN sql = 1 .. Len(sql) /\ \A k \in 1 .. Len(sql) : sql[k] \in Char
  OBVIOUS
<1>2. Delimiters = {k \in 1 .. Len(sql) : sql[k] = ";" /\ InCode(ModeAt(k))}
  BY <1>1, Zenon DEF Delimiters, ModeAt
<1> QED BY <1>1, <1>2, ModesAre, Zenon DEF ModeAt

(* The reference takes the character at i as if nothing came before it. *)
Fresh(i) ==
    i <= Len(sql) => InCode(ModeAt(i)) /\ Read(ModeAt(i), sql[i]) = Read("code", sql[i])

(* What is consumed from i to e. *)
Passes(i, e) ==
    /\ e \in i .. Len(sql)
    /\ \A k \in i .. e : k \notin Delimiters
    /\ Fresh(e + 1)

LEMMA FirstIs ==
  ASSUME NEW S, S \subseteq Nat, S # {}
  PROVE  First(S) \in S /\ \A k \in S : First(S) <= k
<1>1. \E k \in S : \A j \in S : k <= j BY LeastNat
<1> QED BY <1>1 DEF First

LEMMA FreshAfterCode ==
  ASSUME NEW e, ModeAt(e + 1) = "code"
  PROVE  Fresh(e + 1)
BY DEF Fresh, InCode

LEMMA FreshReads ==
  ASSUME sql \in Seq(Char), NEW i \in 1 .. Len(sql), Fresh(i)
  PROVE  /\ InCode(ModeAt(i)) /\ sql[i] \in Char
         /\ ModeAt(i + 1) = Read("code", sql[i])
<1>1. i <= Len(sql) /\ sql[i] \in Char OBVIOUS
<1>2. ModeAt(i + 1) = Read(ModeAt(i), sql[i]) BY SqlModes
<1> QED BY <1>1, <1>2 DEF Fresh

LEMMA LineEndPasses ==
  ASSUME sql \in Seq(Char), NEW i \in 1 .. Len(sql), Fresh(i), At(i, "-", "-")
  PROVE  Passes(i, LineEnd(i))
<1> DEFINE n == Len(sql)
           S == {k \in i .. n : sql[k] = "\n"}
           e == LineEnd(i)
<1>0. n \in Nat /\ i \in Nat /\ i < n /\ sql[i] = "-" /\ sql[i + 1] = "-"
  BY DEF At
<1>1. ModeAt(i + 1) = "dash"
  <2>1. ModeAt(i + 1) = Read("code", "-") BY <1>0, FreshReads
  <2>2. "-" \in Char BY DEF Char
  <2> QED BY <2>1, <2>2, ReadIs
<1>2. ModeAt(i + 2) = "line"
  <2>1. i + 1 \in 1 .. n /\ (i + 1) + 1 = i + 2 BY <1>0
  <2>2. ModeAt(i + 2) = Read("dash", "-") BY <1>0, <1>1, <2>1, SqlModes
  <2>3. "-" \in Char BY DEF Char
  <2> QED BY <2>2, <2>3, ReadIs
<1>3. ASSUME NEW f \in (i + 2) .. n + 1, \A k \in i .. (f - 1) : k \notin S
      PROVE  \A k \in (i + 2) .. f : ModeAt(k) = "line"
  <2> DEFINE T == {k \in (i + 2) .. f : ModeAt(k) = "line"}
  <2>1. i + 2 \in T BY <1>0, <1>2, <1>3
  <2>2. ASSUME NEW k \in ((i + 2) + 1) .. f, k - 1 \in T PROVE k \in T
    <3>1. k - 1 \in 1 .. n /\ (k - 1) + 1 = k /\ k - 1 \in i .. (f - 1) BY <1>0, <1>3, <2>2
    <3>2. sql[k - 1] # "\n" /\ sql[k - 1] \in Char
      <4>1. k - 1 \notin S BY <1>3, <3>1
      <4> QED BY <1>0, <1>3, <3>1, <4>1
    <3>3. ModeAt(k) = Read("line", sql[k - 1]) BY <2>2, <3>1, SqlModes
    <3>4. ModeAt(k) = "line" BY <3>2, <3>3, ReadIs
    <3> QED BY <2>2, <3>4
  <2>3. \A k \in (i + 2) .. f : k \in T
    <3>1. i + 2 \in Nat /\ f \in Nat BY <1>0, <1>3
    <3> HIDE DEF T
    <3> QED BY <2>1, <2>2, <3>1, Induction
  <2> QED BY <2>3
<1>4. ASSUME NEW f \in (i + 2) .. n + 1, \A k \in (i + 2) .. f : ModeAt(k) = "line",
             NEW k \in i .. f
      PROVE  k \notin Delimiters
  <2>1. CASE k \in {i, i + 1}
    <3>1. sql[k] # ";" BY <1>0, <2>1
    <3> QED BY <3>1, SqlModes
  <2>2. CASE k \in (i + 2) .. f
    <3>1. ~ InCode(ModeAt(k)) BY <1>4, <2>2 DEF InCode
    <3> QED BY <3>1, SqlModes
  <2> QED BY <1>0, <1>4, <2>1, <2>2
<1>5. CASE S = {}
  <2>1. e = n BY <1>5 DEF LineEnd
  <2>2. n + 1 \in (i + 2) .. n + 1 BY <1>0
  <2>3. \A k \in i .. ((n + 1) - 1) : k \notin S BY <1>5
  <2>4. \A k \in i .. n + 1 : k \notin Delimiters
    <3> HIDE DEF S, n
    <3> QED BY <1>3, <1>4, <2>2, <2>3
  <2>5. Fresh(n + 1) BY <1>0 DEF Fresh
  <2> HIDE DEF S, e
  <2> QED BY <1>0, <2>1, <2>4, <2>5 DEF Passes, e
<1>6. CASE S # {}
  <2>1. e = First(S) BY <1>6 DEF LineEnd
  <2>2. S \subseteq Nat BY <1>0
  <2>3. e \in S /\ \A k \in S : e <= k
    <3> HIDE DEF S, e
    <3> QED BY <1>6, <2>1, <2>2, FirstIs
  <2> HIDE DEF e
  <2>4. e \in i .. n /\ sql[e] = "\n" /\ e \in Nat BY <1>0, <2>3
  <2>5. e \in (i + 2) .. n + 1
    <3>1. e # i /\ e # i + 1 BY <1>0, <2>4
    <3> QED BY <1>0, <2>4, <3>1
  <2>6. \A k \in i .. (e - 1) : k \notin S
    <3>1. \A k \in i .. (e - 1) : ~ (e <= k) BY <1>0, <2>4
    <3> HIDE DEF S
    <3> QED BY <2>3, <3>1
  <2>7. \A k \in (i + 2) .. e : ModeAt(k) = "line"
    <3> HIDE DEF S, n
    <3> QED BY <1>3, <2>5, <2>6
  <2>8. \A k \in i .. e : k \notin Delimiters BY <1>4, <2>5, <2>7
  <2>9. ModeAt(e + 1) = "code"
    <3>1. ModeAt(e) = "line" BY <2>5, <2>7
    <3>2. e \in 1 .. n BY <1>0, <2>4
    <3>3. ModeAt(e + 1) = Read("line", "\n") BY <2>4, <3>1, <3>2, SqlModes
    <3>4. "\n" \in Char BY DEF Char
    <3> QED BY <3>3, <3>4, ReadIs
  <2> QED BY <2>4, <2>8, <2>9, FreshAfterCode DEF Passes, e
<1> QED BY <1>5, <1>6


(* From the character after the opening of a block comment on. *)
InBlock(a, k) ==
    \/ ModeAt(k) = "block"
    \/ ModeAt(k) = "star" /\ a < k /\ sql[k - 1] = "*"

LEMMA BlockGoesOn ==
  ASSUME sql \in Seq(Char), NEW a \in 1 .. Len(sql) + 1, NEW f \in a .. Len(sql) + 1,
         ModeAt(a) = "block", \A k \in a .. (f - 2) : ~ At(k, "*", "/")
  PROVE  \A k \in a .. f : InBlock(a, k)
<1> DEFINE T == {k \in a .. f : InBlock(a, k)}
<1>0. Len(sql) \in Nat /\ a \in Nat /\ f \in Nat /\ 1 <= a /\ f <= Len(sql) + 1 OBVIOUS
<1>1. a \in T BY <1>0 DEF InBlock
<1>2. ASSUME NEW i \in (a + 1) .. f, i - 1 \in T PROVE i \in T
  <2> DEFINE k == i - 1
             c == sql[k]
  <2>1. k \in 1 .. Len(sql) /\ k + 1 = i /\ InBlock(a, k) /\ k \in Nat /\ a <= k
    BY <1>0, <1>2
  <2>2. c \in Char /\ ModeAt(i) = Read(ModeAt(k), c) BY <2>1, SqlModes
  <2>3. ModeAt(k) \in {"block", "star"} BY <2>1 DEF InBlock
  <2>4. ModeAt(k) = "star" => c # "/"
    <3> HAVE ModeAt(k) = "star"
    <3>1. a < k /\ sql[k - 1] = "*" BY <2>1 DEF InBlock
    <3>2. ~ At(k - 1, "*", "/") BY <1>0, <1>2, <2>1, <3>1
    <3>3. k - 1 < Len(sql) /\ (k - 1) + 1 = k BY <1>0, <2>1
    <3> QED BY <3>1, <3>2, <3>3 DEF At
  <2> HIDE DEF k, c
  <2>5. ModeAt(i) = IF c = "*" THEN "star" ELSE "block" BY <2>2, <2>3, <2>4, ReadIs
  <2>6. InBlock(a, i) BY <1>2, <2>1, <2>5 DEF InBlock, k, c
  <2> QED BY <1>2, <2>6
<1>3. \A k \in a .. f : k \in T
  <2> HIDE DEF T
  <2> QED BY <1>0, <1>1, <1>2, Induction
<1> QED BY <1>3

LEMMA BlockEndPasses ==
  ASSUME sql \in Seq(Char), NEW i \in 1 .. Len(sql), Fresh(i), At(i, "/", "*")
  PROVE  Passes(i, BlockEnd(i + 2))
<1> DEFINE n == Len(sql)
           a == i + 2
           S == {k \in a .. n - 1 : At(k, "*", "/")}
           e == BlockEnd(a)
<1>0. n \in Nat /\ i \in Nat /\ i < n /\ sql[i] = "/" /\ sql[i + 1] = "*"
  BY DEF At
<1>1. ModeAt(i + 1) = "slash"
  <2>1. ModeAt(i + 1) = Read("code", "/") BY <1>0, FreshReads
  <2>2. "/" \in Char BY DEF Char
  <2> QED BY <2>1, <2>2, ReadIs
<1>2. ModeAt(a) = "block"
  <2>1. i + 1 \in 1 .. n /\ (i + 1) + 1 = a BY <1>0
  <2>2. ModeAt(a) = Read("slash", "*") BY <1>0, <1>1, <2>1, SqlModes
  <2>3. "*" \in Char BY DEF Char
  <2> QED BY <2>2, <2>3, ReadIs
<1>3. a \in 1 .. n + 1 /\ a \in Nat BY <1>0
<1>4. ASSUME NEW f \in a .. n + 1, \A k \in a .. (f - 2) : k \notin S
      PROVE  \A k \in a .. f : InBlock(a, k)
  <2>1. \A k \in a .. (f - 2) : ~ At(k, "*", "/") BY <1>0, <1>3, <1>4
  <2> HIDE DEF S, a
  <2> QED BY <1>2, <1>3, <1>4, <2>1, BlockGoesOn
<1>5. ASSUME NEW f \in a .. n + 1, \A k \in a .. f : InBlock(a, k), NEW k \in i .. f
      PROVE  k \notin Delimiters
  <2>1. CASE k \in {i, i + 1}
    <3>1. sql[k] # ";" BY <1>0, <2>1
    <3> QED BY <3>1, SqlModes
  <2>2. CASE k \in a .. f
    <3>1. ModeAt(k) \in {"block", "star"} BY <1>5, <2>2 DEF InBlock
    <3>2. ~ InCode(ModeAt(k)) BY <3>1 DEF InCode
    <3> QED BY <3>2, SqlModes
  <2> QED BY <1>0, <1>3, <1>5, <2>1, <2>2
<1>6. CASE S = {}
  <2>1. e = n BY <1>6 DEF BlockEnd
  <2>2. n + 1 \in a .. n + 1 BY <1>0
  <2>3. \A k \in a .. ((n + 1) - 2) : k \notin S BY <1>6
  <2>4. \A k \in i .. n + 1 : k \notin Delimiters
    <3> HIDE DEF S, n, a
    <3> QED BY <1>4, <1>5, <2>2, <2>3
  <2>5. Fresh(n + 1) BY <1>0 DEF Fresh
  <2>6. e \in i .. n BY <1>0, <2>1
  <2> HIDE DEF S, e
  <2> QED BY <2>1, <2>4, <2>5, <2>6 DEF Passes, e
<1>7. CASE S # {}
  <2> DEFINE f == First(S)
  <2>1. e = f + 1 BY <1>7 DEF BlockEnd
  <2>2. S \subseteq Nat BY <1>0
  <2>3. f \in S /\ \A k \in S : f <= k
    <3> HIDE DEF S
    <3> QED BY <1>7, <2>2, FirstIs
  <2> HIDE DEF e, f
  <2>4. f \in a .. n - 1 /\ At(f, "*", "/") /\ f \in Nat BY <1>0, <2>3
  <2>5. \A k \in a .. f : InBlock(a, k)
    <3>1. \A k \in a .. (f - 2) : ~ (f <= k) BY <1>0, <1>3, <2>4
    <3>2. \A k \in a .. (f - 2) : k \notin S
      <4> HIDE DEF S
      <4> QED BY <2>3, <3>1
    <3>3. f \in a .. n + 1 BY <1>0, <1>3, <2>4
    <3> HIDE DEF S, n, a
    <3> QED BY <1>4, <3>2, <3>3
  <2>6. f \in 1 .. n /\ f + 1 \in 1 .. n /\ f < n /\ sql[f] = "*" /\ sql[f + 1] = "/"
    BY <1>0, <2>4 DEF At
  <2>7. ModeAt(f + 1) = "star"
    <3>1. ModeAt(f) \in {"block", "star"} BY <1>3, <2>4, <2>5 DEF InBlock
    <3>2. ModeAt(f + 1) = Read(ModeAt(f), "*") BY <2>6, SqlModes
    <3>3. "*" \in Char BY DEF Char
    <3> QED BY <3>1, <3>2, <3>3, ReadIs
  <2>8. ModeAt(e + 1) = "code"
    <3>1. ModeAt((f + 1) + 1) = Read("star", "/") BY <2>6, <2>7, SqlModes
    <3>2. "/" \in Char BY DEF Char
    <3> QED BY <2>1, <3>1, <3>2, ReadIs
  <2>9. \A k \in i .. e : k \notin Delimiters
    <3> TAKE k \in i .. e
    <3>1. CASE k = f + 1
      <4>1. sql[k] # ";" BY <2>6, <3>1
      <4> QED BY <4>1, SqlModes
    <3>2. CASE k # f + 1
      <4>1. k \in i .. f BY <1>0, <2>1, <2>4, <3>2
      <4>2. f \in a .. n + 1 BY <1>0, <2>4
      <4> HIDE DEF a, n
      <4> QED BY <1>5, <2>5, <4>1, <4>2
    <3> QED BY <3>1, <3>2
  <2>10. e \in i .. n BY <1>0, <2>1, <2>4
  <2> QED BY <2>8, <2>9, <2>10, FreshAfterCode DEF Passes, e
<1> QED BY <1>6, <1>7

(* The loop in a literal, round by round. *)
LEMMA LiteralEndIs ==
  ASSUME sql \in Seq(Char), NEW i \in 1 .. Len(sql) + 1
  PROVE  \E j : /\ j \in [0 .. Len(sql) -> Nat] /\ j[0] = i
                /\ \A r \in 1 .. Len(sql) : j[r] = NextInLiteral(j[r - 1])
                /\ LiteralEnd(i) = IF j[Len(sql)] > Len(sql) THEN Len(sql) ELSE j[Len(sql)]
<1> DEFINE n == Len(sql)
           F == [z \in (1 .. n) \X Nat |-> NextInLiteral(z[2])]
           Step(f) == [r \in 0 .. n |-> IF r = 0 THEN i ELSE NextInLiteral(f[r - 1])]
           ch == CHOOSE f : f = Step(f)
<1>0. n \in Nat /\ i \in Nat OBVIOUS
<1>1. \A x \in Nat : NextInLiteral(x) \in Nat BY DEF NextInLiteral
<1>2. ASSUME NEW r \in (0 + 1) .. n, NEW x \in Nat
      PROVE  F[<<r, x>>] \in Nat /\ F[<<r, x>>] = NextInLiteral(x)
  <2>1. <<r, x>> \in (1 .. n) \X Nat BY <1>0
  <2>2. F[<<r, x>>] = NextInLiteral(<<r, x>>[2]) BY <2>1
  <2> HIDE DEF F
  <2> QED BY <1>1, <2>2
<1>3. PICK f \in [0 .. n -> Nat] : /\ f[0] = i
                                   /\ \A r \in (0 + 1) .. n : f[r] = F[<<r, f[r - 1]>>]
  <2>1. IsStep(F, 0, n, Nat) BY <1>2 DEF IsStep
  <2>2. 0 \in Nat /\ 0 <= n BY <1>0
  <2> HIDE DEF F, n
  <2>3. \E f : Unfolds(f, F, 0, n, Nat, i) BY <1>0, <2>1, <2>2, RecursionExists
  <2> QED BY <2>3 DEF Unfolds
<1>4. ASSUME NEW r \in 1 .. n PROVE f[r] = NextInLiteral(f[r - 1])
  <2> HIDE DEF F
  <2>1. r \in (0 + 1) .. n /\ r - 1 \in 0 .. n BY <1>0
  <2>2. f[r - 1] \in Nat BY <1>3, <2>1
  <2> QED BY <1>2, <1>3, <2>1, <2>2
<1>5. f = Step(f)
  <2>1. \A r \in 0 .. n : f[r] = Step(f)[r] BY <1>0, <1>3, <1>4
  <2> QED BY <1>3, <2>1
<1>6. ch = Step(ch)
  <2> HIDE DEF Step
  <2> QED BY <1>5
<1>7. LiteralEnd(i) = IF ch[n] > n THEN n ELSE ch[n] BY DEF LiteralEnd
<1>8. /\ ch = [r \in 0 .. n |-> ch[r]] /\ ch[0] = i
      /\ \A r \in 1 .. n : ch[r] = NextInLiteral(ch[r - 1])
  <2> HIDE DEF ch
  <2>1. /\ Step(ch) = [r \in 0 .. n |-> Step(ch)[r]] /\ Step(ch)[0] = i
        /\ \A r \in 1 .. n : Step(ch)[r] = NextInLiteral(ch[r - 1])
    BY <1>0
  <2> HIDE DEF Step
  <2> QED BY <1>6, <2>1
<1> HIDE DEF ch
<1> DEFINE T == {r \in 0 .. n : ch[r] \in Nat}
<1>9. \A r \in 0 .. n : r \in T
  <2>1. 0 \in T BY <1>0, <1>8
  <2>2. ASSUME NEW r \in (0 + 1) .. n, r - 1 \in T PROVE r \in T
    <3>1. r \in 1 .. n /\ r \in 0 .. n BY <1>0
    <3>2. ch[r] = NextInLiteral(ch[r - 1]) /\ ch[r - 1] \in Nat BY <1>8, <2>2, <3>1
    <3>3. ch[r] \in Nat BY <1>1, <3>2, Zenon
    <3> QED BY <3>1, <3>3
  <2> HIDE DEF T, n
  <2> QED BY <1>0, <2>1, <2>2, Induction
<1>10. ch \in [0 .. n -> Nat] BY <1>8, <1>9
<1> QED BY <1>7, <1>8, <1>10


(* The literal opened at i goes on at x. *)
InLiteral(i, x) ==
    /\ x \in (i + 1) .. Len(sql) + 1
    /\ ModeAt(x) = "literal"
    /\ \A k \in i .. (x - 1) : k \notin Delimiters

(* The loop stays at x. *)
Stops(x) == x > Len(sql) \/ (sql[x] = "'" /\ ~ At(x, "'", "'"))

LEMMA LiteralGoesOn ==
  ASSUME sql \in Seq(Char), NEW i \in 1 .. Len(sql), NEW x, InLiteral(i, x)
  PROVE  /\ InLiteral(i, NextInLiteral(x))
         /\ Stops(x) => NextInLiteral(x) = x
         /\ ~ Stops(x) => NextInLiteral(x) > x
<1> DEFINE n == Len(sql)
<1>0. n \in Nat /\ i \in Nat /\ x \in Nat /\ i < x /\ x <= n + 1 BY DEF InLiteral
<1>1. CASE Stops(x)
  <2>1. NextInLiteral(x) = x BY <1>0, <1>1 DEF Stops, NextInLiteral, At
  <2> QED BY <1>1, <2>1
<1>2. CASE ~ Stops(x)
  <2>1. x \in 1 .. n /\ sql[x] \in Char BY <1>0, <1>2 DEF Stops
  <2>2. ModeAt(x) = "literal" /\ \A k \in i .. (x - 1) : k \notin Delimiters
    BY DEF InLiteral
  <2>3. x \notin Delimiters
    <3>1. ~ InCode(ModeAt(x)) BY <2>2 DEF InCode
    <3> QED BY <3>1, SqlModes
  <2>4. ModeAt(x + 1) = Read("literal", sql[x]) BY <2>1, <2>2, SqlModes
  <2>5. CASE sql[x] # "'"
    <3>1. NextInLiteral(x) = x + 1 BY <1>0, <2>1, <2>5 DEF NextInLiteral
    <3>2. ModeAt(x + 1) = "literal" BY <2>1, <2>4, <2>5, ReadIs
    <3>3. \A k \in i .. ((x + 1) - 1) : k \notin Delimiters
      <4>1. \A k \in i .. ((x + 1) - 1) : k = x \/ k \in i .. (x - 1) BY <1>0
      <4> QED BY <2>2, <2>3, <4>1
    <3>4. x + 1 \in (i + 1) .. n + 1 BY <1>0, <2>1
    <3>5. InLiteral(i, x + 1) BY <3>2, <3>3, <3>4 DEF InLiteral
    <3> QED BY <1>0, <1>2, <3>1, <3>5
  <2>6. CASE sql[x] = "'"
    <3>1. x < n /\ sql[x + 1] = "'" BY <1>2, <2>6 DEF Stops, At
    <3>2. NextInLiteral(x) = x + 2
      <4>1. At(x, "'", "'") BY <1>2, <2>6 DEF Stops
      <4> QED BY <1>0, <2>1, <2>6, <4>1 DEF NextInLiteral
    <3>3. "'" \in Char BY DEF Char
    <3>4. ModeAt(x + 1) = "code" BY <2>4, <2>6, <3>3, ReadIs
    <3>5. x + 1 \in 1 .. n /\ (x + 1) + 1 = x + 2 BY <1>0, <3>1
    <3>6. ModeAt(x + 2) = Read("code", "'") BY <3>1, <3>4, <3>5, SqlModes
    <3>7. ModeAt(x + 2) = "literal" BY <3>3, <3>6, ReadIs
    <3>8. x + 1 \notin Delimiters
      <4>1. sql[x + 1] # ";" BY <3>1
      <4> QED BY <4>1, SqlModes
    <3>9. \A k \in i .. ((x + 2) - 1) : k \notin Delimiters
      <4>1. \A k \in i .. ((x + 2) - 1) : k = x \/ k = x + 1 \/ k \in i .. (x - 1) BY <1>0
      <4> QED BY <2>2, <2>3, <3>8, <4>1
    <3>10. x + 2 \in (i + 1) .. n + 1 BY <1>0, <3>1
    <3>11. InLiteral(i, x + 2) BY <3>7, <3>9, <3>10 DEF InLiteral
    <3> QED BY <1>0, <1>2, <3>2, <3>11
  <2> QED BY <2>5, <2>6
<1> QED BY <1>1, <1>2

LEMMA LiteralEndPasses ==
  ASSUME sql \in Seq(Char), NEW i \in 1 .. Len(sql), Fresh(i), sql[i] = "'"
  PROVE  Passes(i, LiteralEnd(i + 1))
<1> DEFINE n == Len(sql)
           e == LiteralEnd(i + 1)
<1>0. n \in Nat /\ i \in Nat /\ 1 <= i /\ i <= n /\ i + 1 \in 1 .. n + 1 OBVIOUS
<1>1. PICK j : /\ j \in [0 .. n -> Nat] /\ j[0] = i + 1
               /\ \A r \in 1 .. n : j[r] = NextInLiteral(j[r - 1])
               /\ e = IF j[n] > n THEN n ELSE j[n]
  BY <1>0, LiteralEndIs
<1> HIDE DEF e
<1> DEFINE T == {r \in 0 .. n : /\ InLiteral(i, j[r])
                                /\ Stops(j[r]) \/ j[r] > i + r}
<1>2. 0 \in T
  <2>1. ModeAt(i + 1) = "literal"
    <3>1. ModeAt(i + 1) = Read("code", "'") BY FreshReads
    <3>2. "'" \in Char BY DEF Char
    <3> QED BY <3>1, <3>2, ReadIs
  <2>2. i \notin Delimiters
    <3>1. sql[i] # ";" OBVIOUS
    <3> QED BY <3>1, SqlModes
  <2>3. \A k \in i .. ((i + 1) - 1) : k \notin Delimiters
    <3>1. \A k \in i .. ((i + 1) - 1) : k = i BY <1>0
    <3> QED BY <2>2, <3>1
  <2>4. i + 1 \in (i + 1) .. n + 1 BY <1>0
  <2>5. InLiteral(i, i + 1) BY <2>1, <2>3, <2>4 DEF InLiteral
  <2> QED BY <1>0, <1>1, <2>5
<1>3. ASSUME NEW r \in (0 + 1) .. n, r - 1 \in T PROVE r \in T
  <2> DEFINE x == j[r - 1]
  <2>1. r \in 1 .. n /\ r - 1 \in 0 .. n BY <1>0, <1>3
  <2>2. x \in Nat /\ j[r] = NextInLiteral(x) /\ j[r] \in Nat
    <3>1. j[r] = NextInLiteral(x) BY <1>1, <2>1
    <3>2. r \in 0 .. n BY <2>1
    <3>3. \A q \in 0 .. n : j[q] \in Nat BY <1>1
    <3> QED BY <2>1, <3>1, <3>2, <3>3
  <2>3. InLiteral(i, x) /\ (Stops(x) \/ x > i + (r - 1)) BY <1>3
  <2> HIDE DEF x
  <2>4. /\ InLiteral(i, j[r])
        /\ Stops(x) => j[r] = x
        /\ ~ Stops(x) => j[r] > x
    BY <2>2, <2>3, LiteralGoesOn
  <2>5. Stops(j[r]) \/ j[r] > i + r BY <1>0, <2>1, <2>2, <2>3, <2>4
  <2> QED BY <2>1, <2>4, <2>5
<1>4. \A r \in 0 .. n : r \in T
  <2> HIDE DEF T, n
  <2> QED BY <1>0, <1>2, <1>3, Induction
<1> DEFINE x == j[n]
<1>5. InLiteral(i, x) /\ (Stops(x) \/ x > i + n) /\ x \in Nat BY <1>0, <1>1, <1>4
<1>6. e = IF x > n THEN n ELSE x BY <1>1
<1> HIDE DEF x
<1>7. /\ x \in (i + 1) .. n + 1 /\ ModeAt(x) = "literal"
      /\ \A k \in i .. (x - 1) : k \notin Delimiters
  BY <1>5 DEF InLiteral
<1>8. CASE x > n
  <2>1. e = n /\ x - 1 = n BY <1>0, <1>6, <1>7, <1>8
  <2>2. Fresh(n + 1) BY <1>0 DEF Fresh
  <2>3. e \in i .. n BY <1>0, <2>1
  <2> QED BY <1>7, <2>1, <2>2, <2>3 DEF Passes, e
<1>9. CASE x <= n
  <2>1. e = x /\ e \in i .. n /\ x \in 1 .. n BY <1>0, <1>6, <1>7, <1>9
  <2>2. sql[x] = "'" BY <1>0, <1>5, <1>9 DEF Stops
  <2>3. ModeAt(x + 1) = "code"
    <3>1. ModeAt(x + 1) = Read("literal", "'") BY <1>7, <2>1, <2>2, SqlModes
    <3>2. "'" \in Char BY DEF Char
    <3> QED BY <3>1, <3>2, ReadIs
  <2>4. x \notin Delimiters
    <3>1. sql[x] # ";" BY <2>2
    <3> QED BY <3>1, SqlModes
  <2>5. \A k \in i .. x : k \notin Delimiters
    <3>1. \A k \in i .. x : k = x \/ k \in i .. (x - 1) BY <1>0, <1>5
    <3> QED BY <1>7, <2>4, <3>1
  <2>6. Fresh(e + 1) BY <2>1, <2>3, FreshAfterCode
  <2> QED BY <2>1, <2>5, <2>6 DEF Passes, e
<1> QED BY <1>5, <1>0, <1>8, <1>9

Semicolon(i) == sql[i] = ";"

(* One character that is nothing else, and no delimiter. *)
LEMMA CharacterPasses ==
  ASSUME sql \in Seq(Char), NEW i \in 1 .. Len(sql), Fresh(i), ~ Semicolon(i), sql[i] # "'",
         i < Len(sql) /\ sql[i] = "-" => sql[i + 1] # "-",
         i < Len(sql) /\ sql[i] = "/" => sql[i + 1] # "*"
  PROVE  Passes(i, i)
<1> DEFINE c == sql[i]
<1>0. Len(sql) \in Nat /\ i \in Nat /\ i <= Len(sql) OBVIOUS
<1>1. c \in Char /\ ModeAt(i + 1) = Read("code", c) BY FreshReads
<1>2. \A k \in i .. i : k \notin Delimiters
  <2>1. \A k \in i .. i : k = i BY <1>0
  <2> QED BY <2>1, SqlModes, Zenon DEF Semicolon
<1>3. ASSUME i + 1 <= Len(sql)
      PROVE  /\ InCode(ModeAt(i + 1))
             /\ Read(ModeAt(i + 1), sql[i + 1]) = Read("code", sql[i + 1])
  <2> DEFINE d == sql[i + 1]
  <2>1. d \in Char BY <1>0, <1>3
  <2>2. (c = "-" => d # "-") /\ (c = "/" => d # "*") BY <1>0, <1>3
  <2> HIDE DEF d
  <2>3. CASE c = "-"
    <3>1. ModeAt(i + 1) = "dash" BY <1>1, <2>3, ReadIs
    <3> QED BY <2>1, <2>2, <2>3, <3>1, ReadIs DEF InCode, d
  <2>4. CASE c = "/"
    <3>1. ModeAt(i + 1) = "slash" BY <1>1, <2>4, ReadIs
    <3> QED BY <2>1, <2>2, <2>4, <3>1, ReadIs DEF InCode, d
  <2>5. CASE c \notin {"-", "/"}
    <3>1. ModeAt(i + 1) = "code" BY <1>1, <2>5, ReadIs
    <3> QED BY <3>1 DEF InCode
  <2> QED BY <2>3, <2>4, <2>5
<1>4. Fresh(i + 1) BY <1>3 DEF Fresh
<1> QED BY <1>0, <1>2, <1>4 DEF Passes

LEMMA TokenPasses ==
  ASSUME sql \in Seq(Char), NEW i \in 1 .. Len(sql), Fresh(i), ~ Semicolon(i)
  PROVE  Passes(i, TokenEnd(i))
<1>1. CASE At(i, "-", "-") BY <1>1, LineEndPasses DEF TokenEnd
<1>2. CASE ~ At(i, "-", "-") /\ At(i, "/", "*") BY <1>2, BlockEndPasses DEF TokenEnd
<1>3. CASE ~ At(i, "-", "-") /\ ~ At(i, "/", "*") /\ sql[i] = "'"
  BY <1>3, LiteralEndPasses DEF TokenEnd
<1>4. CASE ~ At(i, "-", "-") /\ ~ At(i, "/", "*") /\ sql[i] # "'"
  <2>1. /\ i < Len(sql) /\ sql[i] = "-" => sql[i + 1] # "-"
        /\ i < Len(sql) /\ sql[i] = "/" => sql[i + 1] # "*"
    BY <1>4, Zenon DEF At
  <2>2. TokenEnd(i) = i BY <1>4, Zenon DEF TokenEnd
  <2>3. Passes(i, i) BY <1>4, <2>1, CharacterPasses
  <2> QED BY <2>2, <2>3
<1> QED BY <1>1, <1>2, <1>3, <1>4


LEMMA SemicolonCuts ==
  ASSUME sql \in Seq(Char), NEW i \in 1 .. Len(sql), Fresh(i), Semicolon(i)
  PROVE  i \in Delimiters /\ Fresh(i + 1)
<1>1. InCode(ModeAt(i)) /\ sql[i] \in Char /\ ModeAt(i + 1) = Read("code", sql[i])
  BY FreshReads
<1>2. i \in Delimiters BY <1>1, SqlModes, Zenon DEF Semicolon
<1>3. sql[i] # "'" /\ sql[i] # "-" /\ sql[i] # "/" BY Zenon DEF Semicolon
<1>4. ModeAt(i + 1) = "code" BY <1>1, <1>3, ReadIs
<1> QED BY <1>2, <1>4, FreshAfterCode

-----------------------------------------------------------------------------
(* Blocks and statements of the reference.                                  *)

Text == Seq(Char)

LEMMA StripIs ==
  ASSUME NEW block \in Text
  PROVE  /\ Strip(block) \in Text
         /\ Strip(block) # <<>> =>
               /\ Strip(block)[1] # "\n"
               /\ Strip(block)[Len(Strip(block))] # "\n"
<1> DEFINE solid == {k \in DOMAIN block : block[k] # "\n"}
           first == First(solid)
           last == CHOOSE k \in solid : \A j \in solid : j <= k
           st == Strip(block)
<1>0. Len(block) \in Nat /\ DOMAIN block = 1 .. Len(block)
      /\ \A k \in 1 .. Len(block) : block[k] \in Char
  BY DEF Text
<1>1. CASE solid = {}
  <2>1. st = <<>> BY <1>1 DEF Strip
  <2> QED BY <2>1 DEF Text
<1>2. CASE solid # {}
  <2>1. st = SubSeq(block, first, last) BY <1>2 DEF Strip
  <2>2. solid \subseteq Nat /\ \A k \in solid : k <= Len(block) BY <1>0
  <2>3. \A k \in solid : k \in 1 .. Len(block) /\ block[k] # "\n" BY <1>0
  <2> HIDE DEF solid
  <2>4. first \in solid /\ \A k \in solid : first <= k BY <1>2, <2>2, FirstIs
  <2>5. last \in solid /\ \A k \in solid : k <= last
    <3>1. \E k \in solid : \A j \in solid : j <= k BY <1>0, <1>2, <2>2, GreatestNat
    <3> QED BY <3>1
  <2> HIDE DEF first, last, st
  <2>6. first \in 1 .. Len(block) /\ last \in 1 .. Len(block) /\ first <= last
    BY <2>3, <2>4, <2>5
  <2>7. \A k \in first .. last : block[k] \in Char BY <1>0, <2>6
  <2>8. /\ st \in Seq(Char) /\ Len(st) = last - first + 1
        /\ \A k \in 1 .. last - first + 1 : st[k] = block[first + k - 1]
    BY <1>0, <2>1, <2>6, <2>7, SubSeqProperties
  <2>9. st[1] = block[first] /\ st[Len(st)] = block[last] BY <1>0, <2>6, <2>8
  <2> QED BY <2>3, <2>4, <2>5, <2>8, <2>9 DEF st, Text
<1> QED BY <1>1, <1>2

Statement == {t \in Text : t # <<>> /\ t[1] # "\n" /\ t[Len(t)] # "\n"}

(* Kept() by what the reference sees in a block. *)
Filtered(stmts, block) ==
    IF MoreThanLineComments(Strip(block)) THEN Append(stmts, Strip(block)) ELSE stmts

LEMMA FilteredType ==
  ASSUME NEW stmts \in Seq(Statement), NEW block \in Text
  PROVE  Filtered(stmts, block) \in Seq(Statement) /\ Kept(stmts, block) = Filtered(stmts, block)
<1>1. Strip(block) \in Text BY StripIs
<1>2. HasStatement(Strip(block)) <=> MoreThanLineComments(Strip(block))
  BY <1>1, FilterAgrees DEF Text
<1>3. ASSUME MoreThanLineComments(Strip(block)) PROVE Append(stmts, Strip(block)) \in Seq(Statement)
  <2>1. Strip(block) # <<>>
    <3>1. \E k \in DOMAIN Strip(block) : TRUE BY <1>3 DEF MoreThanLineComments
    <3> QED BY <3>1
  <2>2. Strip(block) \in Statement BY <1>1, <2>1, StripIs DEF Statement
  <2> QED BY <2>2
<1> QED BY <1>2, <1>3 DEF Filtered, Kept

(* The last delimiter before k, or 0.  *)
IsLast(last, k) ==
    /\ last \in 0 .. (k - 1)
    /\ last = 0 \/ last \in Delimiters
    /\ \A i \in (last + 1) .. (k - 1) : i \notin Delimiters

LEMMA BeforeIs ==
  ASSUME sql \in Seq(Char), NEW k \in 1 .. Len(sql) + 1
  PROVE  /\ \E last : IsLast(last, k)
         /\ \A last : IsLast(last, k) => Before(k) = SubSeq(sql, last + 1, k - 1)
         /\ Before(k) \in Text
<1> DEFINE cuts == {i \in Delimiters : i < k} \cup {0}
           l == CHOOSE i \in cuts : \A j \in cuts : j <= i
<1>0. /\ Len(sql) \in Nat /\ k \in Nat
      /\ \A i \in Delimiters : i \in 1 .. Len(sql) /\ i \in Nat
  <2>1. Delimiters \subseteq 1 .. Len(sql) BY SqlModes, Zenon
  <2> QED BY <2>1
<1>1. cuts \subseteq Nat /\ cuts # {} /\ \A i \in cuts : i <= k BY <1>0
<1>2. l \in cuts /\ \A j \in cuts : j <= l
  <2> HIDE DEF cuts
  <2>1. \E i \in cuts : \A j \in cuts : j <= i BY <1>0, <1>1, GreatestNat
  <2> QED BY <2>1
<1>3. Before(k) = SubSeq(sql, l + 1, k - 1) BY DEF Before
<1> HIDE DEF l
<1>4. IsLast(l, k)
  <2>1. l \in 0 .. (k - 1) /\ (l = 0 \/ l \in Delimiters) BY <1>0, <1>2
  <2>2. ASSUME NEW i \in (l + 1) .. (k - 1), i \in Delimiters PROVE FALSE
    <3>1. i \in cuts BY <1>0, <2>1, <2>2
    <3>2. i <= l BY <1>2, <3>1
    <3> QED BY <2>1, <2>2, <3>2
  <2> QED BY <2>1, <2>2 DEF IsLast
<1>5. ASSUME NEW last, IsLast(last, k) PROVE last = l
  <2>1. last \in cuts /\ last \in 0 .. (k - 1) BY <1>0, <1>5 DEF IsLast
  <2>2. last <= l BY <1>2, <2>1
  <2>3. l \in 0 .. (k - 1) /\ (l = 0 \/ l \in Delimiters) BY <1>4 DEF IsLast
  <2>4. \A i \in (last + 1) .. (k - 1) : i \notin Delimiters BY <1>5 DEF IsLast
  <2>5. ~ (last < l) BY <1>0, <2>1, <2>3, <2>4
  <2> QED BY <2>1, <2>2, <2>3, <2>5
<1>6. Before(k) \in Text
  <2>1. l \in 0 .. (k - 1) BY <1>4 DEF IsLast
  <2>2. \A i \in (l + 1) .. (k - 1) : sql[i] \in Char BY <1>0, <2>1
  <2>3. l + 1 \in Int /\ k - 1 \in Int BY <1>0, <2>1
  <2> QED BY <1>3, <2>2, <2>3, SubSeqProperties DEF Text
<1> QED BY <1>3, <1>4, <1>5, <1>6

LEMMA BeforeGrows ==
  ASSUME sql \in Seq(Char), NEW i \in 1 .. Len(sql), NEW e, Passes(i, e)
  PROVE  Before(e + 1) = Before(i) \o SubSeq(sql, i, e)
<1>0. /\ Len(sql) \in Nat /\ i \in Nat /\ e \in i .. Len(sql) /\ e \in Nat /\ i <= e
      /\ \A k \in i .. e : k \notin Delimiters
  BY DEF Passes
<1>1. i \in 1 .. Len(sql) + 1 /\ e + 1 \in 1 .. Len(sql) + 1 BY <1>0
<1>2. PICK last : IsLast(last, i) BY <1>1, BeforeIs
<1>3. last \in 0 .. (i - 1) BY <1>2 DEF IsLast
<1>4. IsLast(last, e + 1)
  <2>1. last \in 0 .. ((e + 1) - 1) BY <1>0, <1>3
  <2>2. \A k \in (last + 1) .. ((e + 1) - 1) : k \in (last + 1) .. (i - 1) \/ k \in i .. e
    BY <1>0, <1>3
  <2> QED BY <1>0, <1>2, <2>1, <2>2 DEF IsLast
<1>5. Before(i) = SubSeq(sql, last + 1, i - 1) BY <1>1, <1>2, BeforeIs
<1>6. Before(e + 1) = SubSeq(sql, last + 1, (e + 1) - 1) BY <1>1, <1>4, BeforeIs
<1>7. SubSeq(sql, last + 1, i - 1) \o SubSeq(sql, (i - 1) + 1, e) = SubSeq(sql, last + 1, e)
  <2>1. /\ last + 1 \in 1 .. Len(sql) + 1 /\ i - 1 \in (last + 1) - 1 .. Len(sql)
        /\ e \in i - 1 .. Len(sql)
    BY <1>0, <1>3
  <2> QED BY <2>1, ConcatAdjacentSubSeq
<1>8. (e + 1) - 1 = e /\ (i - 1) + 1 = i BY <1>0
<1> QED BY <1>5, <1>6, <1>7, <1>8

(* What is cut and filtered before each character, by the reference. *)
IsReference(R) ==
    /\ R \in [0 .. Len(sql) + 1 -> Seq(Statement)] /\ R[0] = <<>>
    /\ \A k \in 1 .. Len(sql) + 1 :
          R[k] = IF k \in Delimiters \cup {Len(sql) + 1} THEN Filtered(R[k - 1], Before(k))
                 ELSE R[k - 1]

LEMMA ReferenceExists ==
  ASSUME sql \in Seq(Char)
  PROVE  \E R : IsReference(R)
<1> DEFINE n == Len(sql) + 1
           On(k, x) == IF k \in Delimiters \cup {n} THEN Filtered(x, Before(k)) ELSE x
           F == [z \in (1 .. n) \X Seq(Statement) |-> On(z[1], z[2])]
<1>0. n \in Nat /\ 0 <= n /\ 0 \in Nat /\ <<>> \in Seq(Statement) OBVIOUS
<1>1. ASSUME NEW k \in (0 + 1) .. n, NEW x \in Seq(Statement)
      PROVE  F[<<k, x>>] \in Seq(Statement) /\ F[<<k, x>>] = On(k, x)
  <2>1. k \in 1 .. n /\ <<k, x>> \in (1 .. n) \X Seq(Statement) BY <1>0
  <2>2. F[<<k, x>>] = On(<<k, x>>[1], <<k, x>>[2])
    <3> HIDE DEF On, n
    <3> QED BY <2>1
  <2>3. On(k, x) \in Seq(Statement)
    <3>1. Before(k) \in Text BY <2>1, BeforeIs
    <3> QED BY <3>1, FilteredType
  <2> HIDE DEF F, On, n
  <2> QED BY <2>2, <2>3
<1>2. PICK f \in [0 .. n -> Seq(Statement)] : /\ f[0] = <<>>
                                         /\ \A k \in (0 + 1) .. n : f[k] = F[<<k, f[k - 1]>>]
  <2> HIDE DEF F, n
  <2>1. IsStep(F, 0, n, Seq(Statement)) BY <1>1 DEF IsStep
  <2>2. \E f : Unfolds(f, F, 0, n, Seq(Statement), <<>>) BY <1>0, <2>1, RecursionExists
  <2> QED BY <2>2 DEF Unfolds
<1>3. ASSUME NEW k \in 1 .. n PROVE f[k] = On(k, f[k - 1])
  <2>1. k \in (0 + 1) .. n /\ k - 1 \in 0 .. n BY <1>0
  <2> HIDE DEF F, On, n
  <2>2. f[k - 1] \in Seq(Statement) BY <1>2, <2>1
  <2> QED BY <1>1, <1>2, <2>1, <2>2
<1> HIDE DEF F
<1> QED BY <1>2, <1>3 DEF IsReference

(* The statements of a sequence that have code, by its prefixes. *)
IsTaking(f, stmts) ==
    /\ f \in [0 .. Len(stmts) -> Seq(Statement)] /\ f[0] = <<>>
    /\ \A i \in 1 .. Len(stmts) : f[i] = Taken(f[i - 1], stmts[i])

LEMMA TakenType ==
  ASSUME NEW stmts \in Seq(Statement), NEW stmt \in Statement
  PROVE  Taken(stmts, stmt) \in Seq(Statement)
BY DEF Taken

LEMMA WithCodeIs ==
  ASSUME NEW stmts \in Seq(Statement)
  PROVE  \E f : IsTaking(f, stmts) /\ WithCode(stmts) = f[Len(stmts)]
<1> DEFINE n == Len(stmts)
           F == [z \in (1 .. n) \X Seq(Statement) |-> Taken(z[2], stmts[z[1]])]
           Step(f) == [i \in 0 .. n |-> IF i = 0 THEN <<>> ELSE Taken(f[i - 1], stmts[i])]
           ch == CHOOSE f : f = Step(f)
<1>0. n \in Nat /\ 0 <= n /\ 0 \in Nat /\ <<>> \in Seq(Statement) OBVIOUS
<1>1. ASSUME NEW i \in (0 + 1) .. n, NEW x \in Seq(Statement)
      PROVE  F[<<i, x>>] \in Seq(Statement) /\ F[<<i, x>>] = Taken(x, stmts[i])
  <2>1. i \in 1 .. n /\ <<i, x>> \in (1 .. n) \X Seq(Statement) /\ stmts[i] \in Statement BY <1>0
  <2>2. F[<<i, x>>] = Taken(<<i, x>>[2], stmts[<<i, x>>[1]])
    <3> HIDE DEF n
    <3> QED BY <2>1
  <2> HIDE DEF F, n
  <2> QED BY <2>1, <2>2, TakenType
<1>2. PICK f \in [0 .. n -> Seq(Statement)] : /\ f[0] = <<>>
                                         /\ \A i \in (0 + 1) .. n : f[i] = F[<<i, f[i - 1]>>]
  <2> HIDE DEF F, n
  <2>1. IsStep(F, 0, n, Seq(Statement)) BY <1>1 DEF IsStep
  <2>2. \E f : Unfolds(f, F, 0, n, Seq(Statement), <<>>) BY <1>0, <2>1, RecursionExists
  <2> QED BY <2>2 DEF Unfolds
<1>3. ASSUME NEW i \in 1 .. n PROVE f[i] = Taken(f[i - 1], stmts[i])
  <2>1. i \in (0 + 1) .. n /\ i - 1 \in 0 .. n BY <1>0
  <2> HIDE DEF F, n
  <2>2. f[i - 1] \in Seq(Statement) BY <1>2, <2>1
  <2> QED BY <1>1, <1>2, <2>1, <2>2
<1>4. f = Step(f)
  <2> HIDE DEF n
  <2>1. \A i \in 0 .. n : f[i] = Step(f)[i] BY <1>0, <1>2, <1>3
  <2> QED BY <1>2, <2>1
<1>5. ch = Step(ch)
  <2> HIDE DEF Step
  <2> QED BY <1>4
<1>6. WithCode(stmts) = ch[n] BY DEF WithCode
<1>7. ch[0] = <<>> /\ \A i \in 1 .. n : ch[i] = Taken(ch[i - 1], stmts[i])
  <2> HIDE DEF ch, n
  <2>1. Step(ch)[0] = <<>> /\ \A i \in 1 .. n : Step(ch)[i] = Taken(ch[i - 1], stmts[i])
    BY <1>0
  <2> HIDE DEF Step
  <2> QED BY <1>5, <2>1
<1> HIDE DEF ch
<1> DEFINE T == {i \in 0 .. n : ch[i] = f[i]}
<1>8. \A i \in 0 .. n : i \in T
  <2>1. 0 \in T BY <1>0, <1>2, <1>7
  <2>2. ASSUME NEW i \in (0 + 1) .. n, i - 1 \in T PROVE i \in T
    <3>1. i \in 1 .. n BY <1>0
    <3> HIDE DEF n
    <3> QED BY <1>0, <1>3, <1>7, <2>2, <3>1
  <2> HIDE DEF T, n
  <2> QED BY <1>0, <2>1, <2>2, Induction
<1>9. n \in T BY <1>0, <1>8
<1>10. IsTaking(f, stmts)
  <2> HIDE DEF F
  <2> QED BY <1>2, <1>3 DEF IsTaking
<1> QED BY <1>6, <1>9, <1>10

LEMMA WithCodeEmpty == WithCode(<<>>) = <<>>
<1>1. <<>> \in Seq(Statement) /\ Len(<<>>) = 0 OBVIOUS
<1> QED BY <1>1, WithCodeIs DEF IsTaking

LEMMA WithCodeAppend ==
  ASSUME NEW stmts \in Seq(Statement), NEW stmt \in Statement
  PROVE  /\ WithCode(Append(stmts, stmt)) = Taken(WithCode(stmts), stmt)
         /\ WithCode(stmts) \in Seq(Statement)
<1> DEFINE more == Append(stmts, stmt)
           n == Len(stmts)
<1>0. /\ n \in Nat /\ more \in Seq(Statement) /\ Len(more) = n + 1 /\ more[n + 1] = stmt
      /\ \A i \in 1 .. n : more[i] = stmts[i]
  OBVIOUS
<1>1. PICK f : IsTaking(f, stmts) /\ WithCode(stmts) = f[n] BY WithCodeIs
<1>2. PICK g : IsTaking(g, more) /\ WithCode(more) = g[n + 1]
  <2> HIDE DEF more, n
  <2> QED BY <1>0, WithCodeIs
<1> HIDE DEF more
<1> DEFINE T == {i \in 0 .. n : f[i] = g[i]}
<1>3. \A i \in 0 .. n : i \in T
  <2>1. 0 \in T BY <1>0, <1>1, <1>2 DEF IsTaking
  <2>2. ASSUME NEW i \in (0 + 1) .. n, i - 1 \in T PROVE i \in T
    <3>1. i \in 1 .. n /\ i \in 1 .. n + 1 /\ i \in 0 .. n BY <1>0
    <3>2. f[i] = Taken(f[i - 1], stmts[i]) BY <1>1, <3>1 DEF IsTaking
    <3>3. g[i] = Taken(g[i - 1], more[i]) BY <1>0, <1>2, <3>1 DEF IsTaking
    <3> QED BY <1>0, <2>2, <3>1, <3>2, <3>3
  <2> HIDE DEF T, n
  <2> QED BY <1>0, <2>1, <2>2, Induction
<1>4. f[n] = g[n] BY <1>0, <1>3
<1>5. g[n + 1] = Taken(g[n], stmt)
  <2>1. n + 1 \in 1 .. Len(more) /\ (n + 1) - 1 = n BY <1>0
  <2>2. g[n + 1] = Taken(g[(n + 1) - 1], more[n + 1]) BY <1>2, <2>1 DEF IsTaking
  <2> QED BY <1>0, <2>1, <2>2
<1>6. f[n] \in Seq(Statement) BY <1>0, <1>1 DEF IsTaking
<1> QED BY <1>1, <1>2, <1>4, <1>5, <1>6 DEF more

(* Of what the filter keeps, that which has code is what the docstring keeps.*)
LEMMA FilteredWithCode ==
  ASSUME NEW stmts \in Seq(Statement), NEW block \in Text
  PROVE  WithCode(Filtered(stmts, block)) = Taken(WithCode(stmts), Strip(block))
<1> DEFINE b == Strip(block)
<1>1. b \in Text BY StripIs
<1>2. HasCode(b) => MoreThanLineComments(b)
  <2> DEFINE md == Modes(b)
  <2> HIDE DEF b
  <2> SUFFICES ASSUME NEW k \in DOMAIN b, b[k] # "\n",
                      {md[k], md[k + 1]} \cap {"line", "block", "star"} = {},
                      md[k + 1] \in {"dash", "slash"} /\ k < Len(b) =>
                         md[k + 2] \notin {"line", "block"}
               PROVE  MoreThanLineComments(b)
    BY DEF HasCode
  <2>1. "line" \notin {md[k], md[k + 1]} OBVIOUS
  <2>2. md[k + 1] = "dash" /\ k < Len(b) => md[k + 2] # "line" OBVIOUS
  <2> QED BY <2>1, <2>2 DEF MoreThanLineComments
<1>3. CASE MoreThanLineComments(b)
  <2>1. \E k \in DOMAIN b : TRUE BY <1>3 DEF MoreThanLineComments
  <2>2. b \in Statement BY <1>1, <2>1, StripIs DEF Statement
  <2>3. Filtered(stmts, block) = Append(stmts, b) BY <1>3 DEF Filtered
  <2> HIDE DEF b
  <2> QED BY <2>2, <2>3, WithCodeAppend DEF b
<1>4. CASE ~ MoreThanLineComments(b) BY <1>2, <1>4 DEF Filtered, Taken
<1> QED BY <1>3, <1>4

(* The two references: what has code in the first is the second.            *)
LEMMA BetweenIs ==
  ASSUME sql \in Seq(Char), NEW R, IsReference(R)
  PROVE  StatementsBetween = WithCode(R[Len(sql) + 1])
<1> DEFINE n == Len(sql) + 1
           ends == Delimiters \cup {n}
           On(k, x) == IF k \in ends THEN Taken(x, Strip(Before(k))) ELSE x
           Step(f) == [k \in 0 .. n |-> IF k = 0 THEN <<>>
                                        ELSE IF k \in ends THEN Taken(f[k - 1], Strip(Before(k)))
                                        ELSE f[k - 1]]
           ch == CHOOSE f : f = Step(f)
           g == [k \in 0 .. n |-> WithCode(R[k])]
<1>0. n \in Nat /\ 0 <= n /\ 0 \in Nat OBVIOUS
<1>1. g[0] = <<>> BY <1>0, WithCodeEmpty DEF IsReference
<1>2. ASSUME NEW k \in 1 .. n PROVE g[k] = On(k, g[k - 1])
  <2>1. k \in 0 .. n /\ k - 1 \in 0 .. n BY <1>0
  <2>2. g[k] = WithCode(R[k]) /\ g[k - 1] = WithCode(R[k - 1])
    <3> HIDE DEF n
    <3> QED BY <2>1
  <2>3. R[k - 1] \in Seq(Statement) BY <2>1 DEF IsReference
  <2>4. Before(k) \in Text BY BeforeIs
  <2>5. R[k] = IF k \in ends THEN Filtered(R[k - 1], Before(k)) ELSE R[k - 1] BY DEF IsReference
  <2> HIDE DEF g, ends, n
  <2> QED BY <2>2, <2>3, <2>4, <2>5, FilteredWithCode
<1>3. g = Step(g)
  <2>1. \A k \in 0 .. n : g[k] = Step(g)[k]
    <3> HIDE DEF ends, n, g
    <3> QED BY <1>0, <1>1, <1>2
  <2> HIDE DEF ends, n
  <2> QED BY <2>1
<1>4. ch = Step(ch)
  <2> HIDE DEF Step, g
  <2> QED BY <1>3
<1>5. StatementsBetween = ch[n] BY DEF StatementsBetween
<1>6. ch[0] = <<>> /\ \A k \in 1 .. n : ch[k] = On(k, ch[k - 1])
  <2> HIDE DEF ch, ends, n
  <2>1. Step(ch)[0] = <<>> /\ \A k \in 1 .. n : Step(ch)[k] = On(k, ch[k - 1]) BY <1>0
  <2> HIDE DEF Step
  <2> QED BY <1>4, <2>1
<1> HIDE DEF ch
<1> DEFINE T == {k \in 0 .. n : ch[k] = g[k]}
<1>7. \A k \in 0 .. n : k \in T
  <2>1. 0 \in T
    <3> HIDE DEF g, n
    <3> QED BY <1>0, <1>1, <1>6
  <2>2. ASSUME NEW k \in (0 + 1) .. n, k - 1 \in T PROVE k \in T
    <3>1. k \in 1 .. n /\ k \in 0 .. n BY <1>0
    <3> HIDE DEF g, n, ends
    <3> QED BY <1>2, <1>6, <2>2, <3>1
  <2> HIDE DEF T, n
  <2> QED BY <1>0, <2>1, <2>2, Induction
<1>8. ch[n] = g[n] BY <1>0, <1>7
<1>9. g[n] = WithCode(R[n])
  <2> HIDE DEF n
  <2> QED BY <1>0
<1> HIDE DEF g
<1> QED BY <1>5, <1>8, <1>9

(* The reference keeps nothing that is only line comments. *)
LEMMA ReferenceKeeps ==
  ASSUME sql \in Seq(Char), NEW R, IsReference(R)
  PROVE  \A i \in DOMAIN R[Len(sql) + 1] : MoreThanLineComments(R[Len(sql) + 1][i])
<1> DEFINE n == Len(sql) + 1
           Good(stmts) == \A i \in 1 .. Len(stmts) : MoreThanLineComments(stmts[i])
           T == {k \in 0 .. n : Good(R[k])}
<1>0. n \in Nat /\ 0 <= n /\ 0 \in Nat OBVIOUS
<1>1. 0 \in T
  <2>1. R[0] = <<>> BY DEF IsReference
  <2>2. Good(R[0]) BY <2>1
  <2> HIDE DEF Good
  <2> QED BY <1>0, <2>2
<1>2. ASSUME NEW k \in (0 + 1) .. n, k - 1 \in T PROVE k \in T
  <2>1. k \in 1 .. n /\ k \in 0 .. n /\ k - 1 \in 0 .. n BY <1>0
  <2>2. R[k - 1] \in Seq(Statement) /\ Good(R[k - 1]) BY <1>2, <2>1 DEF IsReference
  <2>3. R[k] = Filtered(R[k - 1], Before(k)) \/ R[k] = R[k - 1] BY <2>1 DEF IsReference
  <2> DEFINE b == Strip(Before(k))
             r == R[k - 1]
  <2>4. ASSUME MoreThanLineComments(b) PROVE Good(Append(r, b))
    <3> HIDE DEF b, r
    <3>1. /\ Len(Append(r, b)) = Len(r) + 1 /\ Append(r, b)[Len(r) + 1] = b /\ Len(r) \in Nat
          /\ \A i \in 1 .. Len(r) : Append(r, b)[i] = r[i]
      BY <2>2 DEF r
    <3>2. \A i \in 1 .. Len(Append(r, b)) : i \in 1 .. Len(r) \/ i = Len(r) + 1 BY <3>1
    <3> QED BY <2>2, <2>4, <3>1, <3>2 DEF r
  <2> HIDE DEF Good, n
  <2>5. Good(R[k])  BY <2>2, <2>3, <2>4 DEF Filtered
  <2> QED BY <2>1, <2>5
<1>3. \A k \in 0 .. n : k \in T
  <2> HIDE DEF T, n
  <2> QED BY <1>0, <1>1, <1>2, Induction
<1>4. Good(R[n]) BY <1>0, <1>3
<1>5. R[n] \in Seq(Statement) BY <1>0 DEF IsReference
<1> HIDE DEF n
<1>6. DOMAIN R[n] = 1 .. Len(R[n]) BY <1>5
<1> QED BY <1>4, <1>6 DEF n

-----------------------------------------------------------------------------
(* The scanner and the reference.                                           *)

(* Between two rounds: buf and stmts are what the reference has before i.   *)
Scanned(R) ==
    {st \in [i : 1 .. Len(sql) + 1, buf : Text, stmts : Seq(Statement)] :
        /\ Fresh(st.i)
        /\ st.buf = Before(st.i)
        /\ st.stmts = R[st.i - 1]}

LEMMA ScanStarts ==
  ASSUME sql \in Seq(Char), NEW R, IsReference(R)
  PROVE  [i |-> 1, buf |-> <<>>, stmts |-> <<>>] \in Scanned(R)
<1>0. Len(sql) \in Nat /\ 1 \in 1 .. Len(sql) + 1 OBVIOUS
<1>1. Fresh(1)
  <2>1. ModeAt(0 + 1) = "code"
    <3>1. ModeAt(1) = "code" BY SqlModes, Zenon
    <3> QED BY <3>1
  <2>2. Fresh(0 + 1) BY <2>1, FreshAfterCode
  <2> QED BY <2>2
<1>2. Before(1) = <<>>
  <2>1. IsLast(0, 1) BY DEF IsLast
  <2>2. Before(1) = SubSeq(sql, 0 + 1, 1 - 1) BY <1>0, <2>1, BeforeIs
  <2>3. SubSeq(sql, 0 + 1, 1 - 1) = <<>>
    <3>1. 0 + 1 \in Int /\ 1 - 1 \in Int /\ 1 - 1 < 0 + 1 OBVIOUS
    <3> QED BY <3>1, SubSeqEmpty
  <2> QED BY <2>2, <2>3
<1>3. R[1 - 1] = <<>> BY DEF IsReference
<1>4. <<>> \in Text /\ <<>> \in Seq(Statement) BY DEF Text
<1> QED BY <1>0, <1>1, <1>2, <1>3, <1>4 DEF Scanned

LEMMA ScanGoesOn ==
  ASSUME sql \in Seq(Char), NEW R, IsReference(R), NEW st \in Scanned(R)
  PROVE  /\ Scan(st) \in Scanned(R)
         /\ st.i <= Len(sql) => Scan(st).i > st.i
         /\ st.i > Len(sql) => Scan(st) = st
<1> DEFINE n == Len(sql)
           i == st.i
<1>0. /\ n \in Nat /\ i \in 1 .. n + 1 /\ i \in Nat /\ Fresh(i)
      /\ st.buf = Before(i) /\ st.stmts = R[i - 1]
      /\ st.buf \in Text /\ st.stmts \in Seq(Statement)
      /\ st = [i |-> i, buf |-> st.buf, stmts |-> st.stmts]
  BY DEF Scanned
<1>1. /\ \A k \in 0 .. n + 1 : R[k] \in Seq(Statement)
      /\ \A k \in 1 .. n : k \in Delimiters => R[k] = Filtered(R[k - 1], Before(k))
      /\ \A k \in 1 .. n : k \notin Delimiters => R[k] = R[k - 1]
  BY <1>0 DEF IsReference
<1> HIDE DEF n, i
<1>2. CASE i > n
  <2>1. Scan(st) = st BY <1>2 DEF Scan, n, i
  <2> QED BY <1>0, <1>2, <2>1 DEF n, i
<1>3. CASE i <= n /\ Semicolon(i)
  <2>1. i \in 1 .. Len(sql) BY <1>0, <1>3 DEF n
  <2>2. i \in Delimiters /\ Fresh(i + 1) BY <1>0, <1>3, <2>1, SemicolonCuts
  <2>3. Scan(st) = [i |-> i + 1, buf |-> <<>>, stmts |-> Kept(st.stmts, st.buf)]
    <3>1. ~ (i > Len(sql)) BY <1>0, <2>1
    <3> QED BY <1>3, <3>1, Zenon DEF Scan, Semicolon, i
  <2>4. Kept(st.stmts, st.buf) = R[i] /\ R[i] \in Seq(Statement)
    <3>1. Kept(st.stmts, st.buf) = Filtered(st.stmts, st.buf) BY <1>0, FilteredType
    <3>2. R[i] = Filtered(R[i - 1], Before(i)) BY <1>1, <2>1, <2>2 DEF n
    <3>3. Filtered(st.stmts, st.buf) \in Seq(Statement) BY <1>0, FilteredType
    <3> QED BY <1>0, <3>1, <3>2, <3>3
  <2>5. Before(i + 1) = <<>>
    <3>1. IsLast(i, i + 1) BY <1>0, <2>2 DEF IsLast
    <3>2. i + 1 \in 1 .. Len(sql) + 1 BY <2>1
    <3>3. Before(i + 1) = SubSeq(sql, i + 1, (i + 1) - 1) BY <3>1, <3>2, BeforeIs
    <3>4. i + 1 \in Int /\ (i + 1) - 1 \in Int /\ (i + 1) - 1 < i + 1 BY <1>0
    <3> QED BY <3>3, <3>4, SubSeqEmpty
  <2>6. i + 1 \in 1 .. Len(sql) + 1 /\ (i + 1) - 1 = i /\ i + 1 > i BY <1>0, <2>1
  <2>7. <<>> \in Text BY DEF Text
  <2>8. Scan(st) \in Scanned(R) /\ Scan(st).i = i + 1
    BY <2>2, <2>3, <2>4, <2>5, <2>6, <2>7 DEF Scanned
  <2> QED BY <1>3, <2>6, <2>8 DEF i, n
<1>4. CASE i <= n /\ ~ Semicolon(i)
  <2> DEFINE e == TokenEnd(i)
  <2>1. i \in 1 .. Len(sql) BY <1>0, <1>4 DEF n
  <2>2. Passes(i, e) BY <1>0, <1>4, <2>1, TokenPasses
  <2> HIDE DEF e
  <2>3. /\ e \in i .. n /\ \A k \in i .. e : k \notin Delimiters
        /\ Fresh(e + 1) /\ e \in Nat
    BY <1>0, <2>2 DEF Passes, n
  <2>4. Scan(st) = [i |-> e + 1, buf |-> st.buf \o SubSeq(sql, i, e), stmts |-> st.stmts]
    <3>1. ~ (i > Len(sql)) BY <1>0, <2>1
    <3>2. Scan(st) = [st EXCEPT !.i = e + 1, !.buf = st.buf \o SubSeq(sql, i, e)]
      BY <1>4, <3>1, Zenon DEF Scan, Semicolon, i, e
    <3> QED BY <1>0, <3>2
  <2>5. st.buf \o SubSeq(sql, i, e) = Before(e + 1) BY <1>0, <2>1, <2>2, BeforeGrows
  <2>6. e + 1 \in 1 .. Len(sql) + 1 /\ (e + 1) - 1 = e /\ e + 1 > i BY <1>0, <2>3 DEF n
  <2>7. Before(e + 1) \in Text BY <2>6, BeforeIs
  <2>8. R[e] = R[i - 1]
    <3> DEFINE T == {k \in (i - 1) .. e : R[k] = R[i - 1]}
    <3>1. i - 1 \in Nat /\ i - 1 \in T BY <1>0, <2>3
    <3>2. ASSUME NEW k \in ((i - 1) + 1) .. e, k - 1 \in T PROVE k \in T
      <4>1. k \in i .. e /\ k \in 1 .. n BY <1>0, <2>3
      <4>2. R[k] = R[k - 1] BY <1>1, <2>3, <4>1
      <4> QED BY <1>0, <2>3, <3>2, <4>1, <4>2
    <3>3. \A k \in (i - 1) .. e : k \in T
      <4> HIDE DEF T
      <4> QED BY <2>3, <3>1, <3>2, Induction
    <3>4. e \in (i - 1) .. e BY <1>0, <2>3
    <3> QED BY <3>3, <3>4
  <2>9. Scan(st) \in Scanned(R) /\ Scan(st).i = e + 1
    BY <1>0, <2>3, <2>4, <2>5, <2>6, <2>7, <2>8 DEF Scanned
  <2>10. st.i <= Len(sql) /\ ~ (st.i > Len(sql)) /\ st.i = i BY <1>0, <1>4 DEF i, n
  <2> QED BY <2>6, <2>9, <2>10
<1> QED BY <1>0, <1>2, <1>3, <1>4

LEMMA SplitIs ==
  ASSUME sql \in Seq(Char), NEW R, IsReference(R)
  PROVE  split_statements = R[Len(sql) + 1]
<1> DEFINE n == Len(sql)
           X == Scanned(R)
           s0 == [i |-> 1, buf |-> <<>>, stmts |-> <<>>]
           F == [z \in (1 .. n) \X X |-> Scan(z[2])]
           Step(f) == [r \in 0 .. n |-> IF r = 0 THEN s0 ELSE Scan(f[r - 1])]
           ch == CHOOSE f : f = Step(f)
<1>0. n \in Nat /\ 0 <= n /\ 0 \in Nat OBVIOUS
<1>1. s0 \in X BY ScanStarts
<1>2. \A x \in X : /\ Scan(x) \in X /\ x.i \in 1 .. n + 1
                   /\ x.i <= n => Scan(x).i > x.i
                   /\ x.i > n => Scan(x) = x
  <2> TAKE x \in X
  <2>1. x.i \in 1 .. n + 1 BY DEF Scanned
  <2> QED BY <2>1, ScanGoesOn
<1> HIDE DEF X, s0
<1>3. ASSUME NEW r \in (0 + 1) .. n, NEW x \in X
      PROVE  F[<<r, x>>] \in X /\ F[<<r, x>>] = Scan(x)
  <2>1. <<r, x>> \in (1 .. n) \X X BY <1>0
  <2>2. F[<<r, x>>] = Scan(<<r, x>>[2]) BY <2>1
  <2> HIDE DEF F
  <2> QED BY <1>2, <2>2
<1>4. PICK f \in [0 .. n -> X] : /\ f[0] = s0
                                 /\ \A r \in (0 + 1) .. n : f[r] = F[<<r, f[r - 1]>>]
  <2>1. IsStep(F, 0, n, X) BY <1>3 DEF IsStep
  <2> HIDE DEF F, n
  <2>2. \E f : Unfolds(f, F, 0, n, X, s0) BY <1>0, <1>1, <2>1, RecursionExists
  <2> QED BY <2>2 DEF Unfolds
<1>5. ASSUME NEW r \in 1 .. n PROVE f[r] = Scan(f[r - 1])
  <2>1. r \in (0 + 1) .. n /\ r - 1 \in 0 .. n BY <1>0
  <2> HIDE DEF F, n
  <2>2. f[r - 1] \in X BY <1>4, <2>1
  <2> QED BY <1>3, <1>4, <2>1, <2>2
<1>6. f = Step(f)
  <2>1. \A r \in 0 .. n : f[r] = Step(f)[r] BY <1>0, <1>4, <1>5
  <2> QED BY <1>4, <2>1
<1>7. ch = Step(ch)
  <2> HIDE DEF Step
  <2> QED BY <1>6
<1>8. split_statements = Kept(ch[n].stmts, ch[n].buf) BY DEF split_statements, s0
<1>9. ch[0] = s0 /\ \A r \in 1 .. n : ch[r] = Scan(ch[r - 1])
  <2> HIDE DEF ch
  <2>1. Step(ch)[0] = s0 /\ \A r \in 1 .. n : Step(ch)[r] = Scan(ch[r - 1])
    BY <1>0
  <2> HIDE DEF Step
  <2> QED BY <1>7, <2>1
<1> HIDE DEF ch
<1> DEFINE T == {r \in 0 .. n : ch[r] \in X /\ (ch[r].i > n \/ ch[r].i > r)}
<1>10. 0 \in T
  <2>1. s0.i = 1 BY DEF s0
  <2> QED BY <1>0, <1>1, <1>9, <2>1
<1>11. ASSUME NEW r \in (0 + 1) .. n, r - 1 \in T PROVE r \in T
  <2> DEFINE x == ch[r - 1]
  <2>1. r \in 1 .. n /\ r \in 0 .. n /\ r \in Nat BY <1>0
  <2>2. ch[r] = Scan(x) BY <1>9, <2>1
  <2>3. x \in X /\ (x.i > n \/ x.i > r - 1) BY <1>11
  <2> HIDE DEF x
  <2>4. /\ Scan(x) \in X /\ x.i \in 1 .. n + 1 /\ Scan(x).i \in 1 .. n + 1
        /\ x.i <= n => Scan(x).i > x.i
        /\ x.i > n => Scan(x) = x
    BY <1>2, <2>3
  <2>5. Scan(x).i > n \/ Scan(x).i > r BY <1>0, <2>1, <2>3, <2>4
  <2> QED BY <2>1, <2>2, <2>4, <2>5
<1>12. n \in T
  <2>1. \A r \in 0 .. n : r \in T
    <3> HIDE DEF T, n
    <3> QED BY <1>0, <1>10, <1>11, Induction
  <2> QED BY <1>0, <2>1
<1> DEFINE st == ch[n]
<1>13. st \in X /\ st.i = n + 1
  <2>1. st \in X /\ st.i > n BY <1>12
  <2>2. st.i \in 1 .. n + 1 BY <1>2, <2>1
  <2> QED BY <1>0, <2>1, <2>2
<1> HIDE DEF st
<1>14. /\ st.buf = Before(n + 1) /\ st.stmts = R[(n + 1) - 1]
       /\ st.buf \in Text /\ st.stmts \in Seq(Statement)
  <2>1. st \in Scanned(R) BY <1>13 DEF X
  <2>2. st.buf = Before(st.i) /\ st.stmts = R[st.i - 1] /\ st.buf \in Text /\ st.stmts \in Seq(Statement)
    BY <2>1 DEF Scanned
  <2> QED BY <1>13, <2>2
<1>15. Kept(st.stmts, st.buf) = Filtered(R[(n + 1) - 1], Before(n + 1)) BY <1>14, FilteredType
<1>16. R[n + 1] = Filtered(R[(n + 1) - 1], Before(n + 1))
  <2>1. n + 1 \in 1 .. n + 1 BY <1>0
  <2> QED BY <2>1 DEF IsReference
<1> QED BY <1>8, <1>15, <1>16 DEF st

LEMMA TextInv == Spec => [](sql \in Seq(Char))
<1>1. Init => sql \in Seq(Char) BY DEF Init
<1>2. sql \in Seq(Char) /\ [Next]_vars => (sql \in Seq(Char))'
  BY DEF Next, Write, vars
<1> QED BY <1>1, <1>2, PTL DEF Spec

(* On every text, what split_statements() returns that has code is what     *)
(* lies with code between the semicolons that are in no comment and no      *)
(* literal, whole and in order; and it returns nothing that is only line    *)
(* comments.                                                                *)
THEOREM Cuts == Spec => []CutsAtDelimiters
<1>1. sql \in Seq(Char) => CutsAtDelimiters
  <2> HAVE sql \in Seq(Char)
  <2>1. PICK R : IsReference(R) BY ReferenceExists
  <2>2. split_statements = R[Len(sql) + 1] BY <2>1, SplitIs
  <2>3. StatementsBetween = WithCode(R[Len(sql) + 1]) BY <2>1, BetweenIs
  <2>4. \A i \in DOMAIN split_statements : MoreThanLineComments(split_statements[i])
    BY <2>1, <2>2, ReferenceKeeps
  <2> QED BY <2>2, <2>3, <2>4 DEF CutsAtDelimiters
<1> QED BY <1>1, TextInv, PTL

(* A statement is never empty, nor blank at an end.                         *)
THEOREM TypeCorrectness == Spec => []TypeOK
<1>1. sql \in Seq(Char) => TypeOK
  <2> HAVE sql \in Seq(Char)
  <2>1. PICK R : IsReference(R) BY ReferenceExists
  <2>2. split_statements = R[Len(sql) + 1] BY <2>1, SplitIs
  <2>3. split_statements \in Seq(Statement)
    <3>1. Len(sql) + 1 \in 0 .. Len(sql) + 1 OBVIOUS
    <3> QED BY <2>1, <2>2, <3>1 DEF IsReference
  <2>4. \A i \in DOMAIN split_statements : split_statements[i] \in Statement BY <2>3
  <2> QED BY <2>4 DEF TypeOK, Statement
<1> QED BY <1>1, TextInv, PTL


=============================================================================
