------------------------------ MODULE SqlRunner ------------------------------
(***************************************************************************)
(* split_statements() of flink/jobs/flink_lib/sql_runner.py, which cuts     *)
(* every .sql file of the Flink jobs into statements: the scanner with its  *)
(* searches forward and its filter of blocks without a statement, against a *)
(* reference that reads one character at a time.  A text is written         *)
(* character by character; "a" stands for every character that means        *)
(* nothing to the scanner.                                                  *)
(*                                                                         *)
(* Not covered: load_sql()'s placeholders, white space other than newline.  *)
(***************************************************************************)
EXTENDS Integers, Sequences

CONSTANT MaxLength   \* bound of the checks

ASSUME LengthAssumption == MaxLength \in Nat

Char == {"a", ";", "'", "-", "/", "*", "\n"}

VARIABLE sql

vars == <<sql>>

Init == sql = <<>>

(* Every text is one that somebody could write. *)
Write == /\ Len(sql) < MaxLength
         /\ \E c \in Char : sql' = Append(sql, c)

Next == Write

Spec == Init /\ [][Next]_vars

-----------------------------------------------------------------------------
(* The scanner.                                                             *)

(* Characters i and i + 1 are c and d. *)
At(i, c, d) == i < Len(sql) /\ sql[i] = c /\ sql[i + 1] = d

(* The least of some places. *)
First(places) == CHOOSE k \in places : \A j \in places : k <= j

(* str.find(): the place of a token's last character, from i on. *)
LineEnd(i) ==
    LET places == {k \in i .. Len(sql) : sql[k] = "\n"}
    IN  IF places = {} THEN Len(sql) ELSE First(places)

BlockEnd(i) ==
    LET places == {k \in i .. Len(sql) - 1 : At(k, "*", "/")}
    IN  IF places = {} THEN Len(sql) ELSE First(places) + 1

(* One round of the loop in a literal; '' does not end it. *)
NextInLiteral(j) ==
    IF j > Len(sql) THEN j
    ELSE IF sql[j] # "'" THEN j + 1
    ELSE IF At(j, "'", "'") THEN j + 2
    ELSE j

(* Where the literal that has character i in it ends. *)
LiteralEnd(i) ==
    LET j[round \in 0 .. Len(sql)] ==
            IF round = 0 THEN i ELSE NextInLiteral(j[round - 1])
    IN  IF j[Len(sql)] > Len(sql) THEN Len(sql) ELSE j[Len(sql)]

(* Mutant of TokenEnd: the search for the end starts one too early. *)
TokenEndEarly(i) ==
    IF At(i, "-", "-") THEN LineEnd(i)
    ELSE IF At(i, "/", "*") THEN BlockEnd(i + 1)
    ELSE IF sql[i] = "'" THEN LiteralEnd(i + 1)
    ELSE i

(* The last character of what is consumed at i: a comment, a literal or one *)
(* character. *)
TokenEnd(i) ==
    IF At(i, "-", "-") THEN LineEnd(i)
    ELSE IF At(i, "/", "*") THEN BlockEnd(i + 2)
    ELSE IF sql[i] = "'" THEN LiteralEnd(i + 1)
    ELSE i

(* str.strip() *)
Strip(block) ==
    LET solid == {k \in DOMAIN block : block[k] # "\n"}
    IN  IF solid = {} THEN <<>>
        ELSE LET first == First(solid)
                 last == CHOOSE k \in solid : \A j \in solid : j <= k
             IN  SubSeq(block, first, last)

(* Mutant of HasStatement: blank blocks are taken too. *)
AnyBlock(block) == TRUE

(* A line that is not blank and does not start with "--".  (A block of one  *)
(* block comment has such a line, and is kept.)                             *)
HasStatement(block) ==
    \E k \in DOMAIN block :
        /\ block[k] # "\n"
        /\ k = 1 \/ block[k - 1] = "\n"
        /\ ~ (block[k] = "-" /\ k < Len(block) /\ block[k + 1] = "-")

Kept(stmts, buf) ==
    IF HasStatement(Strip(buf)) THEN Append(stmts, Strip(buf)) ELSE stmts

(* One round of the loop over the text. *)
Scan(st) ==
    IF st.i > Len(sql) THEN st
    ELSE IF sql[st.i] = ";"
    THEN [i |-> st.i + 1, buf |-> <<>>, stmts |-> Kept(st.stmts, st.buf)]
    ELSE [st EXCEPT !.i = TokenEnd(st.i) + 1,
                    !.buf = @ \o SubSeq(sql, st.i, TokenEnd(st.i))]

split_statements ==
    LET st[round \in 0 .. Len(sql)] ==
            IF round = 0 THEN [i |-> 1, buf |-> <<>>, stmts |-> <<>>] ELSE Scan(st[round - 1])
    IN  Kept(st[Len(sql)].stmts, st[Len(sql)].buf)

-----------------------------------------------------------------------------
(* Properties.                                                              *)

(* What the next character is read in.  "dash", "slash" and "star" remember *)
(* a character that may be the first of two.                                *)
Read(mode, c) ==
    CASE mode = "line"    -> IF c = "\n" THEN "code" ELSE "line"
      [] mode = "literal" -> IF c = "'" THEN "code" ELSE "literal"
      [] mode = "block"   -> IF c = "*" THEN "star" ELSE "block"
      [] mode = "star"    -> IF c = "/" THEN "code" ELSE IF c = "*" THEN "star" ELSE "block"
      [] mode = "dash" /\ c = "-"  -> "line"
      [] mode = "slash" /\ c = "*" -> "block"
      [] OTHER -> IF c = "'" THEN "literal" ELSE IF c = "-" THEN "dash"
                  ELSE IF c = "/" THEN "slash" ELSE "code"

(* Modes(text)[i] is what character i of a text is read in. *)
Modes(text) ==
    LET mode[i \in 1 .. Len(text) + 1] ==
            IF i = 1 THEN "code" ELSE Read(mode[i - 1], text[i - 1])
    IN  mode

InCode(mode) == mode \in {"code", "dash", "slash"}

Delimiters == LET modes == Modes(sql) IN {i \in DOMAIN sql : sql[i] = ";" /\ InCode(modes[i])}

(* Something other than line comments and blank lines. *)
MoreThanLineComments(block) ==
    LET modes == Modes(block)
    IN  \E k \in DOMAIN block :
           /\ block[k] # "\n"
           /\ "line" \notin {modes[k], modes[k + 1]}
           /\ modes[k + 1] = "dash" /\ k < Len(block) => modes[k + 2] # "line"

(* Something other than comments of either kind and blank lines. *)
HasCode(block) ==
    LET modes == Modes(block)
    IN  \E k \in DOMAIN block :
           /\ block[k] # "\n"
           /\ {modes[k], modes[k + 1]} \cap {"line", "block", "star"} = {}
           /\ modes[k + 1] \in {"dash", "slash"} /\ k < Len(block) =>
                 modes[k + 2] \notin {"line", "block"}

Taken(stmts, stmt) == IF HasCode(stmt) THEN Append(stmts, stmt) ELSE stmts

(* The members of a sequence that have code. *)
WithCode(stmts) ==
    LET taken[i \in 0 .. Len(stmts)] ==
            IF i = 0 THEN <<>> ELSE Taken(taken[i - 1], stmts[i])
    IN  taken[Len(stmts)]

(* From the last delimiter before k, if there is one, to k. *)
Before(k) ==
    LET cuts == {i \in Delimiters : i < k} \cup {0}
        last == CHOOSE i \in cuts : \A j \in cuts : j <= i
    IN  SubSeq(sql, last + 1, k - 1)

(* What lies between delimiters and is not a comment only, in order. *)
StatementsBetween ==
    LET ends == Delimiters \cup {Len(sql) + 1}
        stmts[k \in 0 .. Len(sql) + 1] ==
            IF k = 0 THEN <<>>
            ELSE IF k \in ends THEN Taken(stmts[k - 1], Strip(Before(k)))
            ELSE stmts[k - 1]
    IN  stmts[Len(sql) + 1]

(* The texts; a statement is never empty, nor blank at an end. *)
TypeOK ==
    /\ sql \in Seq(Char)
    /\ \A i \in DOMAIN split_statements :
          LET stmt == split_statements[i]
          IN  stmt # <<>> /\ stmt[1] # "\n" /\ stmt[Len(stmt)] # "\n"

(* Semicolons in comments and literals cut nothing and the others do,       *)
(* whatever comments and literals contain, follow, or leave open: what has  *)
(* code between them is handed over whole and in order, and nothing that is *)
(* only line comments is, though the filter looks at lines and does not     *)
(* know what they are in.                                                   *)
CutsAtDelimiters ==
    /\ WithCode(split_statements) = StatementsBetween
    /\ \A i \in DOMAIN split_statements : MoreThanLineComments(split_statements[i])

(* split_statements(): "Filters out empty and comment-only blocks", of      *)
(* either kind of comment.                                                  *)
CommentBlocksFiltered ==
    \A i \in DOMAIN split_statements : HasCode(split_statements[i])
=============================================================================
