-------------------------- MODULE ReadModel_proofs --------------------------
(* Proofs about ReadModel, for all marts, intervals, polls and requests.    *)
EXTENDS ReadModel, TLAPS
LOCAL INSTANCE SequencesExt

(* Every answer under way for a poll of kind k is at least as new as v. *)
NotBefore(k, v) ==
    \A i \in DOMAIN polls[k] : polls[k][i].v # 0 => v <= polls[k][i].v

(* No answer is from the future, a bad row is a row of some version, and no *)
(* poll is under way while run_poller() sleeps: this is what gather() is    *)
(* for.                                                                     *)
PollsInv ==
    /\ \A k \in Kind : \A i \in DOMAIN polls[k] :
          polls[k][i].v <= mart /\ (polls[k][i].bad => polls[k][i].v # 0)
    /\ pc = "sleeping" => \A k \in Kind : polls[k] = <<>>

(* The two dicts of _poll_liquidity are of one version, and what will       *)
(* replace them is not older.                                               *)
LiquidityInv ==
    \E v \in 0 .. mart :
        /\ model.spread = Dict(v) /\ model.liquidity = Dict(v)
        /\ NotBefore("liquidity", v)

(* The same of what the other polls write. *)
ObjectsInv ==
    /\ \E v \in 0 .. mart : /\ model.ohlcv = Dict(v)
                            /\ "ohlcv" \in Kind => NotBefore("ohlcv", v)
    /\ \A k \in {"pipeline", "symbols"} :
          /\ model[k] <= mart
          /\ k \in Kind => NotBefore(k, model[k])

IInv == TypeOK /\ PollsInv /\ LiquidityInv /\ ObjectsInv /\ GaugesNotBehind

LEMMA VersionType == Version = 0 .. Len(Listed) /\ Latest \in Nat /\ Latest >= 1
  BY MartAssumption DEF Version, Latest

LEMMA DictType == \A v \in Version : Dict(v) \in [Symbol -> Version]
  BY VersionType DEF Dict, Version

LEMMA PollVersion ==
  ASSUME TypeOK
  PROVE  \A k \in Kind : \A i \in DOMAIN polls[k] :
            polls[k][i] \in Query /\ polls[k][i].v \in Nat
<1> SUFFICES ASSUME NEW k \in Kind, NEW i \in DOMAIN polls[k]
             PROVE  polls[k][i] \in Query /\ polls[k][i].v \in Nat
  OBVIOUS
<1>1. polls[k] \in Seq(Query) BY DEF TypeOK
<1>2. polls[k][i] \in Query BY <1>1
<1>3. polls[k][i].v \in Version BY <1>2 DEF Query
<1>4. Version \subseteq Nat BY VersionType
<1> QED BY <1>2, <1>3, <1>4

LEMMA RemoveOnly ==
  ASSUME NEW S, NEW s \in Seq(S), Len(s) <= 1, NEW i \in DOMAIN s
  PROVE  RemoveAt(s, i) = <<>>
<1>0. Len(s) \in Nat /\ DOMAIN s = 1 .. Len(s) OBVIOUS
<1>1. Len(s) = 1 /\ i = 1 BY <1>0
<1>2. SubSeq(s, 1, 0) = <<>> /\ SubSeq(s, 2, 1) = <<>> BY <1>1
<1> QED BY <1>1, <1>2 DEF RemoveAt

LEMMA InitIInv == Init => IInv
<1> SUFFICES ASSUME Init PROVE IInv OBVIOUS
<1>0. Asking \in Query /\ Asking.v = 0 /\ Asking.bad = FALSE
  BY VersionType DEF Asking, Query
<1>1. TypeOK
  <2>1. model \in Model BY VersionType, DictType DEF Init, Model
  <2>2. NoRequest \in [sym : Symbol, q : Query, open : BOOLEAN]
    BY <1>0, MartAssumption DEF NoRequest
  <2>3. NoEntry \in [v : Version, left : 0 .. Ttl]
    BY VersionType, ColdAssumption DEF NoEntry
  <2>4. polls \in [Kind -> Seq(Query)] /\ \A k \in Kind : Len(polls[k]) <= 1
    BY <1>0 DEF Init
  <2>5. mart \in 1 .. Latest /\ gauges \in [Symbol -> Version] /\ since \in [Kind -> Nat]
    BY VersionType DEF Init
  <2>6. pc = "starting" /\ slept = FALSE /\ failures \in 0 .. MaxFailures
    BY BoundAssumption DEF Init
  <2>7. /\ cold \in [Symbol -> [v : Version, left : 0 .. Ttl]]
        /\ requests \in [Request -> [sym : Symbol, q : Query, open : BOOLEAN]]
    BY <2>2, <2>3 DEF Init
  <2> QED BY <2>1, <2>4, <2>5, <2>6, <2>7 DEF TypeOK
<1>2. \A k \in Kind : \A i \in DOMAIN polls[k] : polls[k][i].v = 0 /\ polls[k][i].bad = FALSE
  BY <1>0 DEF Init
<1>3. PollsInv BY <1>2 DEF Init, PollsInv
<1>4. mart = 1 /\ 0 \in 0 .. mart /\ "liquidity" \in Kind
  BY KindAssumption DEF Init
<1>5. LiquidityInv BY <1>2, <1>4 DEF Init, LiquidityInv, NotBefore
<1>6. ObjectsInv BY <1>2, <1>4 DEF Init, ObjectsInv, NotBefore
<1>7. GaugesNotBehind BY DEF Init, GaugesNotBehind, Dict
<1> QED BY <1>1, <1>3, <1>5, <1>6, <1>7 DEF IInv

-----------------------------------------------------------------------------
(* What a step does not touch stays as it is. *)
LEMMA Elsewhere ==
  ASSUME IInv, UNCHANGED <<mart, model, gauges, pc, polls>>
  PROVE  PollsInv' /\ LiquidityInv' /\ ObjectsInv' /\ GaugesNotBehind'
BY DEF IInv, PollsInv, LiquidityInv, ObjectsInv, NotBefore, GaugesNotBehind, Dict

(* An answer has the rows of the moment it was given at. *)
LEMMA AnswerType ==
  ASSUME TypeOK, NEW q \in Query, Answers(q)
  PROVE  q.v \in {0, mart} /\ (q.bad => q.v # 0) /\ failures' \in 0 .. MaxFailures
BY BoundAssumption, VersionType DEF TypeOK, Answers, Query

LEMMA MartsChangeInv == ASSUME IInv, MartsChange PROVE IInv'
<1>1. mart \in Nat /\ mart' = mart + 1 /\ mart' \in 1 .. Latest
  BY VersionType DEF IInv, TypeOK, MartsChange
<1>2. UNCHANGED <<model, gauges, pollerVars, polls, coldVars, failures>>
  BY DEF MartsChange
<1>3. TypeOK' BY <1>1, <1>2 DEF IInv, TypeOK, pollerVars, coldVars
<1>4. PollsInv'
  <2>1. \A k \in Kind : \A i \in DOMAIN polls[k] : polls[k][i].v \in Nat
    BY PollVersion DEF IInv
  <2> QED BY <1>1, <1>2, <2>1 DEF IInv, PollsInv, pollerVars
<1>5. LiquidityInv'
  <2>1. PICK v \in 0 .. mart : /\ model.spread = Dict(v) /\ model.liquidity = Dict(v)
                               /\ NotBefore("liquidity", v)
    BY DEF IInv, LiquidityInv
  <2>2. v \in 0 .. mart' BY <1>1
  <2> QED BY <1>2, <2>1, <2>2 DEF LiquidityInv, NotBefore, Dict
<1>6. ObjectsInv'
  <2>1. PICK v \in 0 .. mart : /\ model.ohlcv = Dict(v)
                               /\ "ohlcv" \in Kind => NotBefore("ohlcv", v)
    BY DEF IInv, ObjectsInv
  <2>2. v \in 0 .. mart' BY <1>1
  <2>3. model.pipeline \in Nat /\ model.symbols \in Nat
    BY VersionType DEF IInv, TypeOK, Model
  <2> QED BY <1>1, <1>2, <2>1, <2>2, <2>3 DEF IInv, ObjectsInv, NotBefore, Dict
<1>7. GaugesNotBehind' BY <1>2 DEF IInv, GaugesNotBehind
<1> QED BY <1>3, <1>4, <1>5, <1>6, <1>7 DEF IInv

LEMMA PollAnsweredInv == ASSUME IInv, PollAnswered PROVE IInv'
<1>1. PICK k \in Kind : \E i \in DOMAIN polls[k], q \in Query :
          polls[k][i].at = "trino" /\ Answers(q) /\ polls' = [polls EXCEPT ![k][i] = q]
  BY DEF PollAnswered
<1>2. PICK i \in DOMAIN polls[k], q \in Query :
          Answers(q) /\ polls' = [polls EXCEPT ![k][i] = q]
  BY <1>1
<1>3. UNCHANGED <<mart, model, gauges, pollerVars, coldVars>> BY DEF PollAnswered
<1>4. q.v \in {0, mart} /\ (q.bad => q.v # 0) /\ failures' \in 0 .. MaxFailures
  BY <1>2, AnswerType DEF IInv
<1>5. mart \in Nat BY VersionType DEF IInv, TypeOK
<1>6. polls \in [Kind -> Seq(Query)] BY DEF IInv, TypeOK
<1>7. /\ polls' \in [Kind -> Seq(Query)]
      /\ \A j \in Kind : DOMAIN polls'[j] = DOMAIN polls[j] /\ Len(polls'[j]) = Len(polls[j])
  BY <1>2, <1>6
<1>8. \A j \in Kind : \A n \in DOMAIN polls[j] :
         polls'[j][n] = (IF j = k /\ n = i THEN q ELSE polls[j][n])
  BY <1>2, <1>6
<1>9. TypeOK' BY <1>3, <1>4, <1>7 DEF IInv, TypeOK, pollerVars, coldVars
<1>10. PollsInv'
  <2>1. pc # "sleeping" BY <1>2, <1>6 DEF IInv, PollsInv
  <2> QED BY <1>3, <1>4, <1>5, <1>7, <1>8, <2>1 DEF IInv, PollsInv, pollerVars
<1>11. \A j \in Kind, v \in 0 .. mart : NotBefore(j, v) => NotBefore(j, v)'
  BY <1>4, <1>5, <1>7, <1>8 DEF NotBefore
<1>12. LiquidityInv' /\ GaugesNotBehind'
  BY <1>3, <1>11, KindAssumption DEF IInv, LiquidityInv, GaugesNotBehind, Dict
<1>13. ObjectsInv'
  <2>1. model.pipeline \in 0 .. mart /\ model.symbols \in 0 .. mart
    BY <1>5, VersionType DEF IInv, TypeOK, Model, ObjectsInv
  <2> QED BY <1>3, <1>11, <2>1 DEF IInv, ObjectsInv, Dict
<1> QED BY <1>9, <1>10, <1>12, <1>13 DEF IInv

LEMMA ColdAnsweredInv == ASSUME IInv, ColdAnswered PROVE IInv'
<1>1. PICK r \in Request, q \in Query :
          Answers(q) /\ requests' = [requests EXCEPT ![r].q = q]
  BY DEF ColdAnswered
<1>2. UNCHANGED <<mart, model, gauges, pollerVars, polls, cold>> BY DEF ColdAnswered
<1>3. failures' \in 0 .. MaxFailures BY <1>1, AnswerType DEF IInv
<1>4. requests' \in [Request -> [sym : Symbol, q : Query, open : BOOLEAN]]
  BY <1>1 DEF IInv, TypeOK
<1>5. TypeOK' BY <1>2, <1>3, <1>4 DEF IInv, TypeOK, pollerVars
<1> QED BY <1>2, <1>5, Elsewhere DEF IInv, pollerVars

LEMMA TickInv == ASSUME IInv, Tick PROVE IInv'
<1>1. UNCHANGED <<mart, model, gauges, pc, polls, requests, failures>> BY DEF Tick
<1>2. NoEntry \in [v : Version, left : 0 .. Ttl]
  BY VersionType, ColdAssumption DEF NoEntry
<1>3. cold' \in [Symbol -> [v : Version, left : 0 .. Ttl]]
  <2> SUFFICES ASSUME NEW s \in Symbol
               PROVE  (IF cold[s].left <= 1 THEN NoEntry ELSE [cold[s] EXCEPT !.left = @ - 1])
                         \in [v : Version, left : 0 .. Ttl]
    BY DEF Tick
  <2>1. cold[s] \in [v : Version, left : 0 .. Ttl] BY DEF IInv, TypeOK
  <2>2. cold[s].left \in 0 .. Ttl BY <2>1
  <2>3. CASE cold[s].left <= 1 BY <2>3, <1>2
  <2>4. CASE ~ (cold[s].left <= 1)
    <3>1. cold[s].left - 1 \in 0 .. Ttl BY <2>2, <2>4, ColdAssumption
    <3> QED BY <2>1, <2>4, <3>1
  <2> QED BY <2>3, <2>4
<1>4. since' \in [Kind -> Nat]
  BY KindAssumption DEF IInv, TypeOK, Tick
<1>5. slept' \in BOOLEAN BY DEF Tick
<1>6. TypeOK' BY <1>1, <1>3, <1>4, <1>5 DEF IInv, TypeOK
<1> QED BY <1>1, <1>6, Elsewhere DEF IInv

LEMMA FirstCycleDoneInv == ASSUME IInv, FirstCycleDone PROVE IInv'
<1>1. /\ model' = [model EXCEPT !.ready = TRUE]
      /\ pc' = "sleeping" /\ slept' = FALSE /\ since' = [k \in Kind |-> 0]
      /\ UNCHANGED <<mart, gauges, polls, coldVars, failures>>
      /\ \A k \in Kind : polls[k] = <<>>
  BY DEF FirstCycleDone, AllPolled
<1>2. model \in Model BY DEF IInv, TypeOK
<1>3. model' \in Model BY <1>1, <1>2 DEF Model
<1>4. /\ model'.spread = model.spread /\ model'.liquidity = model.liquidity
      /\ model'.ohlcv = model.ohlcv
      /\ model'.pipeline = model.pipeline /\ model'.symbols = model.symbols
  BY <1>1, <1>2 DEF Model
<1>5. TypeOK' BY <1>1, <1>3 DEF IInv, TypeOK, coldVars
<1>6. PollsInv' BY <1>1 DEF PollsInv
<1>7. LiquidityInv' /\ GaugesNotBehind'
  BY <1>1, <1>4 DEF IInv, LiquidityInv, GaugesNotBehind, NotBefore, Dict
<1>8. ObjectsInv' BY <1>1, <1>4 DEF IInv, ObjectsInv, NotBefore, Dict
<1> QED BY <1>5, <1>6, <1>7, <1>8 DEF IInv

(* Polls begin when none is under way. *)
LEMMA WakeInv == ASSUME IInv, Wake PROVE IInv'
<1>1. /\ polls' = Begin(Due) /\ pc' = "polling" /\ pc = "sleeping"
      /\ since' = [k \in Kind |-> IF k \in Due THEN 0 ELSE since[k]]
      /\ UNCHANGED <<mart, model, gauges, slept, coldVars, failures>>
  BY DEF Wake
<1>2. \A k \in Kind : polls[k] = <<>> BY <1>1 DEF IInv, PollsInv
<1>3. Asking \in Query /\ Asking.v = 0 /\ Asking.bad = FALSE
  BY VersionType DEF Asking, Query
<1>a. Append(<<>>, Asking) = <<Asking>> OBVIOUS
<1>b. polls' = [k \in Kind |-> IF k \in Due THEN <<Asking>> ELSE <<>>]
  BY <1>1, <1>2, <1>a DEF Begin
<1>4. \A k \in Kind : polls'[k] \in {<<>>, <<Asking>>} BY <1>b
<1>c. <<>> \in Seq(Query) /\ <<Asking>> \in Seq(Query)
      /\ Len(<<>>) = 0 /\ Len(<<Asking>>) = 1
  BY <1>3
<1>5. polls' \in [Kind -> Seq(Query)] /\ \A k \in Kind : Len(polls'[k]) <= 1
  BY <1>b, <1>c
<1>6. \A k \in Kind : \A i \in DOMAIN polls'[k] :
         polls'[k][i].v = 0 /\ polls'[k][i].bad = FALSE
  BY <1>3, <1>4
<1>7. TypeOK' BY <1>1, <1>5 DEF IInv, TypeOK, coldVars
<1>8. mart \in Nat BY VersionType DEF IInv, TypeOK
<1>9. PollsInv' BY <1>1, <1>6, <1>8 DEF PollsInv
<1>10. LiquidityInv' /\ GaugesNotBehind'
  BY <1>1, <1>6, KindAssumption DEF IInv, LiquidityInv, GaugesNotBehind, NotBefore, Dict
<1>11. ObjectsInv' BY <1>1, <1>6 DEF IInv, ObjectsInv, NotBefore, Dict
<1> QED BY <1>7, <1>9, <1>10, <1>11 DEF IInv

LEMMA CycleDoneInv == ASSUME IInv, CycleDone PROVE IInv'
<1>1. /\ pc' = "sleeping" /\ slept' = FALSE /\ \A k \in Kind : polls[k] = <<>>
      /\ UNCHANGED <<mart, model, gauges, since, polls, coldVars, failures>>
  BY DEF CycleDone, AllPolled
<1>2. TypeOK' BY <1>1 DEF IInv, TypeOK, coldVars
<1>3. PollsInv' BY <1>1 DEF PollsInv
<1> QED
  BY <1>1, <1>2, <1>3 DEF IInv, LiquidityInv, ObjectsInv, GaugesNotBehind, NotBefore, Dict

-----------------------------------------------------------------------------
(* The polls that end. *)

LEMMA EndsPoll ==
  ASSUME IInv, NEW k \in Kind, NEW i \in DOMAIN polls[k], NEW q, q = polls[k][i],
         Ends(k, i, q)
  PROVE  /\ q \in Query /\ q.v \in 0 .. mart /\ (q.bad => q.v # 0) /\ mart \in Nat
         /\ polls' = [polls EXCEPT ![k] = <<>>]
         /\ polls' \in [Kind -> Seq(Query)] /\ \A j \in Kind : Len(polls'[j]) <= 1
         /\ UNCHANGED <<mart, pc, slept, since, cold, requests, failures>>
         /\ PollsInv'
         /\ \A j \in Kind : \A v : NotBefore(j, v) => NotBefore(j, v)'
         /\ \A v : NotBefore(k, v)'
<1>1. q \in Query /\ q.v \in Nat /\ q.v <= mart /\ (q.bad => q.v # 0)
  BY PollVersion DEF IInv, PollsInv
<1>2. mart \in Nat BY VersionType DEF IInv, TypeOK
<1>3. polls \in [Kind -> Seq(Query)] /\ polls[k] \in Seq(Query) /\ Len(polls[k]) <= 1
  BY DEF IInv, TypeOK
<1>4. polls' = [polls EXCEPT ![k] = <<>>]
  <2>1. RemoveAt(polls[k], i) = <<>> BY <1>3, RemoveOnly
  <2> QED BY <2>1 DEF Ends
<1>5. polls' \in [Kind -> Seq(Query)] /\ \A j \in Kind : Len(polls'[j]) <= 1
  <2>1. <<>> \in Seq(Query) /\ Len(<<>>) = 0 OBVIOUS
  <2> QED BY <1>3, <1>4, <2>1 DEF IInv, TypeOK
<1>6. UNCHANGED <<mart, pc, slept, since, cold, requests, failures>>
  BY DEF Ends, pollerVars, coldVars
<1>7. \A j \in Kind : polls'[j] = IF j = k THEN <<>> ELSE polls[j] BY <1>3, <1>4
<1>8. PollsInv' BY <1>6, <1>7 DEF IInv, PollsInv
<1>9. \A j \in Kind : \A v : NotBefore(j, v) => NotBefore(j, v)' BY <1>7 DEF NotBefore
<1>10. \A v : NotBefore(k, v)' BY <1>7 DEF NotBefore
<1> QED BY <1>1, <1>2, <1>4, <1>5, <1>6, <1>8, <1>9, <1>10

LEMMA SwapLiquidityInv == ASSUME IInv, SwapLiquidity PROVE IInv'
<1>0. "liquidity" \in Kind BY KindAssumption
<1> DEFINE k == "liquidity"
<1>1. PICK i \in DOMAIN polls[k] :
         LET q == polls[k][i] IN
            /\ Ends(k, i, q) /\ Good(q)
            /\ model' = [model EXCEPT !.spread = Dict(q.v), !.liquidity = Dict(q.v)]
            /\ gauges' = [s \in Symbol |-> IF s \in Listed[q.v] THEN q.v ELSE gauges[s]]
  BY DEF SwapLiquidity
<1> DEFINE q == polls[k][i]
<1>2. /\ q \in Query /\ q.v \in 0 .. mart /\ mart \in Nat
      /\ polls' \in [Kind -> Seq(Query)] /\ \A j \in Kind : Len(polls'[j]) <= 1
      /\ UNCHANGED <<mart, pc, slept, since, cold, requests, failures>>
      /\ PollsInv'
      /\ \A j \in Kind : \A v : NotBefore(j, v) => NotBefore(j, v)'
      /\ \A v : NotBefore(k, v)'
  BY <1>0, <1>1, EndsPoll
<1>3. q.v \in Version /\ q.v # 0 BY <1>1, <1>2 DEF Query, Good
<1>4. model \in Model BY DEF IInv, TypeOK
<1>5. model' \in Model BY <1>1, <1>3, <1>4, DictType DEF Model
<1>6. /\ model'.spread = Dict(q.v) /\ model'.liquidity = Dict(q.v)
      /\ model'.ohlcv = model.ohlcv
      /\ model'.pipeline = model.pipeline /\ model'.symbols = model.symbols
  BY <1>1, <1>4 DEF Model
<1>7. gauges' \in [Symbol -> Version] BY <1>1, <1>3 DEF IInv, TypeOK
<1>8. TypeOK' BY <1>2, <1>5, <1>7 DEF IInv, TypeOK
<1>9. LiquidityInv' BY <1>2, <1>6 DEF LiquidityInv, Dict
<1>10. ObjectsInv'
  BY <1>2, <1>6 DEF IInv, ObjectsInv, Dict
<1>11. GaugesNotBehind'
  <2> SUFFICES ASSUME NEW s \in Symbol PROVE gauges'[s] >= model'.liquidity[s]
    BY DEF GaugesNotBehind
  <2>1. gauges[s] \in Nat BY VersionType DEF IInv, TypeOK
  <2>2. gauges'[s] = IF s \in Listed[q.v] THEN q.v ELSE gauges[s] BY <1>1
  <2>3. model'.liquidity[s] = IF s \in Listed[q.v] THEN q.v ELSE 0
    BY <1>3, <1>6 DEF Dict
  <2> QED BY <1>2, <2>1, <2>2, <2>3
<1> QED BY <1>2, <1>8, <1>9, <1>10, <1>11 DEF IInv

LEMMA LiquidityBadRowInv == ASSUME IInv, LiquidityBadRow PROVE IInv'
<1>0. "liquidity" \in Kind BY KindAssumption
<1> DEFINE k == "liquidity"
<1>1. PICK i \in DOMAIN polls[k] :
         LET q == polls[k][i] IN
            /\ Ends(k, i, q) /\ q.bad
            /\ \E done \in SUBSET Listed[q.v] :
                  gauges' = [s \in Symbol |-> IF s \in done THEN q.v ELSE gauges[s]]
  BY DEF LiquidityBadRow
<1> DEFINE q == polls[k][i]
<1>2. /\ q \in Query /\ q.v \in 0 .. mart /\ q.v # 0 /\ mart \in Nat
      /\ polls' \in [Kind -> Seq(Query)] /\ \A j \in Kind : Len(polls'[j]) <= 1
      /\ UNCHANGED <<mart, pc, slept, since, cold, requests, failures>>
      /\ PollsInv'
      /\ \A j \in Kind : \A v : NotBefore(j, v) => NotBefore(j, v)'
  BY <1>0, <1>1, EndsPoll
<1>3. UNCHANGED model BY DEF LiquidityBadRow
<1>4. PICK done \in SUBSET Listed[q.v] :
         gauges' = [s \in Symbol |-> IF s \in done THEN q.v ELSE gauges[s]]
  BY <1>1
<1>5. gauges' \in [Symbol -> Version] BY <1>2, <1>4 DEF IInv, TypeOK, Query
<1>6. TypeOK' BY <1>2, <1>3, <1>5 DEF IInv, TypeOK
<1>7. LiquidityInv' BY <1>0, <1>2, <1>3 DEF IInv, LiquidityInv, Dict
<1>8. ObjectsInv' BY <1>2, <1>3 DEF IInv, ObjectsInv, Dict
<1>9. GaugesNotBehind'
  <2> SUFFICES ASSUME NEW s \in Symbol PROVE gauges'[s] >= model.liquidity[s]
    BY <1>3 DEF GaugesNotBehind
  <2>1. gauges[s] \in Nat /\ gauges[s] >= model.liquidity[s]
    BY VersionType DEF IInv, TypeOK, GaugesNotBehind
  <2>2. gauges'[s] = IF s \in done THEN q.v ELSE gauges[s] BY <1>4
  <2>3. PICK v \in 0 .. mart : model.liquidity = Dict(v) /\ NotBefore("liquidity", v)
    BY DEF IInv, LiquidityInv
  <2>4. model.liquidity[s] \in {0, v} BY <2>3 DEF Dict
  <2>5. q.v = 0 \/ v <= q.v BY <2>3 DEF NotBefore
  <2>6. CASE s \in done BY <1>2, <2>2, <2>4, <2>5, <2>6
  <2>7. CASE s \notin done BY <2>1, <2>2, <2>7
  <2> QED BY <2>6, <2>7
<1> QED BY <1>2, <1>6, <1>7, <1>8, <1>9 DEF IInv

LEMMA SwapObjectInv == ASSUME IInv, SwapObject PROVE IInv'
<1>1. PICK k \in Kind \ {"liquidity"} : \E i \in DOMAIN polls[k] :
         LET q == polls[k][i] IN
            /\ Ends(k, i, q) /\ Good(q)
            /\ model' = [model EXCEPT ![k] = Shaped(k, q.v)]
            /\ UNCHANGED gauges
  BY DEF SwapObject
<1>2. PICK i \in DOMAIN polls[k] :
         LET q == polls[k][i] IN
            /\ Ends(k, i, q) /\ Good(q)
            /\ model' = [model EXCEPT ![k] = Shaped(k, q.v)]
            /\ UNCHANGED gauges
  BY <1>1
<1> DEFINE q == polls[k][i]
<1>3. /\ q \in Query /\ q.v \in 0 .. mart /\ mart \in Nat
      /\ polls' \in [Kind -> Seq(Query)] /\ \A j \in Kind : Len(polls'[j]) <= 1
      /\ UNCHANGED <<mart, pc, slept, since, cold, requests, failures>>
      /\ PollsInv'
      /\ \A j \in Kind : \A v : NotBefore(j, v) => NotBefore(j, v)'
      /\ \A v : NotBefore(k, v)'
  BY <1>2, EndsPoll
<1>4. k \in {"pipeline", "ohlcv", "symbols"} /\ "liquidity" \in Kind
  BY KindAssumption
<1>5. q.v \in Version BY <1>3 DEF Query
<1>6. model \in Model BY DEF IInv, TypeOK
<1>7. model' \in Model BY <1>2, <1>4, <1>5, <1>6, DictType DEF Model, Shaped
<1>8. /\ model'.spread = model.spread /\ model'.liquidity = model.liquidity
      /\ model'.ohlcv = IF k = "ohlcv" THEN Dict(q.v) ELSE model.ohlcv
      /\ model'.pipeline = IF k = "pipeline" THEN q.v ELSE model.pipeline
      /\ model'.symbols = IF k = "symbols" THEN q.v ELSE model.symbols
  BY <1>2, <1>4, <1>6 DEF Model, Shaped
<1>9. TypeOK' BY <1>2, <1>3, <1>7 DEF IInv, TypeOK
<1>10. LiquidityInv' /\ GaugesNotBehind'
  BY <1>2, <1>3, <1>4, <1>8 DEF IInv, LiquidityInv, GaugesNotBehind, Dict
<1>11. ObjectsInv'
  <2>1. \E v \in 0 .. mart' : /\ model'.ohlcv = Dict(v)
                              /\ "ohlcv" \in Kind => NotBefore("ohlcv", v)'
    <3>1. CASE k = "ohlcv" BY <1>3, <1>8, <3>1
    <3>2. CASE k # "ohlcv"
      <4>1. PICK v \in 0 .. mart : /\ model.ohlcv = Dict(v)
                                   /\ "ohlcv" \in Kind => NotBefore("ohlcv", v)
        BY DEF IInv, ObjectsInv
      <4>2. "ohlcv" \in Kind => NotBefore("ohlcv", v)' BY <1>3, <4>1
      <4>3. model'.ohlcv = Dict(v) /\ v \in 0 .. mart' BY <1>3, <1>8, <3>2, <4>1
      <4> QED BY <4>2, <4>3
    <3> QED BY <3>1, <3>2
  <2>2. \A j \in {"pipeline", "symbols"} :
           /\ model'[j] <= mart'
           /\ j \in Kind => \A n \in DOMAIN polls'[j] :
                              polls'[j][n].v # 0 => model'[j] <= polls'[j][n].v
    <3> SUFFICES ASSUME NEW j \in {"pipeline", "symbols"}
                 PROVE  /\ model'[j] <= mart'
                        /\ j \in Kind => \A n \in DOMAIN polls'[j] :
                              polls'[j][n].v # 0 => model'[j] <= polls'[j][n].v
      OBVIOUS
    <3>1. model'[j] = IF k = j THEN q.v ELSE model[j] BY <1>8
    <3>2. model[j] <= mart /\ (j \in Kind => NotBefore(j, model[j]))
      BY DEF IInv, ObjectsInv
    <3>3. \A v : j \in Kind /\ NotBefore(j, v) =>
             \A n \in DOMAIN polls'[j] : polls'[j][n].v # 0 => v <= polls'[j][n].v
      BY <1>3 DEF NotBefore
    <3>4. \A n \in DOMAIN polls'[k] : polls'[k][n].v # 0 => q.v <= polls'[k][n].v
      BY <1>3 DEF NotBefore
    <3>5. CASE k = j BY <1>3, <3>1, <3>4, <3>5
    <3>6. CASE k # j
      <4>1. model'[j] = model[j] BY <3>1, <3>6
      <4>2. model'[j] <= mart' BY <1>3, <3>2, <4>1
      <4> QED BY <3>2, <3>3, <4>1, <4>2
    <3> QED BY <3>5, <3>6
  <2> QED BY <2>1, <2>2 DEF ObjectsInv, NotBefore, Dict
<1> QED BY <1>3, <1>9, <1>10, <1>11 DEF IInv

LEMMA PollFailsInv == ASSUME IInv, PollFails PROVE IInv'
<1>1. PICK k \in Kind : \E i \in DOMAIN polls[k] : Ends(k, i, polls[k][i])
  BY DEF PollFails
<1>2. PICK i \in DOMAIN polls[k] : Ends(k, i, polls[k][i]) BY <1>1
<1>3. UNCHANGED <<model, gauges>> BY DEF PollFails
<1>4. /\ polls' \in [Kind -> Seq(Query)] /\ \A j \in Kind : Len(polls'[j]) <= 1
      /\ UNCHANGED <<mart, pc, slept, since, cold, requests, failures>>
      /\ PollsInv'
      /\ \A j \in Kind : \A v : NotBefore(j, v) => NotBefore(j, v)'
  BY <1>2, EndsPoll
<1>5. TypeOK' BY <1>3, <1>4 DEF IInv, TypeOK
<1>6. LiquidityInv' /\ GaugesNotBehind'
  BY <1>3, <1>4, KindAssumption DEF IInv, LiquidityInv, GaugesNotBehind, Dict
<1>7. ObjectsInv'
  <2>1. \E v \in 0 .. mart' : /\ model'.ohlcv = Dict(v)
                              /\ "ohlcv" \in Kind => NotBefore("ohlcv", v)'
    <3>1. PICK v \in 0 .. mart : /\ model.ohlcv = Dict(v)
                                 /\ "ohlcv" \in Kind => NotBefore("ohlcv", v)
      BY DEF IInv, ObjectsInv
    <3>2. "ohlcv" \in Kind => NotBefore("ohlcv", v)' BY <1>4, <3>1
    <3> QED BY <1>3, <1>4, <3>1, <3>2
  <2>2. \A j \in {"pipeline", "symbols"} : \A v :
           j \in Kind /\ NotBefore(j, v) =>
             \A n \in DOMAIN polls'[j] : polls'[j][n].v # 0 => v <= polls'[j][n].v
    BY <1>4 DEF NotBefore
  <2>3. \A j \in {"pipeline", "symbols"} :
           /\ model'[j] <= mart'
           /\ j \in Kind => \A n \in DOMAIN polls'[j] :
                              polls'[j][n].v # 0 => model'[j] <= polls'[j][n].v
    BY <1>3, <1>4, <2>2 DEF IInv, ObjectsInv
  <2> QED BY <2>1, <2>3 DEF ObjectsInv, NotBefore, Dict
<1> QED BY <1>4, <1>5, <1>6, <1>7 DEF IInv

-----------------------------------------------------------------------------
(* The cold path: nothing the pollers use is touched. *)
LEMMA ColdInv == ASSUME IInv, Cold PROVE IInv'
<1>1. UNCHANGED <<mart, model, gauges, pollerVars, polls, failures>>
  BY DEF Cold, ColdHit, ColdMiss, ColdStore, ColdRefused, ColdEvicted, vars, coldVars
<1>2. /\ cold \in [Symbol -> [v : Version, left : 0 .. Ttl]]
      /\ requests \in [Request -> [sym : Symbol, q : Query, open : BOOLEAN]]
  BY DEF IInv, TypeOK
<1>3. Asking \in Query BY VersionType DEF Asking, Query
<1>4. NoRequest \in [sym : Symbol, q : Query, open : BOOLEAN]
  BY <1>3, MartAssumption DEF NoRequest
<1>5. NoEntry \in [v : Version, left : 0 .. Ttl]
  BY VersionType, ColdAssumption DEF NoEntry
<1>6. /\ cold' \in [Symbol -> [v : Version, left : 0 .. Ttl]]
      /\ requests' \in [Request -> [sym : Symbol, q : Query, open : BOOLEAN]]
  <2>1. CASE ColdHit BY <1>2, <2>1 DEF ColdHit, vars, coldVars
  <2>2. CASE ColdMiss
    <3>1. PICK r \in Request, s \in AskedCold :
             requests' = [requests EXCEPT ![r] = [sym |-> s, q |-> Asking, open |-> TRUE]]
      BY <2>2 DEF ColdMiss
    <3>2. s \in Symbol BY ColdAssumption
    <3> QED BY <1>2, <1>3, <2>2, <3>1, <3>2 DEF ColdMiss
  <2>3. CASE ColdStore
    <3>1. PICK r \in Request :
             /\ cold' = [cold EXCEPT ![requests[r].sym] = [v |-> requests[r].q.v, left |-> Ttl]]
             /\ requests' = [requests EXCEPT ![r] = NoRequest]
      BY <2>3 DEF ColdStore
    <3>2. requests[r].sym \in Symbol /\ requests[r].q.v \in Version BY <1>2 DEF Query
    <3>3. Ttl \in 0 .. Ttl BY ColdAssumption
    <3> QED BY <1>2, <1>4, <3>1, <3>2, <3>3
  <2>4. CASE ColdRefused BY <1>2, <1>4, <2>4 DEF ColdRefused
  <2>5. CASE ColdEvicted BY <1>2, <1>5, <2>5 DEF ColdEvicted
  <2> QED BY <2>1, <2>2, <2>3, <2>4, <2>5 DEF Cold
<1>7. TypeOK' BY <1>1, <1>6 DEF IInv, TypeOK, pollerVars
<1> QED BY <1>1, <1>7, Elsewhere DEF IInv, pollerVars

LEMMA NextIInv == ASSUME IInv, [Next]_vars PROVE IInv'
<1>1. CASE UNCHANGED vars
  BY <1>1, Elsewhere DEF IInv, TypeOK, vars, pollerVars, coldVars
<1>2. CASE Trino BY <1>2, PollAnsweredInv, ColdAnsweredInv DEF Trino
<1>3. CASE Poller BY <1>3, FirstCycleDoneInv, WakeInv, CycleDoneInv DEF Poller
<1>4. CASE Poll
  BY <1>4, SwapLiquidityInv, LiquidityBadRowInv, SwapObjectInv, PollFailsInv DEF Poll
<1> QED BY <1>1, <1>2, <1>3, <1>4, MartsChangeInv, TickInv, ColdInv DEF Next

-----------------------------------------------------------------------------
(* The types, and no two polls of a kind under way. *)
THEOREM TypeCorrectness == Spec => []TypeOK
<1>1. IInv => TypeOK BY DEF IInv
<1> QED BY InitIInv, NextIInv, <1>1, PTL DEF Spec

(* The dicts hold one poll's rows, all of them, and spread and liquidity    *)
(* those of the same poll.                                                  *)
THEOREM WholePolls == Spec => []WholePollServed
<1>1. IInv => WholePollServed
  BY DEF IInv, LiquidityInv, ObjectsInv, WholePollServed
<1> QED BY InitIInv, NextIInv, <1>1, PTL DEF Spec

(* The gauges never show older rows than the API serves. *)
THEOREM GaugesAhead == Spec => []GaugesNotBehind
<1>1. IInv => GaugesNotBehind BY DEF IInv
<1> QED BY InitIInv, NextIInv, <1>1, PTL DEF Spec

-----------------------------------------------------------------------------
(* No symbol of the new dict has older rows. *)
NoOlder(new, old) == \A s \in Symbol : new[s] = 0 \/ old[s] <= new[s]

(* What a step does to what the handlers read. *)
LEMMA FieldsForward ==
  ASSUME IInv, [Next]_vars
  PROVE  /\ model.ready => model'.ready
         /\ NoOlder(model'.spread, model.spread)
         /\ NoOlder(model'.liquidity, model.liquidity)
         /\ NoOlder(model'.ohlcv, model.ohlcv)
         /\ model.pipeline <= model'.pipeline
         /\ model.symbols <= model'.symbols
<1>1. model \in Model /\ Version \subseteq Nat BY VersionType DEF IInv, TypeOK
<1>2. /\ model.pipeline \in Nat /\ model.symbols \in Nat
      /\ NoOlder(model.spread, model.spread)
      /\ NoOlder(model.liquidity, model.liquidity)
      /\ NoOlder(model.ohlcv, model.ohlcv)
  <2>1. ASSUME NEW d \in [Symbol -> Version] PROVE NoOlder(d, d)
    <3>1. \A s \in Symbol : d[s] \in Nat BY <1>1
    <3> QED BY <3>1 DEF NoOlder
  <2>2. /\ model.spread \in [Symbol -> Version] /\ model.liquidity \in [Symbol -> Version]
        /\ model.ohlcv \in [Symbol -> Version]
        /\ model.pipeline \in Version /\ model.symbols \in Version
    BY <1>1 DEF Model
  <2> QED BY <1>1, <2>1, <2>2
<1>3. CASE UNCHANGED model BY <1>2, <1>3
<1>4. CASE FirstCycleDone
  <2>1. model' = [model EXCEPT !.ready = TRUE] BY <1>4 DEF FirstCycleDone
  <2>2. /\ model'.ready = TRUE /\ model'.spread = model.spread
        /\ model'.liquidity = model.liquidity /\ model'.ohlcv = model.ohlcv
        /\ model'.pipeline = model.pipeline /\ model'.symbols = model.symbols
    BY <1>1, <2>1 DEF Model
  <2> QED BY <1>2, <2>2
<1>5. CASE SwapLiquidity
  <2>1. PICK i \in DOMAIN polls.liquidity : LET q == polls.liquidity[i] IN
           /\ Ends("liquidity", i, q) /\ Good(q)
           /\ model' = [model EXCEPT !.spread = Dict(q.v), !.liquidity = Dict(q.v)]
    BY <1>5 DEF SwapLiquidity
  <2> DEFINE q == polls.liquidity[i]
  <2>2. PICK v \in 0 .. mart : /\ model.spread = Dict(v) /\ model.liquidity = Dict(v)
                               /\ NotBefore("liquidity", v)
    BY DEF IInv, LiquidityInv
  <2>3. q.v # 0 /\ v <= q.v BY <2>1, <2>2 DEF Good, NotBefore
  <2>4. q.v \in Nat BY <2>1, PollVersion, KindAssumption DEF IInv
  <2>5. NoOlder(Dict(q.v), Dict(v)) BY <2>3, <2>4 DEF Dict, NoOlder
  <2>6. /\ model'.ready = model.ready /\ model'.ohlcv = model.ohlcv
        /\ model'.pipeline = model.pipeline /\ model'.symbols = model.symbols
        /\ model'.spread = Dict(q.v) /\ model'.liquidity = Dict(q.v)
    BY <1>1, <2>1 DEF Model
  <2> QED BY <1>2, <2>2, <2>5, <2>6
<1>6. CASE SwapObject
  <2>1. PICK k \in Kind \ {"liquidity"} : \E i \in DOMAIN polls[k] :
           LET q == polls[k][i] IN
              /\ Ends(k, i, q) /\ Good(q)
              /\ model' = [model EXCEPT ![k] = Shaped(k, q.v)]
    BY <1>6 DEF SwapObject
  <2>2. PICK i \in DOMAIN polls[k] : LET q == polls[k][i] IN
           /\ Ends(k, i, q) /\ Good(q)
           /\ model' = [model EXCEPT ![k] = Shaped(k, q.v)]
    BY <2>1
  <2> DEFINE q == polls[k][i]
  <2>3. k \in {"pipeline", "ohlcv", "symbols"} BY KindAssumption
  <2>4. q.v \in Nat /\ q.v # 0 BY <2>2, PollVersion DEF IInv, Good
  <2>5. \A v : NotBefore(k, v) => v <= q.v BY <2>2, <2>4 DEF NotBefore
  <2>6. /\ model'.ready = model.ready
        /\ model'.spread = model.spread /\ model'.liquidity = model.liquidity
        /\ model'.ohlcv = IF k = "ohlcv" THEN Dict(q.v) ELSE model.ohlcv
        /\ model'.pipeline = IF k = "pipeline" THEN q.v ELSE model.pipeline
        /\ model'.symbols = IF k = "symbols" THEN q.v ELSE model.symbols
    BY <1>1, <2>2, <2>3 DEF Model, Shaped
  <2>7. /\ k = "pipeline" => model.pipeline <= q.v
        /\ k = "symbols" => model.symbols <= q.v
    BY <2>5 DEF IInv, ObjectsInv
  <2>8. k = "ohlcv" => NoOlder(Dict(q.v), model.ohlcv)
    <3> SUFFICES ASSUME k = "ohlcv" PROVE NoOlder(Dict(q.v), model.ohlcv)
      OBVIOUS
    <3>1. PICK v \in 0 .. mart : model.ohlcv = Dict(v) /\ NotBefore("ohlcv", v)
      BY DEF IInv, ObjectsInv
    <3>2. v <= q.v BY <2>5, <3>1
    <3> QED BY <2>4, <3>1, <3>2 DEF Dict, NoOlder
  <2> QED BY <1>2, <2>6, <2>7, <2>8
<1>7. CASE Cold
  <2>1. UNCHANGED model
    BY <1>7 DEF Cold, ColdHit, ColdMiss, ColdStore, ColdRefused, ColdEvicted, vars
  <2> QED BY <1>3, <2>1
<1>8. CASE LiquidityBadRow \/ PollFails
  BY <1>3, <1>8 DEF LiquidityBadRow, PollFails
<1>9. CASE Wake \/ CycleDone \/ Trino \/ Tick \/ MartsChange \/ UNCHANGED vars
  BY <1>3, <1>9 DEF Wake, CycleDone, Trino, PollAnswered, ColdAnswered, Tick, MartsChange, vars
<1> QED BY <1>4, <1>5, <1>6, <1>7, <1>8, <1>9 DEF Next, Poller, Poll

(* An endpoint that has answered goes back neither to 503 nor to older      *)
(* rows, however the polls end.                                             *)
THEOREM AnswersForward == Spec => AnswersMoveForward
<1>1. ASSUME IInv, [Next]_vars, NEW path \in Path, NEW s \in Symbol,
             Get(path, s).status = 200
      PROVE  /\ Get(path, s)'.status # 503
             /\ Get(path, s)'.status = 200 => Get(path, s).v <= Get(path, s)'.v
  <2>1. model \in Model /\ Version \subseteq Nat BY <1>1, VersionType DEF IInv, TypeOK
  <2>2. /\ model.pipeline \in Nat /\ model.symbols \in Nat BY <2>1 DEF Model
  <2>3. model'.pipeline \in Nat /\ model'.symbols \in Nat
    <3>1. IInv' BY <1>1, NextIInv
    <3> QED BY <2>1, <3>1 DEF IInv, TypeOK, Model, Version
  <2>4. CASE path \in {"spread", "liquidity", "ohlcv"}
    <3> USE <1>1, <2>4, FieldsForward DEF Get, Found, NoOlder
    <3>1. CASE path = "spread" BY <3>1
    <3>2. CASE path = "liquidity" BY <3>2
    <3>3. CASE path = "ohlcv" BY <3>3
    <3> QED BY <3>1, <3>2, <3>3
  <2>5. CASE path \in {"pipeline/lag", "symbols"}
    <3> USE <1>1, <2>2, <2>3, <2>5, FieldsForward DEF Get, WarmedUp
    <3>1. CASE path = "pipeline/lag" BY <3>1
    <3>2. CASE path = "symbols" BY <3>2
    <3> QED BY <3>1, <3>2
  <2> QED BY <2>4, <2>5 DEF Path
<1>2. IInv /\ [Next]_vars =>
         [\A path \in Path, s \in Symbol :
             Get(path, s).status = 200 =>
                 /\ Get(path, s)'.status # 503
                 /\ Get(path, s)'.status = 200 => Get(path, s).v <= Get(path, s)'.v]_vars
  BY <1>1
<1> QED BY InitIInv, NextIInv, <1>2, PTL DEF Spec, AnswersMoveForward
=============================================================================
