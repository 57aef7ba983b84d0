------------------------------ MODULE ReadModel ------------------------------
(***************************************************************************)
(* The API process: the background poller, the process-local read model    *)
(* it writes, the handlers that read it, and the cold path of /ohlcv with   *)
(* its cache.  Everything here runs on one event loop: an action is what    *)
(* runs between two awaits.  A query is answered by Trino with the marts of *)
(* the moment it runs, and its coroutine goes on some time later.           *)
(*                                                                         *)
(* Rows are abstracted to the version of the marts they were read from.     *)
(* Time is in units of the poller's sleep of 30 s.                          *)
(*                                                                         *)
(* Not covered: the thread limiter of fetch(), the HEALTH_SCORE gauge (set  *)
(* with the pipeline answer), how many bars a hot request asks for, /ready  *)
(* (which asks Trino itself).  MCReadModel runs two of the four polls.      *)
(***************************************************************************)
EXTENDS Integers, Sequences
LOCAL INSTANCE SequencesExt

CONSTANTS
    Symbol,           \* symbols the marts may list
    Listed,           \* by version of the marts: the symbols they list
    Kind,             \* the polls
    Interval,         \* sleeps between two polls of a kind; 0 for every cycle
    Ttl,              \* ttl of _cold_cache, in sleeps
    AskedCold,        \* symbols asked for on the cold path
    Request,          \* requests on the cold path at the same time
    MaxFailures       \* bound of the checks: failed queries and bad rows

ASSUME MartAssumption ==
    Symbol # {} /\ Listed \in Seq(SUBSET Symbol) /\ Listed # <<>>
ASSUME KindAssumption ==
    /\ "liquidity" \in Kind /\ Kind \subseteq {"liquidity", "pipeline", "ohlcv", "symbols"}
    /\ Interval \in [Kind -> Nat] /\ Interval["liquidity"] = 0
ASSUME ColdAssumption == AskedCold \subseteq Symbol /\ Ttl \in Nat \ {0}
ASSUME BoundAssumption == MaxFailures \in Nat

VARIABLES
    mart,       \* version of the marts
    model,      \* _model; 0 stands for a missing key and for None
    gauges,     \* MID_PRICE and its like, by symbol
    pc,         \* where run_poller() is
    slept,      \* the sleep of the loop is over
    since,      \* time since last_ohlcv and last_symbols
    polls,      \* the _poll_... coroutines under way, by kind
    cold,       \* _cold_cache
    requests,   \* requests on the cold path
    failures    \* queries that failed so far

pollerVars == <<pc, slept, since>>
coldVars   == <<cold, requests>>
vars == <<mart, model, gauges, pollerVars, polls, coldVars, failures>>

Version == 0 .. Len(Listed)
Latest == Len(Listed)

(* A query: in Trino, or answered with the rows of a version, one of them   *)
(* perhaps bad.  An answer of version 0 is an exception.                    *)
Query == [at : {"trino", "answered"}, v : Version, bad : BOOLEAN]
Asking == [at |-> "trino", v |-> 0, bad |-> FALSE]

Model == [spread : [Symbol -> Version], liquidity : [Symbol -> Version],
          ohlcv : [Symbol -> Version], pipeline : Version, symbols : Version,
          ready : BOOLEAN]

(* The dict a poll builds from the rows of version v. *)
Dict(v) == [s \in Symbol |-> IF v # 0 /\ s \in Listed[v] THEN v ELSE 0]

NoRequest == [sym |-> CHOOSE s \in Symbol : TRUE, q |-> Asking, open |-> FALSE]
NoEntry == [v |-> 0, left |-> 0]

Begin(kinds) == [k \in Kind |-> IF k \in kinds THEN Append(polls[k], Asking) ELSE polls[k]]

Init ==
    /\ mart = 1
    /\ model = [spread |-> Dict(0), liquidity |-> Dict(0), ohlcv |-> Dict(0),
                pipeline |-> 0, symbols |-> 0, ready |-> FALSE]
    /\ gauges = [s \in Symbol |-> 0]
    /\ pc = "starting" /\ slept = FALSE
    /\ since = [k \in Kind |-> 0]
    /\ polls = [k \in Kind |-> <<Asking>>]
    /\ cold = [s \in Symbol |-> NoEntry]
    /\ requests = [r \in Request |-> NoRequest]
    /\ failures = 0

-----------------------------------------------------------------------------
(* Trino and the clock.                                                     *)

MartsChange ==
    /\ mart < Latest
    /\ mart' = mart + 1
    /\ UNCHANGED <<model, gauges, pollerVars, polls, coldVars, failures>>

(* What a query may come back with, and the failures left after it. *)
Answers(q) ==
    /\ q.at = "answered"
    /\ \/ q.v = mart /\ ~ q.bad /\ failures' = failures
       \/ /\ failures < MaxFailures
          /\ failures' = failures + 1
          /\ q.v = (IF q.bad THEN mart ELSE 0)

PollAnswered ==
    /\ \E k \in Kind : \E i \in DOMAIN polls[k], q \in Query :
          /\ polls[k][i].at = "trino"
          /\ Answers(q)
          /\ q.bad => Listed[mart] # {}
          /\ polls' = [polls EXCEPT ![k][i] = q]
    /\ UNCHANGED <<mart, model, gauges, pollerVars, coldVars>>

ColdAnswered ==
    /\ \E r \in Request, q \in Query :
          /\ requests[r].open /\ requests[r].q.at = "trino"
          /\ Answers(q)
          /\ q.bad => requests[r].sym \in Listed[mart]
          /\ requests' = [requests EXCEPT ![r].q = q]
    /\ UNCHANGED <<mart, model, gauges, pollerVars, polls, cold>>

(* 30 s pass: entries of the cache come closer to their end. *)
Tick ==
    /\ slept' = (pc = "sleeping")
    /\ since' = [k \in Kind |-> IF since[k] < Interval[k] THEN since[k] + 1 ELSE since[k]]
    /\ cold' = [s \in Symbol |-> IF cold[s].left <= 1 THEN NoEntry
                                 ELSE [cold[s] EXCEPT !.left = @ - 1]]
    /\ UNCHANGED <<mart, model, gauges, pc, polls, requests, failures>>

-----------------------------------------------------------------------------
(* run_poller().                                                            *)

AllPolled == \A k \in Kind : polls[k] = <<>>

(* ready is set whatever became of the polls. *)
FirstCycleDone ==
    /\ pc = "starting"
    /\ AllPolled
    /\ model' = [model EXCEPT !.ready = TRUE]
    /\ since' = [k \in Kind |-> 0]
    /\ pc' = "sleeping" /\ slept' = FALSE
    /\ UNCHANGED <<mart, gauges, polls, coldVars, failures>>

Due == {k \in Kind : since[k] >= Interval[k]}

(* Mutant of Wake: the times are taken every cycle, due or not. *)
WakeRestartsIntervals ==
    /\ pc = "sleeping" /\ slept
    /\ polls' = Begin(Due)
    /\ since' = [k \in Kind |-> 0]
    /\ pc' = "polling"
    /\ UNCHANGED <<mart, model, gauges, slept, coldVars, failures>>

Wake ==
    /\ pc = "sleeping" /\ slept
    /\ polls' = Begin(Due)
    /\ since' = [k \in Kind |-> IF k \in Due THEN 0 ELSE since[k]]
    /\ pc' = "polling"
    /\ UNCHANGED <<mart, model, gauges, slept, coldVars, failures>>

(* Mutant of CycleDone: the tasks are created and not awaited. *)
CycleNotAwaited ==
    /\ pc = "polling"
    /\ \A k \in Kind : Len(polls[k]) < 2
    /\ pc' = "sleeping" /\ slept' = FALSE
    /\ UNCHANGED <<mart, model, gauges, since, polls, coldVars, failures>>

CycleDone ==
    /\ pc = "polling"
    /\ AllPolled
    /\ pc' = "sleeping" /\ slept' = FALSE
    /\ UNCHANGED <<mart, model, gauges, since, polls, coldVars, failures>>

-----------------------------------------------------------------------------
(* The polls, from the end of their await on.                               *)

(* Poll i of kind k has its answer q and ends in this step. *)
Ends(k, i, q) ==
    /\ polls[k][i] = q
    /\ q.at = "answered"
    /\ polls' = [polls EXCEPT ![k] = RemoveAt(@, i)]
    /\ UNCHANGED <<mart, pollerVars, coldVars, failures>>

Good(q) == q.v # 0 /\ ~ q.bad

(* Mutant of SwapLiquidity: the metrics of a row may fail without notice. *)
SwapLiquidityFirst ==
    \E i \in DOMAIN polls.liquidity : LET q == polls.liquidity[i] IN
        /\ Ends("liquidity", i, q)
        /\ Good(q)
        /\ model' = [model EXCEPT !.spread = Dict(q.v), !.liquidity = Dict(q.v)]
        /\ \E done \in SUBSET Listed[q.v] :
              gauges' = [s \in Symbol |-> IF s \in done THEN q.v ELSE gauges[s]]

SwapLiquidity ==
    \E i \in DOMAIN polls.liquidity : LET q == polls.liquidity[i] IN
        /\ Ends("liquidity", i, q)
        /\ Good(q)
        /\ model' = [model EXCEPT !.spread = Dict(q.v), !.liquidity = Dict(q.v)]
        /\ gauges' = [s \in Symbol |-> IF s \in Listed[q.v] THEN q.v ELSE gauges[s]]

(* Mutant of LiquidityBadRow: rows are written to the model one by one. *)
LiquidityRowByRow ==
    \E i \in DOMAIN polls.liquidity : LET q == polls.liquidity[i] IN
        /\ Ends("liquidity", i, q)
        /\ q.bad
        /\ \E done \in SUBSET Listed[q.v] :
              /\ done # Listed[q.v]
              /\ gauges' = [s \in Symbol |-> IF s \in done THEN q.v ELSE gauges[s]]
              /\ model' = [model EXCEPT !.liquidity =
                              [s \in Symbol |-> IF s \in done THEN q.v ELSE @[s]]]

(* The rows before the bad one have set their gauges. *)
LiquidityBadRow ==
    \E i \in DOMAIN polls.liquidity : LET q == polls.liquidity[i] IN
        /\ Ends("liquidity", i, q)
        /\ q.bad
        /\ \E done \in SUBSET Listed[q.v] :
              /\ done # Listed[q.v]
              /\ gauges' = [s \in Symbol |-> IF s \in done THEN q.v ELSE gauges[s]]
        /\ UNCHANGED model

(* What the other polls put into their field. *)
Shaped(k, v) == IF k = "ohlcv" THEN Dict(v) ELSE v

(* One assignment of a whole object: _poll_ohlcv, _poll_pipeline,           *)
(* _poll_symbols.                                                           *)
SwapObject ==
    \E k \in Kind \ {"liquidity"} : \E i \in DOMAIN polls[k] : LET q == polls[k][i] IN
        /\ Ends(k, i, q)
        /\ Good(q)
        /\ model' = [model EXCEPT ![k] = Shaped(k, q.v)]
        /\ UNCHANGED gauges

(* The exception of the query, or of a row, is logged. *)
PollFails ==
    \E k \in Kind : \E i \in DOMAIN polls[k] : LET q == polls[k][i] IN
        /\ Ends(k, i, q)
        /\ ~ Good(q)
        /\ q.bad => k # "liquidity"
        /\ UNCHANGED <<model, gauges>>

-----------------------------------------------------------------------------
(* get_ohlcv() with a time range or a high limit.                           *)

(* Mutant of ColdHit: a hit renews the entry. *)
ColdHitRenews ==
    /\ \E r \in Request, s \in AskedCold :
          /\ ~ requests[r].open
          /\ cold[s].v # 0
          /\ cold' = [cold EXCEPT ![s].left = Ttl]
    /\ UNCHANGED <<mart, model, gauges, pollerVars, polls, requests, failures>>

ColdHit ==
    /\ \E r \in Request, s \in AskedCold :
          /\ ~ requests[r].open
          /\ cold[s].v # 0
    /\ UNCHANGED vars

(* The lock is released before the query: others of the key may ask too. *)
ColdMiss ==
    /\ \E r \in Request, s \in AskedCold :
          /\ ~ requests[r].open
          /\ cold[s].v = 0
          /\ requests' = [requests EXCEPT ![r] = [sym |-> s, q |-> Asking, open |-> TRUE]]
    /\ UNCHANGED <<mart, model, gauges, pollerVars, polls, cold, failures>>

(* Whatever is stored for the key by now is replaced. *)
ColdStore ==
    /\ \E r \in Request : LET q == requests[r].q s == requests[r].sym IN
          /\ requests[r].open /\ q.at = "answered"
          /\ Good(q) /\ s \in Listed[q.v]
          /\ cold' = [cold EXCEPT ![s] = [v |-> q.v, left |-> Ttl]]
          /\ requests' = [requests EXCEPT ![r] = NoRequest]
    /\ UNCHANGED <<mart, model, gauges, pollerVars, polls, failures>>

(* 404 for no rows, 500 for an exception; neither is stored. *)
ColdRefused ==
    /\ \E r \in Request : LET q == requests[r].q s == requests[r].sym IN
          /\ requests[r].open /\ q.at = "answered"
          /\ Good(q) => s \notin Listed[q.v]
          /\ requests' = [requests EXCEPT ![r] = NoRequest]
    /\ UNCHANGED <<mart, model, gauges, pollerVars, polls, cold, failures>>

(* Entries of other keys fill the cache to its maxsize. *)
ColdEvicted ==
    /\ \E s \in Symbol :
          /\ cold[s].v # 0
          /\ cold' = [cold EXCEPT ![s] = NoEntry]
    /\ UNCHANGED <<mart, model, gauges, pollerVars, polls, requests, failures>>

-----------------------------------------------------------------------------
(* What the handlers that read the model answer at this moment.             *)

Found(v) ==
    [status |-> IF ~ model.ready THEN 503 ELSE IF v = 0 THEN 404 ELSE 200, v |-> v]

WarmedUp(v) == [status |-> IF model.ready /\ v # 0 THEN 200 ELSE 503, v |-> v]

Get(path, s) ==
    CASE path = "spread"       -> Found(model.spread[s])
      [] path = "liquidity"    -> Found(model.liquidity[s])
      [] path = "ohlcv"        -> Found(model.ohlcv[s])
      [] path = "pipeline/lag" -> WarmedUp(model.pipeline)
      [] path = "symbols"      -> WarmedUp(model.symbols)

Path == {"spread", "liquidity", "ohlcv", "pipeline/lag", "symbols"}

-----------------------------------------------------------------------------
Trino == PollAnswered \/ ColdAnswered

Poller == FirstCycleDone \/ Wake \/ CycleDone

Poll == SwapLiquidity \/ LiquidityBadRow \/ SwapObject \/ PollFails

Cold == ColdHit \/ ColdMiss \/ ColdStore \/ ColdRefused \/ ColdEvicted

Next == MartsChange \/ Tick \/ Trino \/ Poller \/ Poll \/ Cold

Spec == Init /\ [][Next]_vars

(* Trino answers what it is asked, the event loop runs what can run, and    *)
(* time goes on.                                                            *)
FairSpec ==
    /\ Spec
    /\ WF_vars(Tick) /\ WF_vars(Poller) /\ WF_vars(Poll)
    /\ WF_vars(PollAnswered) /\ WF_vars(ColdAnswered) /\ WF_vars(ColdStore \/ ColdRefused)

-----------------------------------------------------------------------------
(* Properties.                                                              *)

(* The types; two polls of one kind are never under way together. *)
TypeOK ==
    /\ mart \in 1 .. Latest /\ model \in Model /\ gauges \in [Symbol -> Version]
    /\ pc \in {"starting", "sleeping", "polling"} /\ slept \in BOOLEAN
    /\ since \in [Kind -> Nat]
    /\ polls \in [Kind -> Seq(Query)] /\ \A k \in Kind : Len(polls[k]) <= 1
    /\ cold \in [Symbol -> [v : Version, left : 0 .. Ttl]]
    /\ requests \in [Request -> [sym : Symbol, q : Query, open : BOOLEAN]]
    /\ failures \in 0 .. MaxFailures

(* What the dicts hold is one poll's rows, all of them: a reader never sees *)
(* two polls mixed, nor spread of one and liquidity of another, even after  *)
(* a poll that failed halfway.                                              *)
WholePollServed ==
    /\ \E v \in 0 .. mart : model.spread = Dict(v) /\ model.liquidity = Dict(v)
    /\ \E v \in 0 .. mart : model.ohlcv = Dict(v)

(* Grafana is not shown older prices than the API serves. *)
GaugesNotBehind == \A s \in Symbol : gauges[s] >= model.liquidity[s]

(* An endpoint that has answered never goes back to 503, nor to an older    *)
(* version of the marts, whatever polls fail or are slow.                   *)
AnswersMoveForward ==
    [][\A path \in Path, s \in Symbol :
          Get(path, s).status = 200 =>
              /\ Get(path, s)'.status # 503
              /\ Get(path, s)'.status = 200 => Get(path, s).v <= Get(path, s)'.v]_vars

(* When the marts stop changing, all that is served becomes their last      *)
(* version, whatever failed before.                                         *)
ModelFollowsMarts ==
    mart = Latest ~>
        /\ model.ready
        /\ model.spread = Dict(Latest) /\ model.liquidity = Dict(Latest)
        /\ \A k \in Kind \ {"liquidity"} : model[k] = Shaped(k, Latest)

(* An outdated answer does not stay in the cold cache, though slow requests *)
(* may store it again and others keep hitting it.                           *)
OutdatedColdGoes ==
    \A s \in AskedCold : \A v \in 1 .. Latest - 1 :
        (cold[s].v = v /\ v < mart) ~> cold[s].v # v
=============================================================================
