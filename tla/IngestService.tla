---------------------------- MODULE IngestService ----------------------------
(***************************************************************************)
(* The ingest process, ingest/main.py and the life of producer.py: one     *)
(* client task per symbol on one Kafka producer, gathered by _run(), and    *)
(* the container that is restarted when the process ends.  A client is what *)
(* IngestClient says, seen from outside: it receives, has one record under  *)
(* way, fails and tries again, or gives up.                                 *)
(*                                                                         *)
(* Not covered: records that do not serialize (IngestClient has them).      *)
(***************************************************************************)
EXTENDS Naturals

CONSTANTS
    Symbol,      \* settings.ingest_symbols
    RetryLimit   \* _MAX_RETRIES

ASSUME RetryLimitAssumption == RetryLimit \in Nat

VARIABLES
    main,      \* where _run() is
    ended,     \* how it ends: "no", "raised", "stopped", "killed"
    client,    \* by symbol: state of the task
    retried,   \* by symbol: retries of run()
    sent,      \* symbols with a record in the producer's accumulator
    flushing   \* of these, the ones flush() waits for

serviceVars == <<main, ended, client, retried, sent, flushing>>

ServiceInit ==
    /\ main = "starting" /\ ended = "no"
    /\ client = [s \in Symbol |-> "none"] /\ retried = [s \in Symbol |-> 0]
    /\ sent = {} /\ flushing = {}

-----------------------------------------------------------------------------
(* await producer.start(), then a task for each symbol. *)
ProducerStarts ==
    /\ main = "starting"
    /\ main' = "gathering"
    /\ client' = [s \in Symbol |-> "offline"]
    /\ UNCHANGED <<ended, retried, sent, flushing>>

(* It raises outside of the try: nothing is stopped. *)
ProducerStartFails ==
    /\ main = "starting"
    /\ main' = "exited" /\ ended' = "raised"
    /\ UNCHANGED <<client, retried, sent, flushing>>

-----------------------------------------------------------------------------
(* The clients.  They go on while _run() awaits producer.stop().            *)

Running == main \in {"gathering", "flushing", "closing"}

(* AIOKafkaProducer.stop() has been called. *)
Closed == main = "closing"

(* The except clause of run(): back off or give up. *)
Retry(s) ==
    /\ retried' = [retried EXCEPT ![s] = @ + 1]
    /\ client' = [client EXCEPT ![s] =
                     IF retried[s] + 1 > RetryLimit THEN "gave_up" ELSE "offline"]

Receives(s) ==
    /\ Running /\ client[s] = "offline"
    /\ client' = [client EXCEPT ![s] = "receiving"]
    /\ UNCHANGED <<main, ended, retried, sent, flushing>>

ConnectionFails(s) ==
    /\ Running /\ client[s] \in {"offline", "receiving"}
    /\ Retry(s)
    /\ UNCHANGED <<main, ended, sent, flushing>>

(* The websocket ends cleanly and _run_once() returns. *)
ConnectionEnds(s) ==
    /\ Running /\ client[s] = "receiving"
    /\ client' = [client EXCEPT ![s] = "offline"]
    /\ retried' = [retried EXCEPT ![s] = 0]
    /\ UNCHANGED <<main, ended, sent, flushing>>

(* send_and_wait() *)
Produce(s) ==
    /\ Running /\ client[s] = "receiving"
    /\ ~ Closed
    /\ client' = [client EXCEPT ![s] = "producing"]
    /\ sent' = sent \cup {s}
    /\ UNCHANGED <<main, ended, retried, flushing>>

(* ProducerClosed: to run() it is an error like any other. *)
ProduceRefused(s) ==
    /\ Running /\ client[s] = "receiving"
    /\ Closed
    /\ Retry(s)
    /\ UNCHANGED <<main, ended, sent, flushing>>

(* The brokers acknowledge; a cancelled client does not hear of it. *)
Acknowledged(s) ==
    /\ Running /\ s \in sent
    /\ sent' = sent \ {s} /\ flushing' = flushing \ {s}
    /\ client' = IF client[s] = "producing" THEN [client EXCEPT ![s] = "receiving"] ELSE client
    /\ UNCHANGED <<main, ended, retried>>

(* request_timeout_ms passes, or the brokers refuse. *)
SendFails(s) ==
    /\ Running /\ s \in sent
    /\ sent' = sent \ {s} /\ flushing' = flushing \ {s}
    /\ IF client[s] = "producing" THEN Retry(s) ELSE UNCHANGED <<client, retried>>
    /\ UNCHANGED <<main, ended>>

-----------------------------------------------------------------------------
(* _run() ends.                                                             *)

(* Mutant of GatherRaises: gather(return_exceptions=True). *)
GatherCollects ==
    /\ main = "gathering"
    /\ \A s \in Symbol : client[s] = "gave_up"
    /\ main' = "flushing" /\ ended' = "raised"
    /\ flushing' = sent
    /\ UNCHANGED <<client, retried, sent>>

(* The first exception of a client; the other tasks are not cancelled. *)
GatherRaises ==
    /\ main = "gathering"
    /\ \E s \in Symbol : client[s] = "gave_up"
    /\ main' = "flushing" /\ ended' = "raised"
    /\ flushing' = sent
    /\ UNCHANGED <<client, retried, sent>>

(* Ctrl-C: gather() cancels the clients, the CancelledError is swallowed. *)
Interrupt ==
    /\ main = "gathering"
    /\ main' = "flushing" /\ ended' = "stopped"
    /\ client' = [s \in Symbol |-> IF client[s] = "gave_up" THEN "gave_up" ELSE "cancelled"]
    /\ flushing' = sent
    /\ UNCHANGED <<retried, sent>>

(* SIGTERM, for which there is no handler, or Ctrl-C at any other await. *)
Kill ==
    /\ main # "exited"
    /\ main' = "exited" /\ ended' = "killed"
    /\ UNCHANGED <<client, retried, sent, flushing>>

(* Mutant of FlushDone: flush() waits until the accumulator is empty. *)
FlushDoneWhenEmpty ==
    /\ main = "flushing" /\ sent = {}
    /\ main' = "closing"
    /\ UNCHANGED <<ended, client, retried, sent, flushing>>

(* Mutant of FlushDone: KafkaOrderBookProducer.stop() only flushes. *)
FlushDoneExits ==
    /\ main = "flushing" /\ flushing = {}
    /\ main' = "exited"
    /\ UNCHANGED <<ended, client, retried, sent, flushing>>

(* flush() waits for what was there when it was called; then stop() closes *)
(* the accumulator ... *)
FlushDone ==
    /\ main = "flushing" /\ flushing = {}
    /\ main' = "closing"
    /\ UNCHANGED <<ended, client, retried, sent, flushing>>

(* ... and waits for the rest.  asyncio.run() cancels the tasks left. *)
StopDone ==
    /\ main = "closing" /\ sent = {}
    /\ main' = "exited"
    /\ client' = [s \in Symbol |-> IF client[s] = "gave_up" THEN "gave_up" ELSE "cancelled"]
    /\ UNCHANGED <<ended, retried, sent, flushing>>

(* Mutant of Restart: the container is not replaced. *)
RestartAsItWas ==
    /\ main = "exited"
    /\ main' = "starting"
    /\ UNCHANGED <<ended, client, retried, sent, flushing>>

(* restart: unless-stopped *)
Restart ==
    /\ main = "exited"
    /\ main' = "starting" /\ ended' = "no"
    /\ client' = [s \in Symbol |-> "none"] /\ retried' = [s \in Symbol |-> 0]
    /\ sent' = {} /\ flushing' = {}

-----------------------------------------------------------------------------
ServiceNext ==
    \/ ProducerStarts \/ ProducerStartFails
    \/ \E s \in Symbol : \/ Receives(s) \/ ConnectionFails(s) \/ ConnectionEnds(s)
                         \/ Produce(s) \/ ProduceRefused(s)
                         \/ Acknowledged(s) \/ SendFails(s)
    \/ GatherRaises \/ Interrupt \/ Kill \/ FlushDone \/ StopDone \/ Restart

ServiceSpec == ServiceInit /\ [][ServiceNext]_serviceVars

(* _run() goes on when what it awaits is there, a record is acknowledged or *)
(* fails within request_timeout_ms, and Docker restarts a process that      *)
(* ended by itself.  Nothing is assumed of the connections or of Kafka.     *)
ServiceFairSpec ==
    /\ ServiceSpec
    /\ WF_serviceVars(GatherRaises) /\ WF_serviceVars(FlushDone) /\ WF_serviceVars(StopDone)
    /\ \A s \in Symbol : WF_serviceVars(Acknowledged(s) \/ SendFails(s))
    /\ WF_serviceVars(ended = "raised" /\ Restart)

-----------------------------------------------------------------------------
(* Properties.                                                              *)

(* The types; a client waits only for a record that is there. *)
ServiceTypeOK ==
    /\ main \in {"starting", "gathering", "flushing", "closing", "exited"}
    /\ ended \in {"no", "raised", "stopped", "killed"}
    /\ client \in [Symbol -> {"none", "offline", "receiving", "producing",
                              "gave_up", "cancelled"}]
    /\ retried \in [Symbol -> 0 .. RetryLimit + 1]
    /\ flushing \subseteq sent /\ sent \subseteq Symbol
    /\ \A s \in Symbol : client[s] = "producing" => s \in sent
    /\ main \in {"starting", "gathering"} => ended = "no"

(* A process that ends by an exception or by Ctrl-C leaves no record behind *)
(* in memory, though the other clients produce on while it stops.           *)
NothingLeftBehind ==
    main = "exited" /\ ended \in {"raised", "stopped"} => sent = {}

(* No symbol is absent for good while the others go on: when one client has *)
(* given up, all start again, however many records the others produce.      *)
GivingUpRestarts ==
    \A s \in Symbol :
        client[s] = "gave_up" ~> main = "starting" \/ ended \in {"stopped", "killed"}
=============================================================================
