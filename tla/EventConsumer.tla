--------------------------- MODULE EventConsumer ---------------------------
(***************************************************************************)
(* How the worker consumes events: KafkaConsumerBase with                  *)
(* ProcessedEventsService, PaymentConsumer.handle, and                     *)
(* NotificationConsumer, which replaces the loop of the base class by one  *)
(* that neither retries nor parks.                                         *)
(*                                                                         *)
(* Each worker handles one message at a time; a step ends at an await. A   *)
(* message whose offset is not committed is delivered again after a crash  *)
(* and after an error that the callback throws. After a rebalance it is    *)
(* delivered to a second worker while the first still handles it.          *)
(***************************************************************************)
EXTENDS Naturals

CONSTANTS Events,
          Notices,      \* events for NotificationConsumer
          Garbage,      \* messages that do not parse
          Workers,
          Null,         \* absent value
          MaxRetries,   \* MAX_RETRIES, 3 in the code
          MaxFailures   \* bound: crashes, rebalances and other failed calls

ASSUME EventAssumption ==
    /\ Notices \cup Garbage \subseteq Events
    /\ Null \notin Events
    /\ MaxRetries \in Nat \ {0} /\ MaxFailures \in Nat

VARIABLES
    topic,      \* of each event: unsent, pending, or done once committed
    processed,  \* events that have a processed:event key
    parked,     \* messages in a dead letter topic
    charged,    \* times each event was worked on: a charge or a notice
    results,    \* events with a charge result in a topic
    worker,     \* progress of each worker
    failures    \* counted against the bound

consumerVars == <<topic, processed, parked, charged, results, worker>>
-----------------------------------------------------------------------------
Idle == [pc |-> "idle", event |-> Null, attempt |-> 1]

ConsumerTypeOK ==
    /\ topic \in [Events -> {"unsent", "pending", "done"}]
    /\ {processed, parked, results} \subseteq SUBSET Events
    /\ charged \in [Events -> Nat]
    /\ worker \in [Workers ->
           [pc : {"idle", "mark", "charge", "reply", "park", "commit"},
            event : Events \cup {Null}, attempt : 1..MaxRetries]]
    /\ failures \in Nat

ConsumerInit ==
    /\ topic = [e \in Events |-> "unsent"]
    /\ processed = {} /\ parked = {} /\ results = {}
    /\ charged = [e \in Events |-> 0]
    /\ worker = [w \in Workers |-> Idle]
    /\ failures = 0

Fail == failures < MaxFailures /\ failures' = failures + 1

At(w, pc) == worker[w].pc = pc

Goto(w, pc) == worker' = [worker EXCEPT ![w].pc = pc]
-----------------------------------------------------------------------------
\* KafkaProducerService.emit.
Send(e) ==
    /\ topic[e] = "unsent" /\ topic' = [topic EXCEPT ![e] = "pending"]
    /\ UNCHANGED <<processed, parked, charged, results, worker, failures>>

\* The group hands the message to a worker, after a rebalance to another.
\* What does not parse goes to the dead letters, or nowhere if a notice.
Deliver(w, e) ==
    /\ topic[e] = "pending" /\ At(w, "idle")
    /\ IF \E v \in Workers : worker[v].event = e THEN Fail ELSE UNCHANGED failures
    /\ \E pc \in IF e \notin Garbage THEN {"mark"}
                 ELSE IF e \in Notices THEN {"commit"} ELSE {"park"} :
           worker' = [worker EXCEPT ![w] = [pc |-> pc, event |-> e, attempt |-> 1]]
    /\ UNCHANGED <<topic, processed, parked, charged, results>>

FaultIsProcessed(e) == FALSE

\* isProcessed: SET NX finds the key of an earlier delivery. The key lasts a
\* day and a message comes again within minutes, so that no key ends here: an
\* outage of a day between two deliveries is left out.
IsProcessed(e) == e \in processed

\* A marked event is skipped. An unmarked one is marked and then handled, a
\* notice at once.
Mark(w) ==
    LET e == worker[w].event IN
    /\ At(w, "mark")
    /\ processed' = processed \cup {e}
    /\ IF e \in Notices /\ ~IsProcessed(e)
       THEN charged' = [charged EXCEPT ![e] = @ + 1] ELSE UNCHANGED charged
    /\ Goto(w, IF IsProcessed(e) \/ e \in Notices THEN "commit" ELSE "charge")
    /\ UNCHANGED <<topic, parked, results, failures>>

\* SET NX fails, having set the key or not. The base class throws and gets
\* the message again, NotificationConsumer swallows the error.
MarkFails(w) ==
    LET e == worker[w].event IN
    /\ At(w, "mark") /\ Fail
    /\ processed' \in {processed, processed \cup {e}}
    /\ worker' = [worker EXCEPT ![w] =
                      IF e \in Notices THEN [@ EXCEPT !.pc = "commit"] ELSE Idle]
    /\ UNCHANGED <<topic, parked, charged, results>>

\* PaymentConsumer.handle calls the payment provider.
Charge(w) ==
    /\ At(w, "charge")
    /\ charged' = [charged EXCEPT ![worker[w].event] = @ + 1]
    /\ Goto(w, "reply")
    /\ UNCHANGED <<topic, processed, parked, results, failures>>

\* It sends the result of the charge.
Reply(w) ==
    /\ At(w, "reply")
    /\ results' = results \cup {worker[w].event}
    /\ Goto(w, "commit")
    /\ UNCHANGED <<topic, processed, parked, charged, failures>>

FaultAttempts(w) == worker[w].attempt <= MaxRetries

FaultGiveUp(w) == Goto(w, "commit")

MoreAttempts(w) == worker[w].attempt < MaxRetries

\* All retries exhausted.
GiveUp(w) == Goto(w, "park")

\* The loop begins again after a pause.
Retry(w) == worker' = [worker EXCEPT ![w].pc = "charge", ![w].attempt = @ + 1]

\* The send is rejected, as often as the broker likes, and even if it has
\* the message.
ReplyFails(w) ==
    LET e == worker[w].event IN
    /\ At(w, "reply")
    /\ results' \in {results, results \cup {e}}
    /\ IF MoreAttempts(w) THEN Retry(w) ELSE GiveUp(w)
    /\ UNCHANGED <<topic, processed, parked, charged, failures>>

\* sendToDlq, whose error is swallowed.
Park(w) ==
    /\ At(w, "park") /\ Goto(w, "commit")
    /\ \/ parked' = parked \cup {worker[w].event} /\ UNCHANGED failures
       \/ Fail /\ UNCHANGED parked
    /\ UNCHANGED <<topic, processed, charged, results>>

\* The callback has returned and the offset is committed.
Commit(w) ==
    /\ At(w, "commit")
    /\ topic' = [topic EXCEPT ![worker[w].event] = "done"]
    /\ worker' = [worker EXCEPT ![w] = Idle]
    /\ UNCHANGED <<processed, parked, charged, results, failures>>

Crash(w) ==
    /\ ~At(w, "idle") /\ Fail
    /\ worker' = [worker EXCEPT ![w] = Idle]
    /\ UNCHANGED <<topic, processed, parked, charged, results>>

WorkerStep(w) ==
    \/ Mark(w) \/ Charge(w) \/ Reply(w) \/ ReplyFails(w) \/ Park(w) \/ Commit(w)

ConsumerNext ==
    \/ \E e \in Events : Send(e) \/ \E w \in Workers : Deliver(w, e)
    \/ \E w \in Workers : WorkerStep(w) \/ MarkFails(w) \/ Crash(w)

\* The group serves every partition and a worker goes on with its message.
ConsumerFairness ==
    /\ \A e \in Events : WF_consumerVars(\E w \in Workers : Deliver(w, e))
    /\ \A w \in Workers : WF_consumerVars(WorkerStep(w))
-----------------------------------------------------------------------------
\* Events with an id.
Parsed == Events \ Garbage

InHand(e) == \E w \in Workers : /\ worker[w].event = e
                                /\ worker[w].pc \in {"charge", "reply", "park"}

PhaseOf(e) ==
    IF topic[e] = "unsent" THEN "new"
    ELSE IF e \notin processed THEN "sent"
    ELSE IF InHand(e) THEN "taken" ELSE "over"

Promise == INSTANCE EventHandling WITH
    Events <- Parsed,
    phase <- [e \in Parsed |-> PhaseOf(e)],
    work <- [e \in Parsed |-> charged[e]]

\* Deliveries after a crash, an error or a rebalance never make a second
\* worker handle an event, and a charge is tried MAX_RETRIES times at most
\* (kafka-consumer.base.ts:48, processed-events.service.ts:11).
ImplementsEventHandling == Promise!Spec

\* No message blocks its partition, not one that does not parse and not one
\* that can never be handled, and without failures of the worker each of
\* them ends with its result or in the dead letters
\* (kafka-consumer.base.ts:54, :74, :102).
EventIsSettled ==
    \A e \in Events \ Notices :
        (topic[e] = "pending") ~>
            /\ topic[e] = "done"
            /\ e \in results \cup parked \/ failures > 0

\* The part of it that needs no fairness: unless a worker failed, no offset is
\* committed before the event has a result or lies in the dead letters
\* (kafka-consumer.base.ts:48, :74).
CommittedIsSettled ==
    \A e \in Events \ Notices :
        topic[e] = "done" => e \in results \cup parked \/ failures > 0
=============================================================================
