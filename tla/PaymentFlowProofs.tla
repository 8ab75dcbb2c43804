------------------------- MODULE PaymentFlowProofs --------------------------
(***************************************************************************)
(* Proofs about PaymentFlow and the EventConsumer in it, for any number of *)
(* events, workers, attempts, webhooks and failures.                       *)
(***************************************************************************)
EXTENDS PaymentFlow, TLAPS

WorkerStates ==
    [pc : {"idle", "mark", "charge", "reply", "park", "commit"},
     event : Events \cup {Null}, attempt : 1..MaxRetries]

\* A worker that has an event with an id in hand.
Handles(w) ==
    worker[w].pc \in {"charge", "reply", "park"} /\ worker[w].event \in Parsed

\* A worker that is not idle has a message that was sent; it marks and
\* charges only events with an id, and charges no notice.
HasMessage ==
    \A w \in Workers :
        /\ worker[w].pc # "idle" => /\ worker[w].event \in Events
                                    /\ topic[worker[w].event] # "unsent"
        /\ worker[w].pc \in {"mark", "charge", "reply"} => worker[w].event \in Parsed
        /\ Handles(w) => worker[w].event \notin Notices

\* Only events that were sent are marked, and what is in hand is marked.
MarkedFirst ==
    /\ \A e \in processed : e \in Parsed /\ topic[e] # "unsent"
    /\ \A w \in Workers : Handles(w) => worker[w].event \in processed

\* An event is in the hands of one worker.
OneHandler ==
    \A v, w \in Workers :
        Handles(v) /\ Handles(w) /\ worker[v].event = worker[w].event => v = w

\* The work on an event follows the attempts of its worker.
WorkIsCounted ==
    /\ \A e \in Parsed : /\ charged[e] <= MaxRetries
                         /\ e \notin processed => charged[e] = 0
    /\ \A w \in Workers :
           /\ worker[w].pc = "charge" => charged[worker[w].event] < worker[w].attempt
           /\ worker[w].pc = "reply" => charged[worker[w].event] <= worker[w].attempt

CInv ==
    /\ ConsumerTypeOK
    /\ HasMessage
    /\ MarkedFirst
    /\ OneHandler
    /\ WorkIsCounted
-----------------------------------------------------------------------------
LEMMA ConsumerInvInit == ConsumerInit => CInv
<1>1. SUFFICES ASSUME ConsumerInit PROVE CInv
  OBVIOUS
<1>2. Idle \in WorkerStates
  BY EventAssumption DEF Idle, WorkerStates
<1>3. ConsumerTypeOK
  BY <1>1, <1>2 DEF ConsumerInit, ConsumerTypeOK, WorkerStates
<1>4. \A w \in Workers : worker[w] = Idle
  BY <1>1 DEF ConsumerInit
<1>5. HasMessage /\ MarkedFirst /\ OneHandler
  BY <1>1, <1>4 DEF ConsumerInit, HasMessage, MarkedFirst, OneHandler, Handles, Idle
<1>6. WorkIsCounted
  BY <1>1, <1>4, EventAssumption DEF ConsumerInit, WorkIsCounted, Idle, Parsed
<1>7. QED
  BY <1>3, <1>5, <1>6 DEF CInv

\* A step of one worker keeps the others.
LEMMA WorkerMoves ==
    ASSUME ConsumerTypeOK, NEW w \in Workers, NEW r, worker' = [worker EXCEPT ![w] = r]
    PROVE  /\ worker'[w] = r
           /\ \A v \in Workers \ {w} : worker'[v] = worker[v]
           /\ r \in WorkerStates => worker' \in [Workers -> WorkerStates]
BY DEF ConsumerTypeOK, WorkerStates

\* A worker that goes on with its message has a place, a message, an attempt.
LEMMA GotoMoves ==
    ASSUME ConsumerTypeOK, NEW w \in Workers,
           NEW pc \in {"charge", "reply", "park", "commit"}, Goto(w, pc)
    PROVE  /\ worker'[w].pc = pc
           /\ worker'[w].event = worker[w].event
           /\ worker'[w].attempt = worker[w].attempt
           /\ \A v \in Workers \ {w} : worker'[v] = worker[v]
           /\ worker' \in [Workers -> WorkerStates]
<1>1. worker[w] \in WorkerStates
  BY DEF ConsumerTypeOK, WorkerStates
<1>2. [worker[w] EXCEPT !.pc = pc] \in WorkerStates
  BY <1>1 DEF WorkerStates
<1>3. worker' = [worker EXCEPT ![w] = [worker[w] EXCEPT !.pc = pc]]
  BY DEF Goto
<1>4. /\ worker'[w] = [worker[w] EXCEPT !.pc = pc]
      /\ \A v \in Workers \ {w} : worker'[v] = worker[v]
      /\ worker' \in [Workers -> WorkerStates]
  BY <1>2, <1>3, WorkerMoves
<1>5. QED
  BY <1>1, <1>4 DEF WorkerStates

\* A worker that drops its message is idle.
LEMMA IdleMoves ==
    ASSUME ConsumerTypeOK, NEW w \in Workers, worker' = [worker EXCEPT ![w] = Idle]
    PROVE  /\ worker'[w] = Idle /\ worker'[w].pc = "idle"
           /\ \A v \in Workers \ {w} : worker'[v] = worker[v]
           /\ worker' \in [Workers -> WorkerStates]
<1>1. Idle \in WorkerStates
  BY EventAssumption DEF Idle, WorkerStates
<1>2. QED
  BY <1>1, WorkerMoves DEF Idle
-----------------------------------------------------------------------------
\* Each step of the consumer keeps CInv.
LEMMA SendKeeps == ASSUME CInv, NEW e \in Events, Send(e) PROVE CInv'
<1>1. topic' \in [Events -> {"unsent", "pending", "done"}]
  BY DEF CInv, ConsumerTypeOK, Send
<1>2. \A d \in Events : topic[d] # "unsent" => topic'[d] # "unsent"
  BY DEF CInv, ConsumerTypeOK, Send
<1>3. UNCHANGED <<processed, parked, charged, results, worker, failures>>
  BY DEF Send
<1>4. ConsumerTypeOK'
  BY <1>1, <1>3 DEF CInv, ConsumerTypeOK
<1>5. HasMessage'
  BY <1>2, <1>3 DEF CInv, HasMessage, Handles
<1>6. MarkedFirst'
  BY <1>2, <1>3 DEF CInv, MarkedFirst, Handles, Parsed
<1>7. OneHandler' /\ WorkIsCounted'
  BY <1>3 DEF CInv, OneHandler, WorkIsCounted, Handles
<1>8. QED
  BY <1>4, <1>5, <1>6, <1>7 DEF CInv

LEMMA DeliverKeeps ==
    ASSUME CInv, NEW w \in Workers, NEW e \in Events, Deliver(w, e) PROVE CInv'
<1>1. PICK pc \in {"mark", "commit", "park"} :
          /\ worker' = [worker EXCEPT ![w] = [pc |-> pc, event |-> e, attempt |-> 1]]
          /\ pc = "mark" <=> e \notin Garbage
  BY DEF Deliver
<1>2. [pc |-> pc, event |-> e, attempt |-> 1] \in WorkerStates
  BY EventAssumption DEF WorkerStates
<1>3. /\ worker'[w].pc = pc /\ worker'[w].event = e
      /\ \A v \in Workers \ {w} : worker'[v] = worker[v]
      /\ worker' \in [Workers -> WorkerStates]
  BY <1>1, <1>2, WorkerMoves DEF CInv
<1>4. /\ UNCHANGED <<topic, processed, parked, charged, results>>
      /\ topic[e] = "pending" /\ failures' \in Nat
  BY DEF Deliver, Fail, CInv, ConsumerTypeOK
<1>5. ~Handles(w)'
  BY <1>1, <1>3 DEF Handles, Parsed
<1>6. ConsumerTypeOK'
  BY <1>3, <1>4 DEF CInv, ConsumerTypeOK, WorkerStates
<1>7. HasMessage'
  <2>1. \A v \in Workers \ {w} : worker'[v] = worker[v] /\ (Handles(v)' <=> Handles(v))
    BY <1>3 DEF Handles
  <2>2. pc = "mark" => e \in Parsed
    BY <1>1 DEF Parsed
  <2>3. QED
    BY <1>1, <1>3, <1>4, <1>5, <2>1, <2>2 DEF CInv, HasMessage
<1>8. MarkedFirst' /\ OneHandler'
  <2>1. \A v \in Workers \ {w} : worker'[v] = worker[v] /\ (Handles(v)' <=> Handles(v))
    BY <1>3 DEF Handles
  <2>2. QED
    BY <1>4, <1>5, <2>1 DEF CInv, MarkedFirst, OneHandler
<1>9. WorkIsCounted'
  BY <1>1, <1>3, <1>4 DEF CInv, WorkIsCounted
<1>10. QED
  BY <1>6, <1>7, <1>8, <1>9 DEF CInv

LEMMA MarkKeeps == ASSUME CInv, NEW w \in Workers, Mark(w) PROVE CInv'
<1> DEFINE e == worker[w].event
           pc == IF IsProcessed(e) \/ e \in Notices THEN "commit" ELSE "charge"
<1>1. /\ worker[w].pc = "mark" /\ e \in Parsed /\ e \in Events
      /\ topic[e] # "unsent" /\ worker[w].attempt \in 1..MaxRetries
  BY DEF Mark, At, CInv, HasMessage, ConsumerTypeOK
<1>2. /\ Goto(w, pc) /\ processed' = processed \cup {e}
      /\ UNCHANGED <<topic, parked, results, failures>>
  BY DEF Mark
<1>3. /\ worker'[w].pc = pc /\ worker'[w].event = e
      /\ worker'[w].attempt = worker[w].attempt
      /\ \A v \in Workers \ {w} : worker'[v] = worker[v]
      /\ worker' \in [Workers -> WorkerStates]
  BY <1>2, GotoMoves DEF CInv
<1>4. \A v \in Workers \ {w} : Handles(v)' <=> Handles(v)
  BY <1>3 DEF Handles
<1>5. Handles(w)' <=> pc = "charge"
  BY <1>1, <1>3 DEF Handles
<1>6. pc = "charge" <=> e \notin processed /\ e \notin Notices
  BY DEF IsProcessed
<1>7. \A d \in Events : charged'[d] \in Nat /\ (d # e => charged'[d] = charged[d])
  BY <1>1 DEF Mark, CInv, ConsumerTypeOK
<1>8. \/ charged'[e] = charged[e]
      \/ e \notin processed /\ e \in Notices /\ charged'[e] = charged[e] + 1
  BY <1>1 DEF Mark, CInv, ConsumerTypeOK, IsProcessed
<1>9. charged' \in [Events -> Nat]
  BY <1>1 DEF Mark, CInv, ConsumerTypeOK
<1>10. ConsumerTypeOK'
  <2>1. processed' \subseteq Events
    BY <1>1, <1>2 DEF CInv, ConsumerTypeOK
  <2>2. QED
    BY <2>1, <1>2, <1>3, <1>9 DEF CInv, ConsumerTypeOK, WorkerStates
<1>11. HasMessage'
  BY <1>1, <1>2, <1>3, <1>4, <1>5, <1>6 DEF CInv, HasMessage
<1>12. MarkedFirst'
  <2>1. \A d \in processed' : d \in Parsed /\ topic'[d] # "unsent"
    BY <1>1, <1>2 DEF CInv, MarkedFirst
  <2>2. \A v \in Workers : Handles(v)' => worker'[v].event \in processed'
    BY <1>2, <1>3, <1>4 DEF CInv, MarkedFirst
  <2>3. QED
    BY <2>1, <2>2 DEF MarkedFirst
<1>13. OneHandler'
  <2>1. \A v \in Workers : Handles(v) => worker[v].event \in processed
    BY DEF CInv, MarkedFirst
  <2>2. QED
    BY <2>1, <1>3, <1>4, <1>5, <1>6 DEF CInv, OneHandler
<1>14. WorkIsCounted'
  <2>1. \A d \in Parsed : charged'[d] <= MaxRetries /\ (d \notin processed' => charged'[d] = 0)
    BY <1>1, <1>2, <1>7, <1>8, EventAssumption DEF CInv, WorkIsCounted, Parsed
  <2>2. ASSUME NEW v \in Workers \ {w}
        PROVE  /\ worker'[v].pc = "charge" => charged'[worker'[v].event] < worker'[v].attempt
               /\ worker'[v].pc = "reply" => charged'[worker'[v].event] <= worker'[v].attempt
    <3>1. worker[v].pc \in {"charge", "reply"} =>
              /\ worker[v].event \in Events
              /\ worker[v].event \in processed
              /\ worker[v].event \notin Notices
      BY DEF CInv, HasMessage, MarkedFirst, Handles
    <3>2. worker[v].pc \in {"charge", "reply"} =>
              charged'[worker[v].event] = charged[worker[v].event]
      BY <3>1, <1>7, <1>8
    <3>3. QED
      BY <3>2, <1>3 DEF CInv, WorkIsCounted
  <2>3. /\ pc = "charge" => charged'[e] < worker'[w].attempt
        /\ pc # "reply"
    BY <1>1, <1>3, <1>6, <1>8 DEF CInv, WorkIsCounted
  <2>4. QED
    BY <1>3, <2>1, <2>2, <2>3 DEF WorkIsCounted
<1>15. QED
  BY <1>10, <1>11, <1>12, <1>13, <1>14 DEF CInv
\* A worker that begins nothing with its message, or is idle.
Leaves(w) ==
    /\ worker'[w].pc \in {"idle", "commit", "park"}
    /\ worker'[w].pc # "idle" => /\ worker[w].pc # "idle"
                                 /\ worker'[w].event = worker[w].event
    /\ Handles(w)' => Handles(w)
    /\ \A v \in Workers \ {w} : worker'[v] = worker[v]
    /\ worker' \in [Workers -> WorkerStates]
    /\ topic' \in [Events -> {"unsent", "pending", "done"}]
    /\ \A e \in Events : topic'[e] = "unsent" <=> topic[e] = "unsent"
    /\ \/ processed' = processed
       \/ worker[w].pc = "mark" /\ processed' = processed \cup {worker[w].event}
    /\ UNCHANGED charged
    /\ parked' \subseteq Events /\ results' \subseteq Events
    /\ failures' \in Nat

LEMMA LeavesKeeps == ASSUME CInv, NEW w \in Workers, Leaves(w) PROVE CInv'
<1>1. \A v \in Workers : Handles(v)' => Handles(v) /\ worker'[v].event = worker[v].event
  BY DEF Leaves, Handles
<1>2. /\ processed \subseteq processed'
      /\ \A e \in processed' \ processed : e \in Parsed /\ topic[e] # "unsent"
  BY DEF Leaves, CInv, HasMessage
<1>3. ConsumerTypeOK'
  <2>1. processed' \subseteq Events
    BY <1>2 DEF CInv, ConsumerTypeOK, Parsed
  <2>2. QED
    BY <2>1 DEF CInv, ConsumerTypeOK, Leaves, WorkerStates
<1>4. HasMessage'
  BY <1>1 DEF CInv, HasMessage, Leaves
<1>5. MarkedFirst'
  BY <1>1, <1>2 DEF CInv, MarkedFirst, Leaves, Parsed
<1>6. OneHandler'
  BY <1>1 DEF CInv, OneHandler
<1>7. WorkIsCounted'
  BY DEF CInv, WorkIsCounted, Leaves
<1>8. QED
  BY <1>3, <1>4, <1>5, <1>6, <1>7 DEF CInv

LEMMA MarkFailsLeaves == ASSUME CInv, NEW w \in Workers, MarkFails(w) PROVE Leaves(w)
<1> DEFINE e == worker[w].event
<1>1. /\ worker[w].pc = "mark" /\ e \in Parsed /\ e \in Events /\ topic[e] # "unsent"
      /\ worker[w] \in WorkerStates
  BY DEF MarkFails, At, CInv, HasMessage, ConsumerTypeOK, WorkerStates
<1>2. /\ processed' \in {processed, processed \cup {e}}
      /\ UNCHANGED <<topic, parked, charged, results>>
      /\ failures' \in Nat
  BY DEF MarkFails, Fail, CInv, ConsumerTypeOK
<1>3. CASE e \in Notices
  <2>1. Goto(w, "commit")
    BY <1>3 DEF MarkFails, Goto
  <2>2. QED
    BY <1>1, <1>2, <2>1, GotoMoves DEF Leaves, Handles, CInv, ConsumerTypeOK
<1>4. CASE e \notin Notices
  <2>1. worker' = [worker EXCEPT ![w] = Idle]
    BY <1>4 DEF MarkFails
  <2>2. /\ worker'[w].pc = "idle" /\ \A v \in Workers \ {w} : worker'[v] = worker[v]
        /\ worker' \in [Workers -> WorkerStates]
    BY <2>1, IdleMoves DEF CInv
  <2>3. QED
    BY <1>1, <1>2, <2>2 DEF Leaves, Handles, CInv, ConsumerTypeOK
<1>5. QED
  BY <1>3, <1>4

LEMMA ReplyLeaves == ASSUME CInv, NEW w \in Workers, Reply(w) PROVE Leaves(w)
<1>1. worker[w].pc = "reply" /\ worker[w].event \in Events
  BY DEF Reply, At, CInv, HasMessage
<1>2. QED
  BY <1>1, GotoMoves DEF Reply, Leaves, Handles, CInv, ConsumerTypeOK

LEMMA ParkLeaves == ASSUME CInv, NEW w \in Workers, Park(w) PROVE Leaves(w)
<1>1. worker[w].pc = "park" /\ worker[w].event \in Events
  BY DEF Park, At, CInv, HasMessage
<1>2. failures' \in Nat /\ parked' \subseteq Events
  BY <1>1 DEF Park, Fail, CInv, ConsumerTypeOK
<1>3. QED
  BY <1>1, <1>2, GotoMoves DEF Park, Leaves, Handles, CInv, ConsumerTypeOK

LEMMA CommitLeaves == ASSUME CInv, NEW w \in Workers, Commit(w) PROVE Leaves(w)
<1>1. worker' = [worker EXCEPT ![w] = Idle]
  BY DEF Commit
<1>2. /\ topic' \in [Events -> {"unsent", "pending", "done"}]
      /\ \A e \in Events : topic'[e] = "unsent" <=> topic[e] = "unsent"
  BY DEF Commit, At, CInv, HasMessage, ConsumerTypeOK
<1>3. /\ worker'[w].pc = "idle" /\ \A v \in Workers \ {w} : worker'[v] = worker[v]
      /\ worker' \in [Workers -> WorkerStates]
  BY <1>1, IdleMoves DEF CInv
<1>4. QED
  BY <1>2, <1>3 DEF Commit, Leaves, Handles, CInv, ConsumerTypeOK

LEMMA CrashLeaves == ASSUME CInv, NEW w \in Workers, Crash(w) PROVE Leaves(w)
<1>1. worker' = [worker EXCEPT ![w] = Idle] /\ failures' \in Nat
  BY DEF Crash, Fail, CInv, ConsumerTypeOK
<1>2. /\ worker'[w].pc = "idle" /\ \A v \in Workers \ {w} : worker'[v] = worker[v]
      /\ worker' \in [Workers -> WorkerStates]
  BY <1>1, IdleMoves DEF CInv
<1>3. QED
  BY <1>1, <1>2 DEF Crash, Leaves, Handles, CInv, ConsumerTypeOK

\* A worker that goes on handling its event.
HandlesOn(w) ==
    /\ Handles(w) /\ worker[w].pc \in {"charge", "reply"}
    /\ worker'[w].pc \in {"charge", "reply"} /\ worker'[w].event = worker[w].event
    /\ \A v \in Workers \ {w} : worker'[v] = worker[v]
    /\ worker' \in [Workers -> WorkerStates]
    /\ charged' \in [Events -> Nat]
    /\ \A e \in Events \ {worker[w].event} : charged'[e] = charged[e]
    /\ charged'[worker[w].event] <= MaxRetries
    /\ worker'[w].pc = "charge" => charged'[worker[w].event] < worker'[w].attempt
    /\ worker'[w].pc = "reply" => charged'[worker[w].event] <= worker'[w].attempt
    /\ results' \subseteq Events
    /\ UNCHANGED <<topic, processed, parked, failures>>

LEMMA HandlesOnKeeps == ASSUME CInv, NEW w \in Workers, HandlesOn(w) PROVE CInv'
<1>1. /\ \A v \in Workers : (Handles(v)' <=> Handles(v)) /\ worker'[v].event = worker[v].event
      /\ \A v \in Workers \ {w} : worker'[v] = worker[v]
  BY DEF HandlesOn, Handles
<1>2. ConsumerTypeOK'
  BY DEF CInv, ConsumerTypeOK, HandlesOn, WorkerStates
<1>3. HasMessage'
  <2>1. ASSUME NEW v \in Workers
        PROVE  /\ worker'[v].pc # "idle" => /\ worker'[v].event \in Events
                                            /\ topic'[worker'[v].event] # "unsent"
               /\ worker'[v].pc \in {"mark", "charge", "reply"} => worker'[v].event \in Parsed
               /\ Handles(v)' => worker'[v].event \notin Notices
    BY <1>1 DEF CInv, HasMessage, HandlesOn
  <2>2. QED
    BY <2>1 DEF HasMessage
<1>4. MarkedFirst' /\ OneHandler'
  BY <1>1 DEF CInv, MarkedFirst, OneHandler, HandlesOn
<1>5. WorkIsCounted'
  <2>1. worker[w].event \in processed
    BY DEF CInv, MarkedFirst, HandlesOn
  <2>2. \A e \in Parsed : charged'[e] <= MaxRetries /\ (e \notin processed' => charged'[e] = 0)
    BY <2>1 DEF CInv, WorkIsCounted, HandlesOn, Parsed
  <2>3. ASSUME NEW v \in Workers \ {w}
        PROVE  /\ worker'[v].pc = "charge" => charged'[worker'[v].event] < worker'[v].attempt
               /\ worker'[v].pc = "reply" => charged'[worker'[v].event] <= worker'[v].attempt
    <3>1. worker[v].pc \in {"charge", "reply"} => Handles(v) /\ worker[v].event \in Events
      BY DEF CInv, HasMessage, Handles
    <3>2. worker[v].pc \in {"charge", "reply"} => worker[v].event # worker[w].event
      BY <3>1 DEF CInv, OneHandler, HandlesOn
    <3>3. worker[v].pc \in {"charge", "reply"} =>
              charged'[worker[v].event] = charged[worker[v].event]
      BY <3>1, <3>2 DEF HandlesOn
    <3>4. QED
      BY <1>1, <3>3 DEF CInv, WorkIsCounted
  <2>4. QED
    BY <2>2, <2>3 DEF WorkIsCounted, HandlesOn
<1>6. QED
  BY <1>2, <1>3, <1>4, <1>5 DEF CInv

LEMMA ChargeHandlesOn == ASSUME CInv, NEW w \in Workers, Charge(w) PROVE HandlesOn(w)
<1> DEFINE e == worker[w].event
<1>1. /\ worker[w].pc = "charge" /\ e \in Parsed /\ e \in Events
      /\ charged[e] < worker[w].attempt /\ worker[w].attempt \in 1..MaxRetries
      /\ charged[e] \in Nat
  BY DEF Charge, At, CInv, HasMessage, WorkIsCounted, ConsumerTypeOK
<1>2. /\ worker'[w].pc = "reply" /\ worker'[w].event = e
      /\ worker'[w].attempt = worker[w].attempt
      /\ \A v \in Workers \ {w} : worker'[v] = worker[v]
      /\ worker' \in [Workers -> WorkerStates]
  BY GotoMoves DEF Charge, CInv
<1>3. /\ charged' \in [Events -> Nat] /\ charged'[e] = charged[e] + 1
      /\ \A d \in Events \ {e} : charged'[d] = charged[d]
  BY <1>1 DEF Charge, CInv, ConsumerTypeOK
<1>4. charged'[e] <= worker[w].attempt /\ charged'[e] <= MaxRetries
  BY <1>1, <1>3, EventAssumption
<1>5. QED
  BY <1>1, <1>2, <1>3, <1>4 DEF HandlesOn, Handles, Charge, CInv, ConsumerTypeOK

LEMMA ReplyFailsKeeps == ASSUME CInv, NEW w \in Workers, ReplyFails(w)
                         PROVE Leaves(w) \/ HandlesOn(w)
<1> DEFINE e == worker[w].event
<1>1. /\ worker[w].pc = "reply" /\ e \in Parsed /\ e \in Events
      /\ charged[e] <= worker[w].attempt /\ worker[w].attempt \in 1..MaxRetries
      /\ charged[e] \in Nat /\ charged[e] <= MaxRetries
      /\ worker[w] \in WorkerStates
  BY DEF ReplyFails, At, CInv, HasMessage, WorkIsCounted, ConsumerTypeOK, WorkerStates
<1>2. results' \subseteq Events /\ UNCHANGED <<topic, processed, parked, charged, failures>>
  BY <1>1 DEF ReplyFails, CInv, ConsumerTypeOK
<1>3. CASE MoreAttempts(w)
  <2> DEFINE r == [worker[w] EXCEPT !.pc = "charge", !.attempt = @ + 1]
  <2>1. worker' = [worker EXCEPT ![w] = r]
    BY <1>3 DEF ReplyFails, Retry
  <2>2. worker[w].attempt + 1 \in 1..MaxRetries
    BY <1>1, <1>3, EventAssumption DEF MoreAttempts
  <2>3. /\ r \in WorkerStates /\ r.pc = "charge" /\ r.event = e
        /\ r.attempt = worker[w].attempt + 1
    BY <1>1, <2>2 DEF WorkerStates
  <2>4. /\ worker'[w] = r /\ \A v \in Workers \ {w} : worker'[v] = worker[v]
        /\ worker' \in [Workers -> WorkerStates]
    BY <2>1, <2>3, WorkerMoves DEF CInv
  <2>5. charged'[e] < worker'[w].attempt
    BY <1>1, <1>2, <2>3, <2>4
  <2>6. HandlesOn(w)
    BY <1>1, <1>2, <2>3, <2>4, <2>5 DEF HandlesOn, Handles, CInv, ConsumerTypeOK
  <2>7. QED
    BY <2>6
<1>4. CASE ~MoreAttempts(w)
  <2>1. Goto(w, "park")
    BY <1>4 DEF ReplyFails, GiveUp
  <2>2. Leaves(w)
    BY <1>1, <1>2, <2>1, GotoMoves DEF Leaves, Handles, CInv, ConsumerTypeOK
  <2>3. QED
    BY <2>2
<1>5. QED
  BY <1>3, <1>4
LEMMA ConsumerInvNext ==
    CInv /\ [ConsumerNext]_<<consumerVars, failures>> => CInv'
<1>1. SUFFICES ASSUME CInv, [ConsumerNext]_<<consumerVars, failures>> PROVE CInv'
  OBVIOUS
<1>2. CASE \E e \in Events : Send(e)
  BY <1>1, <1>2, SendKeeps
<1>3. CASE \E w \in Workers, e \in Events : Deliver(w, e)
  BY <1>1, <1>3, DeliverKeeps
<1>4. ASSUME NEW w \in Workers, WorkerStep(w) \/ MarkFails(w) \/ Crash(w) PROVE CInv'
  <2>1. CASE Mark(w)
    BY <1>1, <2>1, MarkKeeps
  <2>2. CASE Charge(w)
    BY <1>1, <2>2, ChargeHandlesOn, HandlesOnKeeps
  <2>3. CASE Reply(w)
    BY <1>1, <2>3, ReplyLeaves, LeavesKeeps
  <2>4. CASE ReplyFails(w)
    BY <1>1, <2>4, ReplyFailsKeeps, LeavesKeeps, HandlesOnKeeps
  <2>5. CASE Park(w)
    BY <1>1, <2>5, ParkLeaves, LeavesKeeps
  <2>6. CASE Commit(w)
    BY <1>1, <2>6, CommitLeaves, LeavesKeeps
  <2>7. CASE MarkFails(w)
    BY <1>1, <2>7, MarkFailsLeaves, LeavesKeeps
  <2>8. CASE Crash(w)
    BY <1>1, <2>8, CrashLeaves, LeavesKeeps
  <2>9. QED
    BY <1>4, <2>1, <2>2, <2>3, <2>4, <2>5, <2>6, <2>7, <2>8 DEF WorkerStep
<1>5. CASE UNCHANGED <<consumerVars, failures>>
  BY <1>1, <1>5 DEF consumerVars, CInv, ConsumerTypeOK, HasMessage, MarkedFirst,
                    OneHandler, WorkIsCounted, Handles
<1>6. QED
  BY <1>1, <1>2, <1>3, <1>4, <1>5 DEF ConsumerNext
-----------------------------------------------------------------------------
\* Each step of the consumer is a step of the promise, or changes nothing in it.
PromiseStep == [Promise!Next]_(Promise!vars)

\* What the promise sees of the events.
LEMMA SameIsStep ==
    ASSUME \A e \in Parsed : PhaseOf(e)' = PhaseOf(e), UNCHANGED charged
    PROVE  PromiseStep
<1>1. UNCHANGED [e \in Parsed |-> PhaseOf(e)]
  OBVIOUS
<1>2. UNCHANGED [e \in Parsed |-> charged[e]]
  OBVIOUS
<1>3. QED
  BY <1>1, <1>2 DEF PromiseStep, Promise!vars

\* One event goes from a phase to another.
LEMMA MoveIsStep ==
    ASSUME NEW e \in Parsed, NEW from, NEW to,
           <<from, to>> \in {<<"new", "sent">>, <<"sent", "taken">>,
                             <<"sent", "over">>, <<"taken", "over">>},
           PhaseOf(e) = from, PhaseOf(e)' = to,
           \A d \in Parsed \ {e} : PhaseOf(d)' = PhaseOf(d),
           UNCHANGED charged
    PROVE  PromiseStep
<1> DEFINE phase == [d \in Parsed |-> PhaseOf(d)]
<1>1. phase' = [phase EXCEPT ![e] = to] /\ phase[e] = from
  OBVIOUS
<1>2. UNCHANGED [d \in Parsed |-> charged[d]]
  OBVIOUS
<1>3. Promise!Move(e, from, to)
  BY <1>1, <1>2 DEF Promise!Move
<1>4. Promise!Send(e) \/ Promise!Take(e) \/ Promise!Lose(e) \/ Promise!Finish(e)
  BY <1>3 DEF Promise!Send, Promise!Take, Promise!Lose, Promise!Finish
<1>5. QED
  BY <1>4 DEF PromiseStep, Promise!Next

\* The work on one event is counted.
LEMMA WorkIsStep ==
    ASSUME NEW e \in Parsed, charged[e] < MaxRetries,
           charged' = [charged EXCEPT ![e] = @ + 1], charged \in [Events -> Nat],
           \A d \in Parsed \ {e} : PhaseOf(d)' = PhaseOf(d),
           \/ PhaseOf(e) = "taken" /\ PhaseOf(e)' = "taken"
           \/ PhaseOf(e) = "sent" /\ PhaseOf(e)' = "over"
    PROVE  PromiseStep
<1> DEFINE phase == [d \in Parsed |-> PhaseOf(d)]
           work == [d \in Parsed |-> charged[d]]
<1>1. work' = [work EXCEPT ![e] = @ + 1] /\ work[e] < MaxRetries
  BY DEF Parsed
<1>2. CASE PhaseOf(e) = "taken" /\ PhaseOf(e)' = "taken"
  <2>1. phase[e] = "taken" /\ UNCHANGED phase
    BY <1>2
  <2>2. Promise!Work(e)
    BY <1>1, <2>1 DEF Promise!Work
  <2>3. QED
    BY <2>2 DEF PromiseStep, Promise!Next
<1>3. CASE PhaseOf(e) = "sent" /\ PhaseOf(e)' = "over"
  <2>1. phase[e] = "sent" /\ phase' = [phase EXCEPT ![e] = "over"]
    BY <1>3
  <2>2. Promise!HandleAtOnce(e)
    BY <1>1, <2>1 DEF Promise!HandleAtOnce
  <2>3. QED
    BY <2>2 DEF PromiseStep, Promise!Next
<1>4. QED
  BY <1>2, <1>3

\* The phase of an event follows from who handles it.
LEMMA InHandIsHandled ==
    \A e \in Parsed : InHand(e) <=> \E w \in Workers : Handles(w) /\ worker[w].event = e
BY DEF InHand, Handles

\* If one worker alone moves, an event that is not its keeps its phase.
LEMMA OthersKeepPhase ==
    ASSUME NEW w \in Workers, NEW e,
           worker'[w].event = e \/ ~Handles(w)', worker[w].event = e \/ ~Handles(w),
           \A v \in Workers \ {w} : worker'[v] = worker[v],
           NEW d \in Parsed \ {e},
           topic'[d] = "unsent" <=> topic[d] = "unsent",
           d \in processed' <=> d \in processed
    PROVE  PhaseOf(d)' = PhaseOf(d)
<1>1. \A v \in Workers : Handles(v)' /\ worker'[v].event = d
                          <=> Handles(v) /\ worker[v].event = d
  BY DEF Handles
<1>2. InHand(d)' <=> InHand(d)
  BY <1>1 DEF InHand, Handles
<1>3. QED
  BY <1>2 DEF PhaseOf
LEMMA SendRefines == ASSUME CInv, NEW e \in Events, Send(e) PROVE PromiseStep
<1>1. /\ \A d \in Events \ {e} : topic'[d] = topic[d]
      /\ topic[e] = "unsent" /\ topic'[e] = "pending"
      /\ UNCHANGED <<processed, charged, worker>>
  BY DEF Send, CInv, ConsumerTypeOK
<1>2. \A d \in Parsed \ {e} : PhaseOf(d)' = PhaseOf(d)
  BY <1>1 DEF PhaseOf, InHand, Parsed
<1>3. CASE e \in Parsed
  <2>1. PhaseOf(e) = "new" /\ PhaseOf(e)' = "sent"
    BY <1>1 DEF PhaseOf, CInv, MarkedFirst
  <2>2. QED
    BY <1>1, <1>2, <1>3, <2>1, MoveIsStep
<1>4. CASE e \notin Parsed
  BY <1>1, <1>2, <1>4, SameIsStep
<1>5. QED
  BY <1>3, <1>4

LEMMA DeliverRefines ==
    ASSUME CInv, NEW w \in Workers, NEW e \in Events, Deliver(w, e) PROVE PromiseStep
<1>1. /\ UNCHANGED <<topic, processed, charged>>
      /\ worker[w].pc = "idle"
      /\ \E pc \in {"mark", "commit", "park"} :
            /\ worker' = [worker EXCEPT ![w] = [pc |-> pc, event |-> e, attempt |-> 1]]
            /\ pc = "park" => e \in Garbage
  BY DEF Deliver, At
<1>2. ~Handles(w) /\ ~Handles(w)' /\ \A v \in Workers \ {w} : worker'[v] = worker[v]
  BY <1>1, EventAssumption DEF Handles, CInv, ConsumerTypeOK, Parsed
<1>3. \A d \in Parsed : InHand(d)' <=> InHand(d)
  <2>1. \A v \in Workers, d \in Parsed :
            Handles(v)' /\ worker'[v].event = d <=> Handles(v) /\ worker[v].event = d
    BY <1>2 DEF Handles
  <2>2. QED
    BY <2>1 DEF InHand, Handles
<1>4. \A d \in Parsed : PhaseOf(d)' = PhaseOf(d)
  BY <1>1, <1>3 DEF PhaseOf
<1>5. QED
  BY <1>1, <1>4, SameIsStep

LEMMA MarkRefines ==
    ASSUME CInv, NEW w \in Workers, Mark(w), NEW e, e = worker[w].event PROVE PromiseStep
<1> DEFINE pc == IF IsProcessed(e) \/ e \in Notices THEN "commit" ELSE "charge"
<1>1. /\ worker[w].pc = "mark" /\ e \in Parsed /\ e \in Events /\ topic[e] # "unsent"
  BY DEF Mark, At, CInv, HasMessage
<1>2. /\ Goto(w, pc) /\ processed' = processed \cup {e} /\ UNCHANGED topic
  BY DEF Mark
<1>3. /\ worker'[w].pc = pc /\ worker'[w].event = e
      /\ \A v \in Workers \ {w} : worker'[v] = worker[v]
  BY <1>2, GotoMoves DEF CInv
<1>4. ~Handles(w)
  BY <1>1 DEF Handles
<1>5. \A d \in Parsed \ {e} : PhaseOf(d)' = PhaseOf(d)
  BY <1>2, <1>3, <1>4, OthersKeepPhase
<1>6. \A v \in Workers : Handles(v) => worker[v].event \in processed
  BY DEF CInv, MarkedFirst
<1>7. CASE e \in processed
  <2>1. UNCHANGED <<processed, charged, topic>> /\ pc = "commit"
    BY <1>2, <1>7 DEF Mark, IsProcessed
  <2>2. \A v \in Workers : Handles(v)' /\ worker'[v].event = e
                            <=> Handles(v) /\ worker[v].event = e
    BY <1>3, <1>4, <2>1 DEF Handles
  <2>3. PhaseOf(e)' = PhaseOf(e)
    BY <1>1, <2>1, <2>2 DEF PhaseOf, InHand, Handles
  <2>4. QED
    BY <1>5, <2>1, <2>3, SameIsStep
<1>8. CASE e \notin processed /\ e \notin Notices
  <2>1. UNCHANGED charged /\ pc = "charge"
    BY <1>8 DEF Mark, IsProcessed
  <2>2. PhaseOf(e) = "sent"
    BY <1>1, <1>8 DEF PhaseOf
  <2>3. PhaseOf(e)' = "taken"
    BY <1>1, <1>2, <1>3, <2>1 DEF PhaseOf, InHand
  <2>4. QED
    BY <1>1, <1>5, <2>1, <2>2, <2>3, MoveIsStep
<1>9. CASE e \notin processed /\ e \in Notices
  <2>1. charged' = [charged EXCEPT ![e] = @ + 1] /\ pc = "commit"
    BY <1>9 DEF Mark, IsProcessed
  <2>2. charged[e] < MaxRetries /\ charged \in [Events -> Nat]
    BY <1>1, <1>9, EventAssumption DEF CInv, WorkIsCounted, ConsumerTypeOK
  <2>3. PhaseOf(e) = "sent"
    BY <1>1, <1>9 DEF PhaseOf
  <2>4. ~InHand(e)'
    BY <1>1, <1>3, <1>6, <1>9, <2>1 DEF InHand, Handles
  <2>5. PhaseOf(e)' = "over"
    BY <1>1, <1>2, <2>4 DEF PhaseOf
  <2>6. QED
    BY <1>1, <1>5, <2>1, <2>2, <2>3, <2>5, WorkIsStep
<1>10. QED
  BY <1>7, <1>8, <1>9

LEMMA LeavesRefines ==
    ASSUME CInv, NEW w \in Workers, Leaves(w), NEW e, e = worker[w].event PROVE PromiseStep
<1>1. /\ UNCHANGED charged
      /\ \A d \in Events : topic'[d] = "unsent" <=> topic[d] = "unsent"
      /\ \A v \in Workers \ {w} : worker'[v] = worker[v]
      /\ Handles(w)' => Handles(w) /\ worker'[w].event = e
  BY DEF Leaves, Handles
<1>2. processed' = processed \/ processed' = processed \cup {e}
  BY DEF Leaves
<1>3. \A d \in Parsed \ {e} : PhaseOf(d)' = PhaseOf(d)
  BY <1>1, <1>2, OthersKeepPhase DEF Parsed
<1>4. CASE Handles(w) /\ ~Handles(w)'
  <2>1. e \in Parsed /\ e \in Events /\ e \in processed /\ topic[e] # "unsent"
    BY <1>4 DEF CInv, HasMessage, MarkedFirst, Handles, Parsed
  <2>2. PhaseOf(e) = "taken"
    BY <1>4, <2>1 DEF PhaseOf, InHand, Handles
  <2>3. \A v \in Workers : ~(Handles(v)' /\ worker'[v].event = e)
    <3>1. \A v \in Workers \ {w} : Handles(v) => worker[v].event # e
      BY <1>4 DEF CInv, OneHandler
    <3>2. QED
      BY <1>1, <1>4, <3>1 DEF Handles
  <2>4. ~InHand(e)'
    BY <2>1, <2>3 DEF InHand, Handles
  <2>5. PhaseOf(e)' = "over"
    BY <1>1, <1>2, <2>1, <2>4 DEF PhaseOf
  <2>6. QED
    BY <1>1, <1>3, <2>1, <2>2, <2>5, MoveIsStep
<1>5. CASE (Handles(w)' <=> Handles(w)) /\ processed' = processed
  <2>1. \A v \in Workers : Handles(v)' /\ worker'[v].event = e
                            <=> Handles(v) /\ worker[v].event = e
    BY <1>1, <1>5 DEF Handles
  <2>2. e \in Parsed => PhaseOf(e)' = PhaseOf(e)
    BY <1>1, <1>5, <2>1 DEF PhaseOf, InHand, Handles, Parsed
  <2>3. QED
    BY <1>1, <1>3, <2>2, SameIsStep
<1>6. CASE ~Handles(w) /\ ~Handles(w)' /\ processed' # processed
  <2>1. /\ e \in Parsed /\ e \in Events /\ topic[e] # "unsent"
        /\ processed' = processed \cup {e} /\ e \notin processed
    BY <1>6 DEF Leaves, CInv, HasMessage
  <2>2. PhaseOf(e) = "sent"
    BY <2>1 DEF PhaseOf
  <2>3. \A v \in Workers : ~(Handles(v)' /\ worker'[v].event = e)
    BY <1>1, <1>6, <2>1 DEF CInv, MarkedFirst, Handles
  <2>4. ~InHand(e)'
    BY <2>1, <2>3 DEF InHand, Handles
  <2>5. PhaseOf(e)' = "over"
    BY <1>1, <2>1, <2>4 DEF PhaseOf
  <2>6. QED
    BY <1>1, <1>3, <2>1, <2>2, <2>5, MoveIsStep
<1>7. processed' # processed => ~Handles(w)
  BY DEF Leaves, Handles
<1>8. QED
  BY <1>1, <1>4, <1>5, <1>6, <1>7

LEMMA HandlesOnKeepsPhase ==
    ASSUME CInv, NEW w \in Workers, HandlesOn(w)
    PROVE  \A d \in Parsed : PhaseOf(d)' = PhaseOf(d)
<1>1. \A v \in Workers : (Handles(v)' <=> Handles(v)) /\ worker'[v].event = worker[v].event
  BY DEF HandlesOn, Handles
<1>2. \A d \in Parsed : InHand(d)' <=> InHand(d)
  BY <1>1 DEF InHand, Handles
<1>3. QED
  BY <1>2 DEF HandlesOn, PhaseOf

LEMMA ChargeRefines ==
    ASSUME CInv, NEW w \in Workers, Charge(w), NEW e, e = worker[w].event PROVE PromiseStep
<1>1. /\ worker[w].pc = "charge" /\ e \in Parsed /\ e \in Events
      /\ charged[e] < worker[w].attempt /\ worker[w].attempt \in 1..MaxRetries
      /\ charged \in [Events -> Nat] /\ topic[e] # "unsent"
  BY DEF Charge, At, CInv, HasMessage, WorkIsCounted, ConsumerTypeOK
<1>2. charged[e] < MaxRetries
  BY <1>1, EventAssumption
<1>3. \A d \in Parsed : PhaseOf(d)' = PhaseOf(d)
  BY ChargeHandlesOn, HandlesOnKeepsPhase
<1>4. PhaseOf(e) = "taken"
  BY <1>1 DEF PhaseOf, InHand, CInv, MarkedFirst, Handles
<1>5. charged' = [charged EXCEPT ![e] = @ + 1]
  BY DEF Charge
<1>6. QED
  BY <1>1, <1>2, <1>3, <1>4, <1>5, WorkIsStep

LEMMA ReplyFailsRefines == ASSUME CInv, NEW w \in Workers, ReplyFails(w) PROVE PromiseStep
<1>1. CASE Leaves(w)
  BY <1>1, LeavesRefines
<1>2. CASE HandlesOn(w)
  <2>1. UNCHANGED charged
    BY DEF ReplyFails
  <2>2. QED
    BY <1>2, <2>1, HandlesOnKeepsPhase, SameIsStep
<1>3. QED
  BY <1>1, <1>2, ReplyFailsKeeps

LEMMA ConsumerRefines == CInv /\ [ConsumerNext]_<<consumerVars, failures>> => PromiseStep
<1>1. SUFFICES ASSUME CInv, [ConsumerNext]_<<consumerVars, failures>> PROVE PromiseStep
  OBVIOUS
<1>2. CASE \E e \in Events : Send(e)
  BY <1>1, <1>2, SendRefines
<1>3. CASE \E w \in Workers, e \in Events : Deliver(w, e)
  BY <1>1, <1>3, DeliverRefines
<1>4. ASSUME NEW w \in Workers, WorkerStep(w) \/ MarkFails(w) \/ Crash(w) PROVE PromiseStep
  <2>1. CASE Mark(w)
    BY <1>1, <2>1, MarkRefines
  <2>2. CASE Charge(w)
    BY <1>1, <2>2, ChargeRefines
  <2>3. CASE Reply(w) \/ Park(w) \/ Commit(w) \/ MarkFails(w) \/ Crash(w)
    BY <1>1, <2>3, ReplyLeaves, ParkLeaves, CommitLeaves, MarkFailsLeaves, CrashLeaves,
       LeavesRefines
  <2>4. CASE ReplyFails(w)
    BY <1>1, <2>4, ReplyFailsRefines
  <2>5. QED
    BY <1>4, <2>1, <2>2, <2>3, <2>4 DEF WorkerStep
<1>5. CASE UNCHANGED <<consumerVars, failures>>
  <2>1. \A e \in Parsed : PhaseOf(e)' = PhaseOf(e)
    BY <1>5 DEF consumerVars, PhaseOf, InHand
  <2>2. QED
    BY <1>5, <2>1, SameIsStep DEF consumerVars
<1>6. QED
  BY <1>1, <1>2, <1>3, <1>4, <1>5 DEF ConsumerNext
-----------------------------------------------------------------------------
\* A webhook in hand tells an outcome, and what it announces is saved.
WebhooksTell ==
    \A h \in inHand : /\ h.row.status \in {"COMPLETED", "FAILED"}
                      /\ h.pc = "emit" => <<h.payment, h.row.status>> \in saved

IInv == CInv /\ TypeOK /\ WebhooksTell /\ AnnouncedIsSaved

LEMMA InvInit == Init => IInv
<1>1. SUFFICES ASSUME Init PROVE IInv
  OBVIOUS
<1>2. CInv
  BY <1>1, ConsumerInvInit DEF Init
<1>3. TypeOK
  BY <1>1, <1>2 DEF Init, CInv, TypeOK, Row
<1>4. WebhooksTell /\ AnnouncedIsSaved
  BY <1>1 DEF Init, WebhooksTell, AnnouncedIsSaved
<1>5. QED
  BY <1>2, <1>3, <1>4 DEF IInv

\* The consumer leaves payments and webhooks alone, and failures only grow.
LEMMA ConsumerKeeps == ASSUME IInv, ConsumerNext, UNCHANGED paymentVars PROVE IInv'
<1>1. CInv'
  BY ConsumerInvNext DEF IInv
<1>2. failures' >= failures
  BY DEF ConsumerNext, Send, Deliver, WorkerStep, Mark, Charge, Reply, ReplyFails, Park,
         Commit, MarkFails, Crash, Fail, IInv, CInv, ConsumerTypeOK
<1>3. TypeOK'
  BY <1>1 DEF IInv, CInv, TypeOK, paymentVars
<1>4. WebhooksTell'
  BY DEF IInv, WebhooksTell, paymentVars
<1>5. failures \in Nat /\ failures' \in Nat /\ (failures > 0 => failures' > 0)
  BY <1>1, <1>2 DEF IInv, CInv, ConsumerTypeOK
<1>6. AnnouncedIsSaved'
  BY <1>5 DEF IInv, AnnouncedIsSaved, paymentVars
<1>7. QED
  BY <1>1, <1>3, <1>4, <1>6 DEF IInv

\* The webhooks leave the consumer alone.
LEMMA HooksKeepConsumer ==
    ASSUME CInv, UNCHANGED consumerVars, failures' \in Nat PROVE CInv'
BY DEF consumerVars, CInv, ConsumerTypeOK, HasMessage, MarkedFirst, OneHandler,
       WorkIsCounted, Handles

LEMMA ReceiveKeeps ==
    ASSUME IInv, NEW p \in Payments, NEW status \in {"success", "failure"},
           NEW reference \in {"none", "psp"}, ReceiveWebhook(p, status, reference)
    PROVE  IInv'
<1> DEFINE h == [pc |-> "save", payment |-> p, row |-> Updated(p, status, reference)]
<1>1. CInv'
  BY HooksKeepConsumer DEF ReceiveWebhook, IInv, CInv, ConsumerTypeOK
<1>2. /\ Updated(p, status, reference) \in Row
      /\ Updated(p, status, reference).status \in {"COMPLETED", "FAILED"}
  BY DEF Updated, IInv, TypeOK, Row
<1>3. /\ inHand' \subseteq inHand \cup {h} /\ inHand \subseteq inHand'
      /\ UNCHANGED <<failures, payment, saved, announced>>
  BY DEF ReceiveWebhook
<1>4. /\ h \in Webhooks /\ hooks' \in Nat
      /\ h.pc = "save" /\ h.row.status \in {"COMPLETED", "FAILED"}
  BY <1>2 DEF Webhooks, ReceiveWebhook, IInv, TypeOK
<1>5. TypeOK'
  BY <1>1, <1>3, <1>4 DEF IInv, CInv, TypeOK
<1>6. WebhooksTell'
  BY <1>3, <1>4 DEF IInv, WebhooksTell
<1>7. AnnouncedIsSaved'
  BY <1>3 DEF IInv, AnnouncedIsSaved
<1>8. QED
  BY <1>1, <1>5, <1>6, <1>7 DEF IInv

LEMMA SaveKeeps == ASSUME IInv, NEW h \in inHand, SavePayment(h) PROVE IInv'
<1> DEFINE g == [h EXCEPT !.pc = "emit"]
<1>1. CInv'
  BY HooksKeepConsumer DEF SavePayment, IInv, CInv, ConsumerTypeOK
<1>2. /\ h \in Webhooks /\ h.row.status \in {"COMPLETED", "FAILED"} /\ h.pc = "save"
      /\ h.payment \in Payments /\ h.row \in Row
  BY DEF SavePayment, IInv, TypeOK, Webhooks, WebhooksTell
<1>3. /\ g \in Webhooks /\ g.pc = "emit" /\ g.payment = h.payment /\ g.row = h.row
  BY <1>2 DEF Webhooks
<1>4. /\ inHand' = (inHand \ {h}) \cup {g}
      /\ payment' = [payment EXCEPT ![h.payment] = h.row]
      /\ saved' = saved \cup {<<h.payment, h.row.status>>}
      /\ UNCHANGED <<failures, announced, hooks>>
  BY DEF SavePayment
<1>5. TypeOK'
  <2>1. payment' \in [Payments -> Row] /\ inHand' \subseteq Webhooks
    BY <1>2, <1>3, <1>4 DEF IInv, TypeOK
  <2>2. saved' \subseteq Payments \X {"COMPLETED", "FAILED"}
    BY <1>2, <1>4 DEF IInv, TypeOK
  <2>3. QED
    BY <1>1, <1>4, <2>1, <2>2 DEF IInv, CInv, TypeOK
<1>6. WebhooksTell'
  BY <1>2, <1>3, <1>4 DEF IInv, WebhooksTell
<1>7. AnnouncedIsSaved'
  <2>1. ASSUME NEW p \in Payments, p # h.payment, payment'[p].status # "PENDING",
               ~(failures' > 0)
        PROVE  \/ <<p, payment'[p].status>> \in announced'
               \/ \E f \in inHand' : f.pc = "emit" /\ f.payment = p
                                    /\ f.row.status = payment'[p].status
    <3>1. payment'[p] = payment[p]
      BY <1>4, <2>1 DEF IInv, TypeOK
    <3>2. CASE <<p, payment[p].status>> \in announced
      BY <1>4, <3>1, <3>2
    <3>3. CASE \E f \in inHand : f.pc = "emit" /\ f.payment = p
                                 /\ f.row.status = payment[p].status
      BY <1>2, <1>4, <3>1, <3>3
    <3>4. QED
      BY <1>4, <2>1, <3>1, <3>2, <3>3 DEF IInv, AnnouncedIsSaved
  <2>2. payment'[h.payment].status = g.row.status /\ g \in inHand'
    BY <1>2, <1>3, <1>4 DEF IInv, TypeOK
  <2>3. announced' \subseteq saved'
    BY <1>4 DEF IInv, AnnouncedIsSaved
  <2>4. QED
    BY <1>3, <2>1, <2>2, <2>3 DEF AnnouncedIsSaved
<1>8. QED
  BY <1>1, <1>5, <1>6, <1>7 DEF IInv

LEMMA AnnounceKeeps == ASSUME IInv, NEW h \in inHand, Announce(h) PROVE IInv'
<1>1. CInv'
  BY HooksKeepConsumer DEF Announce, IInv, CInv, ConsumerTypeOK
<1>2. /\ h.pc = "emit" /\ <<h.payment, h.row.status>> \in saved
      /\ inHand' = inHand \ {h}
      /\ announced' = announced \cup {<<h.payment, h.row.status>>}
      /\ UNCHANGED <<failures, payment, saved, hooks>>
  BY DEF Announce, IInv, WebhooksTell
<1>3. TypeOK'
  BY <1>1, <1>2 DEF IInv, CInv, TypeOK
<1>4. WebhooksTell'
  BY <1>2 DEF IInv, WebhooksTell
<1>5. AnnouncedIsSaved'
  <2>1. announced' \subseteq saved'
    BY <1>2 DEF IInv, AnnouncedIsSaved
  <2>2. \A f \in inHand \ inHand' : <<f.payment, f.row.status>> \in announced'
    BY <1>2
  <2>3. QED
    BY <1>2, <2>1, <2>2 DEF IInv, AnnouncedIsSaved
<1>6. QED
  BY <1>1, <1>3, <1>4, <1>5 DEF IInv

LEMMA WebhookFailsKeeps == ASSUME IInv, NEW h \in inHand, WebhookFails(h) PROVE IInv'
<1>1. failures \in Nat /\ failures' = failures + 1
  BY DEF WebhookFails, Fail, IInv, CInv, ConsumerTypeOK
<1>2. CInv'
  BY <1>1, HooksKeepConsumer DEF WebhookFails, IInv
<1>3. TypeOK'
  BY <1>2 DEF WebhookFails, IInv, CInv, TypeOK
<1>4. WebhooksTell'
  BY DEF WebhookFails, IInv, WebhooksTell
<1>5. AnnouncedIsSaved'
  BY <1>1 DEF WebhookFails, IInv, AnnouncedIsSaved
<1>6. QED
  BY <1>2, <1>3, <1>4, <1>5 DEF IInv

LEMMA InvStep == IInv /\ [Next]_vars => IInv'
<1>1. SUFFICES ASSUME IInv, [Next]_vars PROVE IInv'
  OBVIOUS
<1>2. CASE ConsumerNext /\ UNCHANGED paymentVars
  BY <1>1, <1>2, ConsumerKeeps
<1>3. CASE \E h \in inHand : SavePayment(h) \/ Announce(h) \/ WebhookFails(h)
  BY <1>1, <1>3, SaveKeeps, AnnounceKeeps, WebhookFailsKeeps
<1>4. CASE \E p \in Payments, status \in {"success", "failure"},
              reference \in {"none", "psp"} : ReceiveWebhook(p, status, reference)
  BY <1>1, <1>4, ReceiveKeeps
<1>5. CASE UNCHANGED vars
  <2>1. CInv'
    BY <1>1, <1>5, ConsumerInvNext DEF vars, IInv
  <2>2. QED
    BY <1>1, <1>5, <2>1 DEF vars, paymentVars, IInv, CInv, TypeOK, WebhooksTell,
                            AnnouncedIsSaved
<1>6. QED
  BY <1>1, <1>2, <1>3, <1>4, <1>5 DEF Next

\* The inductive invariant holds of every reachable state.
THEOREM Invariant == Spec => []IInv
BY InvInit, InvStep, PTL DEF Spec

\* Every variable of the consumers and of the payments keeps its type.
THEOREM TypeCorrect == Spec => []TypeOK
<1>1. IInv => TypeOK
  BY DEF IInv
<1>2. QED
  BY <1>1, Invariant, PTL

\* However webhooks overlap, an announced outcome was saved, and without a
\* failure the outcome a row says is announced or about to be
\* (PaymentService.handleWebhook).
THEOREM AnnouncementsAreTrue == Spec => []AnnouncedIsSaved
<1>1. IInv => AnnouncedIsSaved
  BY DEF IInv
<1>2. QED
  BY <1>1, Invariant, PTL

\* The consumer with its redeliveries, crashes, rebalances and retries
\* implements the promise that an event is taken once and worked on at most
\* MaxRetries times (KafkaConsumerBase.onModuleInit).
THEOREM Refinement == Spec => ImplementsEventHandling
<1>1. Init => Promise!Init
  <2>1. SUFFICES ASSUME Init PROVE Promise!Init
    OBVIOUS
  <2>2. \A e \in Parsed : PhaseOf(e) = "new" /\ charged[e] = 0
    BY <2>1 DEF Init, ConsumerInit, PhaseOf, Parsed
  <2>3. QED
    BY <2>2 DEF Promise!Init
<1>2. IInv /\ [Next]_vars => [Promise!Next]_(Promise!vars)
  <2>1. SUFFICES ASSUME IInv, [Next]_vars PROVE PromiseStep
    BY DEF PromiseStep
  <2>2. CASE ConsumerNext
    BY <2>1, <2>2, ConsumerRefines DEF IInv
  <2>3. CASE UNCHANGED consumerVars
    <3>1. \A e \in Parsed : PhaseOf(e)' = PhaseOf(e)
      BY <2>3 DEF consumerVars, PhaseOf, InHand
    <3>2. QED
      BY <2>3, <3>1, SameIsStep DEF consumerVars
  <2>4. QED
    BY <2>1, <2>2, <2>3 DEF Next, vars, SavePayment, Announce, WebhookFails, ReceiveWebhook
<1>3. QED
  BY <1>1, <1>2, Invariant, PTL DEF Spec, ImplementsEventHandling, Promise!Spec
-----------------------------------------------------------------------------
Busy(w) == worker[w].pc # "idle"

Settled(e) == e \in results \cup parked

\* Without a failure an event is in the hands of one worker from its delivery
\* to its commit, whoever marked it has it still, and it is settled before
\* its offset is committed.
OneDelivery ==
    \A v, w \in Workers :
        Busy(v) /\ Busy(w) /\ worker[v].event = worker[w].event => v = w

HeldIsPending ==
    \A w \in Workers : Busy(w) => topic[worker[w].event] = "pending"

UnmarkedUntilMark ==
    /\ \A w \in Workers : At(w, "mark") => worker[w].event \notin processed
    /\ \A e \in processed : topic[e] = "pending" =>
           \E w \in Workers : Busy(w) /\ worker[w].event = e

SettledFirst ==
    /\ \A w \in Workers : At(w, "commit") /\ worker[w].event \notin Notices
                             => Settled(worker[w].event)
    /\ \A e \in Events \ Notices : topic[e] = "done" => Settled(e)

Undisturbed == OneDelivery /\ HeldIsPending /\ UnmarkedUntilMark /\ SettledFirst

CleanInv == failures = 0 => Undisturbed

\* A failure is not forgotten.
LEMMA FailuresStay ==
    /\ CInv /\ Fail => failures' # 0
    /\ CInv /\ [Next]_vars /\ failures' = 0 => failures = 0
<1>1. CInv => failures \in Nat
  BY DEF CInv, ConsumerTypeOK
<1>2. CInv /\ Fail => failures' # 0
  BY <1>1 DEF Fail
<1>3. [Next]_vars => Fail \/ failures' = failures
  BY DEF Next, vars, ConsumerNext, Send, Deliver, WorkerStep, Mark, Charge, Reply,
         ReplyFails, Park, Commit, MarkFails, Crash, SavePayment, Announce, WebhookFails,
         ReceiveWebhook
<1>4. QED
  BY <1>2, <1>3

\* A worker goes on with its message.
LEMMA GoesOn ==
    ASSUME CInv, Undisturbed, NEW w \in Workers, NEW e, e = worker[w].event,
           Busy(w), Busy(w)', worker'[w].event = e,
           \A v \in Workers : v # w => worker'[v] = worker[v],
           UNCHANGED topic, processed \subseteq processed',
           processed' \subseteq processed \cup {e},
           results \subseteq results', parked \subseteq parked',
           worker'[w].pc # "mark",
           worker'[w].pc = "commit" /\ e \notin Notices => Settled(e)'
    PROVE  Undisturbed'
<1>1. \A v \in Workers : (Busy(v)' <=> Busy(v)) /\ worker'[v].event = worker[v].event
  BY DEF Busy
<1>2. OneDelivery'
  BY <1>1 DEF Undisturbed, OneDelivery
<1>3. HeldIsPending'
  BY <1>1 DEF Undisturbed, HeldIsPending
<1>4. UnmarkedUntilMark'
  <2>1. ASSUME NEW v \in Workers, At(v, "mark")' PROVE worker'[v].event \notin processed'
    <3>1. v # w /\ At(v, "mark") /\ Busy(v)
      BY <2>1 DEF At, Busy
    <3>2. worker[v].event # e /\ worker[v].event \notin processed
      BY <3>1 DEF Undisturbed, OneDelivery, UnmarkedUntilMark
    <3>3. QED
      BY <1>1, <3>2
  <2>2. ASSUME NEW d \in processed', topic'[d] = "pending"
        PROVE  \E v \in Workers : Busy(v)' /\ worker'[v].event = d
    <3>1. CASE d = e
      BY <3>1
    <3>2. CASE d # e
      <4>1. PICK v \in Workers : Busy(v) /\ worker[v].event = d
        BY <2>2, <3>2 DEF Undisturbed, UnmarkedUntilMark
      <4>2. QED
        BY <1>1, <4>1
    <3>3. QED
      BY <3>1, <3>2
  <2>3. QED
    BY <2>1, <2>2 DEF UnmarkedUntilMark
<1>5. SettledFirst'
  <2>1. \A d : Settled(d) => Settled(d)'
    BY DEF Settled
  <2>2. ASSUME NEW v \in Workers, At(v, "commit")', worker'[v].event \notin Notices
        PROVE  worker'[v].event \in results' \cup parked'
    <3>1. CASE v = w
      BY <2>2, <3>1 DEF At, Settled
    <3>2. CASE v # w
      <4>1. At(v, "commit") /\ worker[v].event \notin Notices
        BY <1>1, <2>2, <3>2 DEF At
      <4>2. QED
        BY <1>1, <4>1 DEF Undisturbed, SettledFirst, Settled
    <3>3. QED
      BY <3>1, <3>2
  <2>3. (\A v \in Workers : At(v, "commit") /\ worker[v].event \notin Notices
                               => Settled(worker[v].event))'
    BY <2>2 DEF Settled
  <2>4. \A d \in Events \ Notices : topic'[d] = "done" => Settled(d)'
    BY <2>1 DEF Undisturbed, SettledFirst
  <2>5. QED
    BY <2>3, <2>4 DEF SettledFirst
<1>6. QED
  BY <1>2, <1>3, <1>4, <1>5 DEF Undisturbed

LEMMA CleanSend == ASSUME CInv, Undisturbed, NEW e \in Events, Send(e) PROVE Undisturbed'
<1>1. /\ topic[e] = "unsent" /\ topic'[e] = "pending"
      /\ \A d \in Events : d # e => topic'[d] = topic[d]
      /\ UNCHANGED <<processed, parked, results, worker>>
  BY DEF Send, CInv, ConsumerTypeOK
<1>2. \A w \in Workers : Busy(w) => worker[w].event \in Events /\ worker[w].event # e
  BY <1>1 DEF CInv, HasMessage, Busy
<1>3. \A d \in processed : d \in Events /\ d # e
  BY <1>1 DEF CInv, MarkedFirst, Parsed
<1>4. OneDelivery' /\ HeldIsPending'
  BY <1>1, <1>2 DEF Undisturbed, OneDelivery, HeldIsPending, Busy
<1>5. UnmarkedUntilMark'
  BY <1>1, <1>3 DEF Undisturbed, UnmarkedUntilMark, Busy, At
<1>6. SettledFirst'
  BY <1>1 DEF Undisturbed, SettledFirst, Settled, At
<1>7. QED
  BY <1>4, <1>5, <1>6 DEF Undisturbed

LEMMA CleanDeliver ==
    ASSUME CInv, Undisturbed, NEW w \in Workers, NEW e \in Events, Deliver(w, e), ~Fail
    PROVE  Undisturbed'
<1>1. /\ topic[e] = "pending" /\ ~Busy(w)
      /\ \A v \in Workers : worker[v].event # e
      /\ UNCHANGED <<topic, processed, parked, results>>
  BY DEF Deliver, At, Busy
<1>2. PICK pc \in {"mark", "commit", "park"} :
          /\ worker' = [worker EXCEPT ![w] = [pc |-> pc, event |-> e, attempt |-> 1]]
          /\ pc = "commit" => e \in Notices
  BY DEF Deliver
<1>3. /\ worker'[w].pc = pc /\ worker'[w].event = e
      /\ \A v \in Workers : v # w => worker'[v] = worker[v]
  <2>1. worker'[w] = [pc |-> pc, event |-> e, attempt |-> 1]
    BY <1>2 DEF CInv, ConsumerTypeOK
  <2>2. QED
    BY <1>2, <2>1
<1>4. \A v \in Workers : v # w => (Busy(v)' <=> Busy(v))
  BY <1>3 DEF Busy
<1>5. OneDelivery'
  BY <1>1, <1>3, <1>4 DEF Undisturbed, OneDelivery
<1>6. HeldIsPending'
  BY <1>1, <1>3, <1>4 DEF Undisturbed, HeldIsPending
<1>7. e \notin processed
  BY <1>1 DEF Undisturbed, UnmarkedUntilMark
<1>8. UnmarkedUntilMark'
  <2>1. \A v \in Workers : At(v, "mark")' => worker'[v].event \notin processed'
    BY <1>1, <1>3, <1>7 DEF Undisturbed, UnmarkedUntilMark, At
  <2>2. ASSUME NEW d \in processed', topic'[d] = "pending"
        PROVE  \E v \in Workers : Busy(v)' /\ worker'[v].event = d
    <3>1. PICK v \in Workers : Busy(v) /\ worker[v].event = d
      BY <1>1, <2>2 DEF Undisturbed, UnmarkedUntilMark
    <3>2. v # w
      BY <1>1, <3>1
    <3>3. QED
      BY <1>3, <1>4, <3>1, <3>2
  <2>3. QED
    BY <2>1, <2>2 DEF UnmarkedUntilMark
<1>9. SettledFirst'
  BY <1>1, <1>2, <1>3 DEF Undisturbed, SettledFirst, Settled, At
<1>10. QED
  BY <1>5, <1>6, <1>8, <1>9 DEF Undisturbed

LEMMA CleanCommit ==
    ASSUME CInv, Undisturbed, NEW w \in Workers, Commit(w) PROVE Undisturbed'
<1> DEFINE e == worker[w].event
<1>1. /\ Busy(w) /\ At(w, "commit") /\ e \in Events
      /\ UNCHANGED <<processed, parked, results>>
  BY DEF Commit, At, Busy, CInv, HasMessage
<1>2. topic'[e] = "done" /\ \A d \in Events : d # e => topic'[d] = topic[d]
  BY <1>1 DEF Commit, CInv, ConsumerTypeOK
<1>3. worker'[w].pc = "idle" /\ \A v \in Workers : v # w => worker'[v] = worker[v]
  BY IdleMoves DEF Commit, CInv
<1>4. \A v \in Workers : Busy(v)' => /\ v # w /\ Busy(v) /\ worker'[v] = worker[v]
                                     /\ worker[v].event \in Events /\ worker[v].event # e
  BY <1>1, <1>3 DEF Busy, Undisturbed, OneDelivery, CInv, HasMessage
<1>5. OneDelivery' /\ HeldIsPending'
  BY <1>2, <1>4 DEF Undisturbed, OneDelivery, HeldIsPending
<1>6. UnmarkedUntilMark'
  <2>1. \A v \in Workers : At(v, "mark")' => worker'[v].event \notin processed'
    BY <1>1, <1>3 DEF Undisturbed, UnmarkedUntilMark, At
  <2>2. ASSUME NEW d \in processed', topic'[d] = "pending"
        PROVE  \E v \in Workers : Busy(v)' /\ worker'[v].event = d
    <3>1. d \in Events /\ d # e /\ topic[d] = "pending"
      BY <1>1, <1>2, <2>2 DEF CInv, ConsumerTypeOK
    <3>2. PICK v \in Workers : Busy(v) /\ worker[v].event = d
      BY <1>1, <2>2, <3>1 DEF Undisturbed, UnmarkedUntilMark
    <3>3. v # w
      BY <3>1, <3>2
    <3>4. QED
      BY <1>3, <3>2, <3>3 DEF Busy
  <2>3. QED
    BY <2>1, <2>2 DEF UnmarkedUntilMark
<1>7. SettledFirst'
  BY <1>1, <1>2, <1>3 DEF Undisturbed, SettledFirst, Settled, At
<1>8. QED
  BY <1>5, <1>6, <1>7 DEF Undisturbed

LEMMA CleanWorker ==
    ASSUME CInv, Undisturbed, NEW w \in Workers, ~Fail,
           Mark(w) \/ Charge(w) \/ Reply(w) \/ ReplyFails(w) \/ Park(w)
    PROVE  Undisturbed'
<1> DEFINE e == worker[w].event
<1>1. Busy(w)
  BY DEF Busy, Mark, Charge, Reply, ReplyFails, Park, At
<1>2. CASE Mark(w)
  <2> DEFINE pc == IF IsProcessed(e) \/ e \in Notices THEN "commit" ELSE "charge"
  <2>1. Goto(w, pc) /\ processed' = processed \cup {e} /\ At(w, "mark")
        /\ UNCHANGED <<topic, parked, results>>
    BY <1>2 DEF Mark
  <2>2. /\ worker'[w].pc = pc /\ worker'[w].event = e
        /\ \A v \in Workers : v # w => worker'[v] = worker[v]
    BY <2>1, GotoMoves DEF CInv
  <2>3. pc = "commit" => e \in Notices
    BY <2>1 DEF Undisturbed, UnmarkedUntilMark, IsProcessed
  <2>4. Busy(w)' /\ worker'[w].pc # "mark"
    BY <2>2 DEF Busy
  <2>5. QED
    BY <1>1, <2>1, <2>2, <2>3, <2>4, GoesOn
<1>3. CASE Charge(w)
  <2>1. Goto(w, "reply") /\ UNCHANGED <<topic, processed, parked, results>>
    BY <1>3 DEF Charge
  <2>2. /\ worker'[w].pc = "reply" /\ worker'[w].event = e
        /\ \A v \in Workers : v # w => worker'[v] = worker[v]
    BY <2>1, GotoMoves DEF CInv
  <2>3. Busy(w)'
    BY <2>2 DEF Busy
  <2>4. QED
    BY <1>1, <2>1, <2>2, <2>3, GoesOn
<1>4. CASE Reply(w)
  <2>1. /\ Goto(w, "commit") /\ results' = results \cup {e}
        /\ UNCHANGED <<topic, processed, parked>>
    BY <1>4 DEF Reply
  <2>2. /\ worker'[w].pc = "commit" /\ worker'[w].event = e
        /\ \A v \in Workers : v # w => worker'[v] = worker[v]
    BY <2>1, GotoMoves DEF CInv
  <2>3. Busy(w)' /\ Settled(e)'
    BY <2>1, <2>2 DEF Busy, Settled
  <2>4. QED
    BY <1>1, <2>1, <2>2, <2>3, GoesOn
<1>5. CASE ReplyFails(w)
  <2>1. /\ results \subseteq results' /\ UNCHANGED <<topic, processed, parked>>
    BY <1>5 DEF ReplyFails
  <2>2. CASE MoreAttempts(w)
    <3>1. worker' = [worker EXCEPT ![w] = [worker[w] EXCEPT !.pc = "charge", !.attempt = @ + 1]]
      BY <1>5, <2>2 DEF ReplyFails, Retry
    <3>2. worker[w] \in WorkerStates
      BY DEF CInv, ConsumerTypeOK, WorkerStates
    <3>3. /\ worker'[w].pc = "charge" /\ worker'[w].event = e
          /\ \A v \in Workers : v # w => worker'[v] = worker[v]
      <4>1. worker'[w] = [worker[w] EXCEPT !.pc = "charge", !.attempt = @ + 1]
        BY <3>1 DEF CInv, ConsumerTypeOK
      <4>2. worker'[w].pc = "charge" /\ worker'[w].event = e
        BY <3>2, <4>1 DEF WorkerStates
      <4>3. QED
        BY <3>1, <4>2 DEF CInv, ConsumerTypeOK
    <3>4. Busy(w)'
      BY <3>3 DEF Busy
    <3>5. QED
      BY <1>1, <2>1, <3>3, <3>4, GoesOn
  <2>3. CASE ~MoreAttempts(w)
    <3>1. Goto(w, "park")
      BY <1>5, <2>3 DEF ReplyFails, GiveUp
    <3>2. /\ worker'[w].pc = "park" /\ worker'[w].event = e
          /\ \A v \in Workers : v # w => worker'[v] = worker[v]
      BY <3>1, GotoMoves DEF CInv
    <3>3. Busy(w)'
      BY <3>2 DEF Busy
    <3>4. QED
      BY <1>1, <2>1, <3>2, <3>3, GoesOn
  <2>4. QED
    BY <2>2, <2>3
<1>6. CASE Park(w)
  <2>1. /\ Goto(w, "commit") /\ parked' = parked \cup {e}
        /\ UNCHANGED <<topic, processed, results>>
    BY <1>6 DEF Park
  <2>2. /\ worker'[w].pc = "commit" /\ worker'[w].event = e
        /\ \A v \in Workers : v # w => worker'[v] = worker[v]
    BY <2>1, GotoMoves DEF CInv
  <2>3. Busy(w)' /\ Settled(e)'
    BY <2>1, <2>2 DEF Busy, Settled
  <2>4. QED
    BY <1>1, <2>1, <2>2, <2>3, GoesOn
<1>7. QED
  BY <1>2, <1>3, <1>4, <1>5, <1>6

LEMMA CleanStep == CInv /\ CleanInv /\ [Next]_vars => CleanInv'
<1>1. SUFFICES ASSUME CInv, CleanInv, [Next]_vars, failures' = 0 PROVE Undisturbed'
  BY DEF CleanInv
<1>2. Undisturbed /\ ~Fail
  BY <1>1, FailuresStay DEF CleanInv
<1>3. ASSUME NEW e \in Events, Send(e) PROVE Undisturbed'
  BY <1>1, <1>2, <1>3, CleanSend
<1>4. ASSUME NEW e \in Events, NEW w \in Workers, Deliver(w, e) PROVE Undisturbed'
  BY <1>1, <1>2, <1>4, CleanDeliver
<1>5. ASSUME NEW w \in Workers, WorkerStep(w) PROVE Undisturbed'
  BY <1>1, <1>2, <1>5, CleanWorker, CleanCommit DEF WorkerStep
<1>6. ASSUME NEW w \in Workers, MarkFails(w) \/ Crash(w) PROVE Undisturbed'
  BY <1>2, <1>6 DEF MarkFails, Crash
<1>7. CASE UNCHANGED consumerVars
  BY <1>2, <1>7 DEF consumerVars, Undisturbed, OneDelivery, HeldIsPending,
                    UnmarkedUntilMark, SettledFirst, Settled, Busy, At
<1>8. QED
  BY <1>1, <1>3, <1>4, <1>5, <1>6, <1>7
  DEF Next, ConsumerNext, vars, SavePayment, Announce, WebhookFails, ReceiveWebhook

\* While no worker fails, an event whose offset is committed has a result or
\* lies in the dead letters, however often its result was rejected
\* (KafkaConsumerBase.onModuleInit).
THEOREM SettledBeforeCommit == Spec => []CommittedIsSettled
<1>1. Init => CleanInv
  <2>1. SUFFICES ASSUME Init PROVE Undisturbed
    BY DEF CleanInv
  <2>2. \A w \in Workers : worker[w].pc = "idle"
    BY <2>1 DEF Init, ConsumerInit, Idle
  <2>3. processed = {} /\ \A e \in Events : topic[e] = "unsent"
    BY <2>1 DEF Init, ConsumerInit
  <2>4. QED
    BY <2>2, <2>3 DEF Undisturbed, OneDelivery, HeldIsPending, UnmarkedUntilMark,
                      SettledFirst, Busy, At
<1>2. IInv => CInv
  BY DEF IInv
<1>3. CInv /\ CleanInv => CommittedIsSettled
  <2>1. CInv => failures = 0 \/ failures > 0
    BY DEF CInv, ConsumerTypeOK
  <2>2. QED
    BY <2>1 DEF CleanInv, Undisturbed, SettledFirst, Settled, CommittedIsSettled
<1>4. QED
  BY <1>1, <1>2, <1>3, Invariant, CleanStep, PTL DEF Spec
=============================================================================
