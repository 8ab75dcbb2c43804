--------------------------- MODULE DispatchProofs ---------------------------
(***************************************************************************)
(* Proofs about Dispatch for any number of rides, drivers, workers and     *)
(* answers, any distances, any redeliveries and any failures.              *)
(***************************************************************************)
EXTENDS Dispatch, TLAPS

\* Where a run is before its first offer and between two of them, while an
\* offer is open, and once it looks for nobody.
Between == {"lock", "mark", "search", "offer"}
Holding == {"subscribe", "wait", "assign", "busy", "close"}
Ending == {"fail", "sendFailed", "unlock"}

\* The records of the workers that have a run.
RunStates == [pc : {"lock"} \cup Searching, ride : Rides, round : DOMAIN Radii,
              left : SUBSET Drivers, driver : Drivers \cup {Null},
              answer : Answers \cup {Null}]

\* What a run knows of its ride, which its event's mark reserves for it.
RunInv(w) ==
    LET run == worker[w]
        r == run.ride
    IN run.pc # "idle" =>
       /\ r \in processed
       /\ run.pc \in Between \cup {"subscribe"} => run.answer = Null
       /\ run.pc \in Holding \cup {"decline"} =>
              run.driver \in Drivers /\ offered[r][run.driver] > 0
       /\ run.pc \in {"assign", "busy", "close", "decline"} => run.answer \in Answers
       /\ run.pc = "assign" => run.answer = "accepted"
       /\ run.answer = "accepted" =>
              /\ run.pc \in {"wait", "assign", "busy", "close", "unlock"}
              /\ run.driver \in Drivers /\ accepted[r][run.driver] > 0
       /\ trip[r] # Null =>
              /\ run.pc \in {"busy", "close", "unlock"}
              /\ run.pc # "unlock" => run.answer = "accepted"
       /\ \A d \in Drivers :
              <<r, d>> \in offerKey => /\ run.pc \in Holding \cup {"unlock"}
                                       /\ run.pc \in Holding => run.driver = d
       /\ \A d \in Drivers :
              offered[r][d] > 0 =>
                  /\ d \notin run.left
                  /\ \/ d \in declined[r]
                     \/ run.pc \in Holding \cup {"decline"} /\ run.driver = d
                     \/ run.pc \in Ending

\* What the rows and the keys of a ride say of each other. A cancellation that
\* will take the driver off the row found a trip, and leaves CANCELLED.
RideInv(r) ==
    /\ request[r] = "none" => r \notin processed
    /\ r \notin processed =>
          /\ trip[r] = Null
          /\ \A d \in Drivers : offered[r][d] = 0 /\ <<r, d>> \notin offerKey
    /\ \A d \in Drivers : offered[r][d] <= 1
    /\ trip[r] # Null => /\ accepted[r][trip[r]] > 0
                         /\ ride[r] \in {"DRIVER_ASSIGNED", "CANCELLED"}
    /\ ride[r] = "DRIVER_ASSIGNED" => rideDriver[r] = trip[r] /\ trip[r] # Null
    /\ rideDriver[r] \in {Null, trip[r]}
    /\ cancel[r].pc = "save" /\ cancel[r].unassign =>
          trip[r] # Null /\ (cancel[r].restatus \/ ride[r] = "CANCELLED")
    /\ \A d, e \in Drivers : <<r, d>> \in offerKey /\ <<r, e>> \in offerKey => d = e

IInv ==
    /\ TypeOK
    /\ OneRunPerRide
    /\ \A w \in Workers : RunInv(w)
    /\ \A r \in Rides : RideInv(r)
-----------------------------------------------------------------------------
LEMMA InvInit == Init => IInv
<1>1. SUFFICES ASSUME Init PROVE IInv
  OBVIOUS
<1>2. TypeOK
  <2>1. worker \in [Workers -> WorkerStates]
    BY <1>1 DEF Init, WorkerStates
  <2>2. tap \in [Taps -> {NoTap} \cup
                        [pc : {"delete", "publish"}, ride : Rides,
                         driver : Drivers, says : {"accepted", "declined"}]]
    BY <1>1 DEF Init
  <2>3. cancel \in [Rides -> [pc : {"idle", "reload", "save", "publish", "keys",
                                   "delete"},
                             restatus : BOOLEAN, unassign : BOOLEAN,
                             keys : SUBSET Drivers]]
    BY <1>1 DEF Init, NoCancel
  <2>4. QED
    BY <1>1, <2>1, <2>2, <2>3 DEF Init, TypeOK, NoRideRow, RideStatus
<1>3. \A w \in Workers : worker[w].pc = "idle" /\ worker[w].ride = Null
  BY <1>1 DEF Init, NoRun
<1>4. OneRunPerRide /\ \A w \in Workers : RunInv(w)
  BY <1>3 DEF OneRunPerRide, RunInv
<1>5. \A r \in Rides : RideInv(r)
  BY <1>1 DEF Init, RideInv, NoRideRow, NoCancel
<1>6. QED
  BY <1>2, <1>4, <1>5 DEF IInv

\* A worker is idle, or its record is one of a run.
LEMMA RunTypes ==
    ASSUME TypeOK, NEW w \in Workers
    PROVE  /\ worker[w].pc = "idle" <=> worker[w] = NoRun
           /\ worker[w].pc # "idle" <=> worker[w].ride # Null
           /\ worker[w].pc # "idle" =>
                 /\ worker[w] \in RunStates
                 /\ worker[w].ride \in Rides
BY NullAssumption DEF TypeOK, WorkerStates, RunStates, NoRun, Searching

\* What a step leaves alone keeps what the others know.
LEMMA RunFrame ==
    ASSUME IInv, TypeOK', NEW w \in Workers, worker'[w] = worker[w],
           NEW r, r = worker[w].ride,
           processed \subseteq processed',
           r \in Rides => /\ offered'[r] = offered[r] /\ trip'[r] = trip[r]
                          /\ declined'[r] = declined[r]
                          /\ \A d \in Drivers : accepted[r][d] <= accepted'[r][d],
           \A d \in Drivers : <<r, d>> \in offerKey' => <<r, d>> \in offerKey
    PROVE  RunInv(w)'
<1>1. SUFFICES ASSUME worker[w].pc # "idle" PROVE RunInv(w)'
  BY DEF RunInv
<1>2. r \in Rides
  BY <1>1, RunTypes DEF IInv
<1>3. \A d \in Drivers : accepted[r][d] > 0 => accepted'[r][d] > 0
  BY <1>2 DEF IInv, TypeOK
<1>4. RunInv(w)
  BY DEF IInv
<1>5. QED
  BY <1>1, <1>2, <1>3, <1>4 DEF RunInv

LEMMA RideFrame ==
    ASSUME IInv, TypeOK', NEW r \in Rides,
           ride'[r] = ride[r], rideDriver'[r] = rideDriver[r], trip'[r] = trip[r],
           request'[r] = "none" => request[r] = "none",
           r \in processed' <=> r \in processed,
           offered'[r] = offered[r],
           \A d \in Drivers : accepted[r][d] <= accepted'[r][d],
           \A d \in Drivers : <<r, d>> \in offerKey' => <<r, d>> \in offerKey,
           cancel'[r].pc = "save" => cancel'[r] = cancel[r]
    PROVE  RideInv(r)'
<1>1. RideInv(r)
  BY DEF IInv
<1>2. trip[r] \in Drivers \cup {Null}
  BY DEF IInv, TypeOK
<1>3. \A d \in Drivers : accepted[r][d] > 0 => accepted'[r][d] > 0
  BY DEF IInv, TypeOK
<1>4. QED
  BY <1>1, <1>2, <1>3 DEF RideInv

\* A step that moves no run, writes no row and makes no offer.
LEMMA QuietKeeps ==
    ASSUME IInv, TypeOK', UNCHANGED <<dbVars, worker, processed, declined, offered, accepted>>,
           offerKey' \subseteq offerKey,
           \A r \in Rides : request'[r] = "none" => request[r] = "none",
           \A r \in Rides : cancel'[r].pc = "save" => cancel'[r] = cancel[r]
    PROVE  IInv'
<1>1. UNCHANGED <<ride, rideDriver, trip, worker, processed, declined, offered, accepted>>
  BY DEF dbVars
<1>2. \A r \in Rides, d \in Drivers : accepted[r][d] <= accepted'[r][d]
  BY <1>1 DEF IInv, TypeOK
<1>3. \A w \in Workers : RunInv(w)'
  BY <1>1, <1>2, RunFrame
<1>4. \A r \in Rides : RideInv(r)'
  BY <1>1, <1>2, RideFrame
<1>5. OneRunPerRide'
  BY <1>1 DEF IInv, OneRunPerRide
<1>6. QED
  BY <1>3, <1>4, <1>5 DEF IInv

\* A step of one worker that goes on with its ride or drops it, and leaves
\* rows and offers alone but for taking offers back.
LEMMA RunKeeps ==
    ASSUME IInv, TypeOK', NEW w \in Workers, worker[w].pc # "idle",
           \A v \in Workers \ {w} : worker'[v] = worker[v],
           worker'[w] = NoRun \/ (worker'[w].ride = worker[w].ride /\ RunInv(w)'),
           UNCHANGED <<dbVars, request, processed, offered, accepted, cancel>>,
           offerKey' \subseteq offerKey,
           \A r \in Rides : r # worker[w].ride => declined'[r] = declined[r]
    PROVE  IInv'
<1>1. UNCHANGED <<ride, rideDriver, trip, request, processed, offered, accepted, cancel>>
  BY DEF dbVars
<1>2. \A r \in Rides, d \in Drivers : accepted[r][d] <= accepted'[r][d]
  BY <1>1 DEF IInv, TypeOK
<1>3. \A v \in Workers \ {w} : worker[v].ride # worker[w].ride
  BY RunTypes DEF IInv, OneRunPerRide
<1>4. \A v \in Workers \ {w} : RunInv(v)'
  BY <1>1, <1>2, <1>3, RunFrame
<1>5. RunInv(w)'
  BY DEF RunInv, NoRun
<1>6. \A r \in Rides : RideInv(r)'
  BY <1>1, <1>2, RideFrame
<1>7. OneRunPerRide'
  BY DEF IInv, OneRunPerRide, NoRun
<1>8. QED
  BY <1>4, <1>5, <1>6, <1>7 DEF IInv
-----------------------------------------------------------------------------
\* The types of what the steps below change.
LEMMA CountTypes ==
    ASSUME TypeOK, NewFailure PROVE failures' \in Nat
BY BoundAssumption DEF TypeOK, NewFailure

LEMMA SendKeeps ==
    ASSUME IInv, NEW r \in Rides, SendRequest(r) \/ RequestFails(r) PROVE IInv'
<1>1. /\ request[r] = "saved"
      /\ request' \in {[request EXCEPT ![r] = "sent"], [request EXCEPT ![r] = "lost"]}
      /\ UNCHANGED <<dbVars, deliveries, processed, failedSent, lock, declined, offerKey,
                     fresh, busy, worker, apiVars, seenVars, taps, cancels>>
  BY DEF SendRequest, RequestFails, countVars
<1>2. failures' \in Nat
  BY CountTypes DEF SendRequest, RequestFails, countVars, IInv, TypeOK
<1>3. request' \in [Rides -> {"none", "saved", "sent", "lost"}]
  <2>1. CASE request' = [request EXCEPT ![r] = "sent"]
    BY <2>1 DEF IInv, TypeOK
  <2>2. CASE request' = [request EXCEPT ![r] = "lost"]
    BY <2>2 DEF IInv, TypeOK
  <2>3. QED
    BY <1>1, <2>1, <2>2
<1>4. TypeOK'
  BY <1>1, <1>2, <1>3 DEF IInv, TypeOK, dbVars, apiVars, seenVars
<1>5. \A q \in Rides : request'[q] = "none" => request[q] = "none"
  BY <1>1 DEF IInv, TypeOK
<1>6. QED
  BY <1>1, <1>4, <1>5, QuietKeeps DEF apiVars, seenVars

LEMMA ExpiryKeeps ==
    ASSUME IInv, NEW r \in Rides, LockExpires(r) \/ \E d \in Drivers : OfferExpires(r, d)
    PROVE  IInv'
<1>1. /\ lock' \subseteq lock /\ offerKey' \subseteq offerKey /\ fresh' \subseteq fresh
      /\ UNCHANGED <<dbVars, kafkaVars, declined, busy, worker, apiVars, seenVars, countVars>>
  BY DEF LockExpires, OfferExpires
<1>2. TypeOK'
  BY <1>1 DEF IInv, TypeOK, dbVars, kafkaVars, apiVars, seenVars, countVars
<1>3. QED
  BY <1>1, <1>2, QuietKeeps DEF kafkaVars, apiVars, seenVars

LEMMA CheckKeeps ==
    ASSUME IInv, NEW k \in Taps, NEW r \in Rides, NEW d \in Drivers,
           NEW says \in {"accepted", "declined"}, CheckOffer(k, r, d, says)
    PROVE  IInv'
<1>1. /\ taps' = taps + 1
      /\ tap' = [tap EXCEPT ![k] = [pc |-> "delete", ride |-> r, driver |-> d, says |-> says]]
      /\ UNCHANGED <<dbVars, kafkaVars, lock, declined, offerKey, fresh, busy, worker, cancel,
                     seenVars, cancels, failures>>
  BY DEF CheckOffer
<1>2. TypeOK'
  BY <1>1 DEF IInv, TypeOK, dbVars, kafkaVars, seenVars
<1>3. QED
  BY <1>1, <1>2, QuietKeeps DEF kafkaVars, seenVars

LEMMA TakeKeeps == ASSUME IInv, NEW k \in Taps, TakeOffer(k) PROVE IInv'
<1>1. /\ tap[k].pc = "delete" /\ offerKey' \subseteq offerKey
      /\ tap' = [tap EXCEPT ![k].pc = "publish"]
      /\ UNCHANGED <<dbVars, kafkaVars, lock, declined, fresh, busy, worker, cancel, seenVars,
                     countVars>>
  BY DEF TakeOffer
<1>2. tap[k] \in [pc : {"delete", "publish"}, ride : Rides,
                 driver : Drivers, says : {"accepted", "declined"}]
  BY <1>1 DEF IInv, TypeOK, NoTap
<1>3. TypeOK'
  BY <1>1, <1>2 DEF IInv, TypeOK, dbVars, kafkaVars, seenVars, countVars
<1>4. QED
  BY <1>1, <1>3, QuietKeeps DEF kafkaVars, seenVars

LEMMA TapFailsKeeps == ASSUME IInv, NEW k \in Taps, TapFails(k) PROVE IInv'
<1>1. /\ tap' = [tap EXCEPT ![k] = NoTap]
      /\ UNCHANGED <<dbVars, kafkaVars, lock, declined, offerKey, fresh, busy, worker, cancel,
                     seenVars, taps, cancels>>
      /\ failures' \in Nat
  BY CountTypes DEF TapFails, IInv
<1>2. TypeOK'
  BY <1>1 DEF IInv, TypeOK, dbVars, kafkaVars, seenVars
<1>3. QED
  BY <1>1, <1>2, QuietKeeps DEF kafkaVars, seenVars

\* Steps of a cancellation that write no row.
LEMMA CancelKeeps ==
    ASSUME IInv, NEW r \in Rides,
           ReadForCancel(r) \/ ScanOffers(r) \/ DropOffer(r) \/ CancelFails(r)
    PROVE  IInv'
<1>1. /\ UNCHANGED <<dbVars, kafkaVars, lock, declined, fresh, busy, worker, tap, seenVars, taps>>
      /\ offerKey' \subseteq offerKey
      /\ cancels' \in Nat /\ failures' \in Nat
  BY CountTypes DEF ReadForCancel, ScanOffers, DropOffer, CancelFails, countVars, IInv, TypeOK
<1>2. /\ cancel' \in [Rides -> [pc : {"idle", "reload", "save", "publish", "keys", "delete"},
                                restatus : BOOLEAN, unassign : BOOLEAN,
                                keys : SUBSET Drivers]]
      /\ \A q \in Rides \ {r} : cancel'[q] = cancel[q]
      /\ cancel'[r].pc # "save"
  <2>1. PICK c \in [pc : {"idle", "reload", "publish", "keys", "delete"},
                   restatus : BOOLEAN, unassign : BOOLEAN, keys : SUBSET Drivers] :
            cancel' = [cancel EXCEPT ![r] = c]
    <3> DEFINE C == [pc : {"idle", "reload", "publish", "keys", "delete"},
                     restatus : BOOLEAN, unassign : BOOLEAN, keys : SUBSET Drivers]
    <3>1. cancel[r] \in [pc : {"idle", "reload", "save", "publish", "keys", "delete"},
                        restatus : BOOLEAN, unassign : BOOLEAN, keys : SUBSET Drivers]
      BY DEF IInv, TypeOK
    <3>2. CASE ReadForCancel(r)
      <4>1. [cancel[r] EXCEPT !.pc = "reload"] \in C
        BY <3>1
      <4>2. QED
        BY <3>2, <4>1 DEF ReadForCancel
    <3>3. CASE ScanOffers(r)
      <4>1. [cancel[r] EXCEPT !.pc = "delete",
                              !.keys = {d \in Drivers : <<r, d>> \in offerKey}] \in C
        BY <3>1
      <4>2. cancel' = [cancel EXCEPT ![r] =
                          [cancel[r] EXCEPT !.pc = "delete",
                                            !.keys = {d \in Drivers : <<r, d>> \in offerKey}]]
        BY <3>3 DEF ScanOffers, IInv, TypeOK
      <4>3. QED
        BY <4>1, <4>2
    <3>4. CASE cancel[r].pc = "delete" /\ \E d \in cancel[r].keys :
                                             cancel' = [cancel EXCEPT ![r].keys = @ \ {d}]
      <4>1. \A d : [cancel[r] EXCEPT !.keys = @ \ {d}] \in C
        BY <3>1, <3>4
      <4>2. QED
        BY <3>4, <4>1
    <3>5. CASE cancel' = [cancel EXCEPT ![r] = NoCancel]
      BY <3>5 DEF NoCancel
    <3>6. QED
      BY <3>2, <3>3, <3>4, <3>5 DEF DropOffer, CancelFails
  <2>2. QED
    BY <2>1 DEF IInv, TypeOK
<1>3. TypeOK'
  BY <1>1, <1>2 DEF IInv, TypeOK, dbVars, kafkaVars, seenVars
<1>4. QED
  BY <1>1, <1>2, <1>3, QuietKeeps DEF kafkaVars, seenVars
-----------------------------------------------------------------------------
\* A worker's next record, and the one it has when only its place changes.
LEMMA WorkerTypes ==
    ASSUME TypeOK, NEW w \in Workers, NEW n \in WorkerStates,
           worker' = [worker EXCEPT ![w] = n]
    PROVE  /\ worker' \in [Workers -> WorkerStates] /\ worker'[w] = n
           /\ \A v \in Workers \ {w} : worker'[v] = worker[v]
BY DEF TypeOK

LEMMA GoTypes ==
    ASSUME TypeOK, NEW w \in Workers, worker[w].pc # "idle",
           NEW pc \in Searching, Go(w, pc)
    PROVE  /\ worker' \in [Workers -> WorkerStates]
           /\ worker'[w] = [worker[w] EXCEPT !.pc = pc]
           /\ \A v \in Workers \ {w} : worker'[v] = worker[v]
<1>1. worker' = [worker EXCEPT ![w] = [worker[w] EXCEPT !.pc = pc]]
  BY DEF Go, TypeOK
<1>2. [worker[w] EXCEPT !.pc = pc] \in WorkerStates
  BY RunTypes DEF WorkerStates, RunStates
<1>3. QED
  BY <1>1, <1>2, WorkerTypes

LEMMA LockKeeps == ASSUME IInv, NEW w \in Workers, Lock(w) PROVE IInv'
<1>1. /\ worker[w].pc = "lock" /\ lock' = lock \cup {worker[w].ride}
      /\ UNCHANGED <<dbVars, kafkaVars, declined, offerKey, fresh, busy, apiVars, seenVars,
                     countVars>>
  BY DEF Lock
<1>2. /\ worker' \in [Workers -> WorkerStates]
      /\ \A v \in Workers \ {w} : worker'[v] = worker[v]
      /\ worker'[w] \in {NoRun, [worker[w] EXCEPT !.pc = "mark"]}
  <2>1. CASE worker' = [worker EXCEPT ![w] = NoRun]
    BY <2>1, WorkerTypes DEF IInv, WorkerStates
  <2>2. CASE Go(w, "mark")
    BY <1>1, <2>2, GoTypes DEF IInv, Searching
  <2>3. QED
    BY <2>1, <2>2 DEF Lock
<1>3. worker[w].ride \in Rides
  BY <1>1, RunTypes DEF IInv
<1>4. TypeOK'
  BY <1>1, <1>2, <1>3 DEF IInv, TypeOK, dbVars, kafkaVars, apiVars, seenVars, countVars
<1>5. worker'[w] # NoRun => worker'[w].ride = worker[w].ride /\ RunInv(w)'
  <2>1. SUFFICES ASSUME worker'[w] # NoRun PROVE worker'[w].ride = worker[w].ride /\ RunInv(w)'
    OBVIOUS
  <2>2. worker'[w] = [worker[w] EXCEPT !.pc = "mark"]
    BY <2>1, <1>2
  <2>3. worker[w] \in RunStates
    BY <1>1, RunTypes DEF IInv
  <2>4. RunInv(w)
    BY DEF IInv
  <2>5. QED
    BY <1>1, <2>2, <2>3, <2>4
       DEF RunStates, RunInv, Between, Holding, Ending, dbVars, kafkaVars, seenVars
<1>6. QED
  BY <1>1, <1>2, <1>4, <1>5, RunKeeps DEF kafkaVars, apiVars, seenVars

\* Steps that only move the run and may take its offer back, or say that the
\* ride failed, or that the driver is busy.
LEMMA MoveKeeps ==
    ASSUME IInv, NEW w \in Workers, worker[w].pc # "idle",
           NEW pc \in Searching, Go(w, pc), TypeOK', RunInv(w)',
           UNCHANGED <<dbVars, request, processed, declined, apiVars, seenVars>>,
           offerKey' \subseteq offerKey
    PROVE  IInv'
<1>1. /\ \A v \in Workers \ {w} : worker'[v] = worker[v]
      /\ worker'[w].ride = worker[w].ride
  BY GoTypes, RunTypes DEF IInv, RunStates
<1>2. QED
  BY <1>1, RunKeeps DEF apiVars, seenVars

LEMMA MovedTypes ==
    ASSUME IInv, NEW w \in Workers, worker[w].pc # "idle", NEW pc \in Searching, Go(w, pc)
    PROVE  /\ worker' \in [Workers -> WorkerStates] /\ worker'[w].pc = pc
           /\ worker'[w].ride = worker[w].ride /\ worker'[w].left = worker[w].left
           /\ worker'[w].driver = worker[w].driver /\ worker'[w].answer = worker[w].answer
           /\ worker[w] \in RunStates /\ RunInv(w)
<1>1. RunInv(w) /\ TypeOK
  BY DEF IInv
<1>2. worker[w] \in RunStates
  BY <1>1, RunTypes
<1>3. /\ worker' \in [Workers -> WorkerStates]
      /\ worker'[w] = [worker[w] EXCEPT !.pc = pc]
  BY <1>1, GoTypes
<1>4. QED
  BY <1>1, <1>2, <1>3 DEF RunStates

LEMMA SubscribeKeeps == ASSUME IInv, NEW w \in Workers, Subscribe(w) PROVE IInv'
<1>1. /\ worker[w].pc = "subscribe" /\ "wait" \in Searching /\ Go(w, "wait")
      /\ UNCHANGED <<dbVars, kafkaVars, lock, declined, offerKey, fresh, busy, apiVars,
                     seenVars, countVars>>
  BY DEF Subscribe, Searching
<1>2. /\ worker' \in [Workers -> WorkerStates] /\ worker'[w].pc = "wait"
      /\ worker'[w].ride = worker[w].ride /\ worker'[w].left = worker[w].left
      /\ worker'[w].driver = worker[w].driver /\ worker'[w].answer = worker[w].answer
      /\ RunInv(w)
  BY <1>1, MovedTypes
<1>3. TypeOK'
  BY <1>1, <1>2 DEF IInv, TypeOK, dbVars, kafkaVars, apiVars, seenVars, countVars
<1>4. RunInv(w)'
  BY <1>1, <1>2, NullAssumption, AnswerAssumption
     DEF RunInv, Between, Holding, Ending, dbVars, kafkaVars, seenVars, Answers
<1>5. QED
  BY <1>1, <1>3, <1>4, MoveKeeps DEF kafkaVars

LEMMA MarkBusyKeeps == ASSUME IInv, NEW w \in Workers, MarkBusy(w) PROVE IInv'
<1>1. /\ worker[w].pc = "busy" /\ "close" \in Searching /\ Go(w, "close")
      /\ busy' = busy \cup {worker[w].driver}
      /\ UNCHANGED <<dbVars, kafkaVars, lock, declined, offerKey, fresh, apiVars,
                     seenVars, countVars>>
  BY DEF MarkBusy, SetBusy, Searching
<1>2. /\ worker' \in [Workers -> WorkerStates] /\ worker'[w].pc = "close"
      /\ worker'[w].ride = worker[w].ride /\ worker'[w].left = worker[w].left
      /\ worker'[w].driver = worker[w].driver /\ worker'[w].answer = worker[w].answer
      /\ RunInv(w)
  BY <1>1, MovedTypes
<1>3. worker[w].driver \in Drivers
  BY <1>1, <1>2 DEF RunInv, Holding
<1>4. TypeOK'
  BY <1>1, <1>2, <1>3 DEF IInv, TypeOK, dbVars, kafkaVars, apiVars, seenVars, countVars
<1>5. RunInv(w)'
  BY <1>1, <1>2 DEF RunInv, Between, Holding, Ending, dbVars, kafkaVars, seenVars
<1>6. QED
  BY <1>1, <1>4, <1>5, MoveKeeps DEF kafkaVars

LEMMA CloseKeeps == ASSUME IInv, NEW w \in Workers, Close(w) PROVE IInv'
<1> DEFINE pc == AfterOffer[worker[w].answer]
<1>1. /\ worker[w].pc = "close" /\ Go(w, pc)
      /\ offerKey' = offerKey \ {<<worker[w].ride, worker[w].driver>>}
      /\ UNCHANGED <<dbVars, kafkaVars, lock, declined, fresh, busy, apiVars, seenVars,
                     countVars>>
  BY DEF Close, DeleteOffer
<1>2. worker[w].answer \in Answers
  BY <1>1 DEF IInv, RunInv
<1>3. /\ pc \in {"unlock", "fail", "decline"} /\ pc \in Searching
      /\ pc = "unlock" <=> worker[w].answer = "accepted"
  BY <1>2 DEF AfterOffer, Answers, Searching
<1> HIDE DEF pc
<1>4. /\ worker' \in [Workers -> WorkerStates] /\ worker'[w].pc = pc
      /\ worker'[w].ride = worker[w].ride /\ worker'[w].left = worker[w].left
      /\ worker'[w].driver = worker[w].driver /\ worker'[w].answer = worker[w].answer
      /\ RunInv(w)
  BY <1>1, <1>3, MovedTypes
<1>5. TypeOK'
  BY <1>1, <1>4 DEF IInv, TypeOK, dbVars, kafkaVars, apiVars, seenVars, countVars
<1>6. RunInv(w)'
  BY <1>1, <1>2, <1>3, <1>4 DEF RunInv, Between, Holding, Ending, dbVars, kafkaVars, seenVars
<1>7. QED
  BY <1>1, <1>3, <1>5, <1>6, MoveKeeps DEF kafkaVars

LEMMA SendFailedKeeps == ASSUME IInv, NEW w \in Workers, SendFailed(w) PROVE IInv'
<1>1. /\ worker[w].pc = "sendFailed" /\ "unlock" \in Searching /\ Go(w, "unlock")
      /\ failedSent' = failedSent \cup {worker[w].ride}
      /\ UNCHANGED <<dbVars, request, deliveries, processed, lock, declined, offerKey, fresh,
                     busy, apiVars, seenVars, countVars>>
  BY DEF SendFailed, Searching
<1>2. /\ worker' \in [Workers -> WorkerStates] /\ worker'[w].pc = "unlock"
      /\ worker'[w].ride = worker[w].ride /\ worker'[w].left = worker[w].left
      /\ worker'[w].driver = worker[w].driver /\ worker'[w].answer = worker[w].answer
      /\ RunInv(w) /\ worker[w] \in RunStates
  BY <1>1, MovedTypes
<1>3. TypeOK'
  BY <1>1, <1>2 DEF IInv, TypeOK, RunStates, dbVars, apiVars, seenVars, countVars
<1>4. RunInv(w)'
  BY <1>1, <1>2 DEF RunInv, Between, Holding, Ending, dbVars, seenVars
<1>5. QED
  BY <1>1, <1>3, <1>4, MoveKeeps

LEMMA RunThrowsKeeps == ASSUME IInv, NEW w \in Workers, RunThrows(w) PROVE IInv'
<1>1. /\ worker[w].pc \in Searching \ {"subscribe", "wait", "unlock"} /\ failures' \in Nat
      /\ "unlock" \in Searching /\ Go(w, "unlock") /\ worker[w].pc # "idle"
      /\ UNCHANGED <<dbVars, kafkaVars, lock, declined, offerKey, fresh, busy, apiVars,
                     seenVars, taps, cancels>>
  BY CountTypes DEF RunThrows, Searching, IInv
<1>2. /\ worker' \in [Workers -> WorkerStates] /\ worker'[w].pc = "unlock"
      /\ worker'[w].ride = worker[w].ride /\ worker'[w].left = worker[w].left
      /\ worker'[w].driver = worker[w].driver /\ worker'[w].answer = worker[w].answer
      /\ RunInv(w)
  BY <1>1, MovedTypes
<1>3. TypeOK'
  BY <1>1, <1>2 DEF IInv, TypeOK, dbVars, kafkaVars, apiVars, seenVars
<1>4. RunInv(w)'
  BY <1>1, <1>2 DEF RunInv, Between, Holding, Ending, dbVars, kafkaVars, seenVars
<1>5. QED
  BY <1>1, <1>3, <1>4, MoveKeeps DEF kafkaVars

LEMMA UnlockKeeps == ASSUME IInv, NEW w \in Workers, Unlock(w) PROVE IInv'
<1> DEFINE r == worker[w].ride
<1>1. /\ worker[w].pc = "unlock" /\ lock' = lock \ {r}
      /\ declined' = [declined EXCEPT ![r] = {}]
      /\ worker' = [worker EXCEPT ![w] = NoRun]
      /\ UNCHANGED <<dbVars, kafkaVars, offerKey, fresh, busy, apiVars, seenVars, countVars>>
  BY DEF Unlock
<1>2. /\ worker' \in [Workers -> WorkerStates] /\ worker'[w] = NoRun
      /\ \A v \in Workers \ {w} : worker'[v] = worker[v]
  BY <1>1, WorkerTypes DEF IInv, WorkerStates
<1>3. TypeOK'
  BY <1>1, <1>2 DEF IInv, TypeOK, dbVars, kafkaVars, apiVars, seenVars, countVars
<1>4. \A q \in Rides : q # worker[w].ride => declined'[q] = declined[q]
  BY <1>1 DEF IInv, TypeOK
<1>5. QED
  BY <1>1, <1>2, <1>3, <1>4, RunKeeps DEF kafkaVars, apiVars, seenVars

LEMMA WorkerDiesKeeps == ASSUME IInv, NEW w \in Workers, WorkerDies(w) PROVE IInv'
<1>1. /\ worker[w].pc # "idle" /\ failures' \in Nat
      /\ worker' = [worker EXCEPT ![w] = NoRun]
      /\ UNCHANGED <<dbVars, kafkaVars, lock, declined, offerKey, fresh, busy, apiVars,
                     seenVars, taps, cancels>>
  BY CountTypes DEF WorkerDies, IInv
<1>2. /\ worker' \in [Workers -> WorkerStates] /\ worker'[w] = NoRun
      /\ \A v \in Workers \ {w} : worker'[v] = worker[v]
  BY <1>1, WorkerTypes DEF IInv, WorkerStates
<1>3. TypeOK'
  BY <1>1, <1>2 DEF IInv, TypeOK, dbVars, kafkaVars, apiVars, seenVars
<1>4. QED
  BY <1>1, <1>2, <1>3, RunKeeps DEF kafkaVars, apiVars, seenVars

\* The three ways in which the wait for an answer ends.
LEMMA SettleKeeps ==
    ASSUME IInv, NEW w \in Workers, Answered(w) \/ Timeout(w) \/ SubscribeFails(w)
    PROVE  IInv'
<1>1. PICK answer \in Answers :
        /\ Settle(w, answer)
        /\ answer = "accepted" => worker[w].pc = "wait" /\ worker[w].answer = "accepted"
  <2>1. CASE Answered(w)
    <3>1. worker[w].answer \in Answers
      BY <2>1, RunTypes DEF Answered, IInv, RunStates
    <3>2. QED
      BY <2>1, <3>1 DEF Answered
  <2>2. CASE Timeout(w)
    BY <2>2 DEF Timeout, Answers
  <2>3. CASE SubscribeFails(w)
    BY <2>3 DEF SubscribeFails, Answers
  <2>4. QED
    BY <2>1, <2>2, <2>3
<1>2. /\ worker[w].pc \in {"subscribe", "wait"} /\ failures' \in Nat
      /\ UNCHANGED <<dbVars, kafkaVars, lock, declined, offerKey, fresh, busy, apiVars,
                     seenVars, taps, cancels>>
  BY CountTypes DEF Answered, Timeout, SubscribeFails, IInv, TypeOK, countVars
<1> DEFINE n == [worker[w] EXCEPT !.answer = answer,
                                  !.pc = IF answer = "accepted" THEN "assign" ELSE "close"]
<1>3. worker[w] \in RunStates /\ worker[w].pc # "idle" /\ RunInv(w)
  BY <1>2, RunTypes DEF IInv
<1>4. n \in RunStates
  BY <1>3 DEF RunStates, Searching
<1>5. worker' = [worker EXCEPT ![w] = n]
  BY <1>1 DEF Settle, IInv, TypeOK
<1>6. /\ worker' \in [Workers -> WorkerStates] /\ worker'[w] = n
      /\ \A v \in Workers \ {w} : worker'[v] = worker[v]
  BY <1>4, <1>5, WorkerTypes DEF IInv, WorkerStates, RunStates
<1>7. /\ worker'[w].pc = IF answer = "accepted" THEN "assign" ELSE "close"
      /\ worker'[w].ride = worker[w].ride /\ worker'[w].left = worker[w].left
      /\ worker'[w].driver = worker[w].driver /\ worker'[w].answer = answer
  BY <1>3, <1>6 DEF RunStates
<1>8. TypeOK'
  BY <1>2, <1>6 DEF IInv, TypeOK, dbVars, kafkaVars, apiVars, seenVars
<1> HIDE DEF n
<1>9. RunInv(w)'
  BY <1>1, <1>2, <1>3, <1>7 DEF RunInv, Between, Holding, Ending, dbVars, kafkaVars, seenVars
<1>10. QED
  BY <1>2, <1>3, <1>6, <1>7, <1>8, <1>9, RunKeeps DEF kafkaVars, apiVars, seenVars

\* The next record of a run that goes on with the candidates it has left.
LEMMA ContinueTypes ==
    ASSUME NEW run \in RunStates, NEW left \in SUBSET Drivers,
           NEW n, n = Continue(run, left)
    PROVE  /\ n \in RunStates /\ n.pc \in {"offer", "search", "fail"}
           /\ n.ride = run.ride /\ n.driver = run.driver /\ n.answer = run.answer
           /\ n.left = left
<1>1. CASE left # {}
  BY <1>1 DEF Continue, RunStates, Searching
<1>2. CASE left = {} /\ run.round < Len(Radii)
  <2>1. run.round + 1 \in DOMAIN Radii
    BY <1>2 DEF RunStates, Radii
  <2>2. n = [run EXCEPT !.pc = "search", !.left = {}, !.round = @ + 1]
    BY <1>2 DEF Continue
  <2>3. QED
    BY <1>2, <2>1, <2>2 DEF RunStates, Searching
<1>3. CASE left = {} /\ ~(run.round < Len(Radii))
  <2>1. n = [run EXCEPT !.pc = "fail", !.left = {}]
    BY <1>3 DEF Continue
  <2>2. QED
    BY <1>3, <2>1 DEF RunStates, Searching
<1>4. QED
  BY <1>1, <1>2, <1>3

LEMMA SearchKeeps == ASSUME IInv, NEW w \in Workers, Search(w) PROVE IInv'
<1> DEFINE left == Candidates(worker[w].ride, worker[w].round)
           n == Continue(worker[w], left)
<1>1. /\ worker[w].pc = "search" /\ worker' = [worker EXCEPT ![w] = n]
      /\ UNCHANGED <<dbVars, kafkaVars, lock, declined, offerKey, fresh, busy, apiVars,
                     seenVars, countVars>>
  BY DEF Search
<1>2. worker[w] \in RunStates /\ worker[w].pc # "idle" /\ RunInv(w)
  BY <1>1, RunTypes DEF IInv
<1>3. left \in SUBSET Drivers /\ \A d \in left : d \notin declined[worker[w].ride]
  BY DEF Candidates, Nearest
<1>4. /\ n \in RunStates /\ n.pc \in {"offer", "search", "fail"} /\ n.ride = worker[w].ride
      /\ n.driver = worker[w].driver /\ n.answer = worker[w].answer /\ n.left = left
  BY <1>2, <1>3, ContinueTypes
<1> HIDE DEF n, left
<1>5. /\ worker' \in [Workers -> WorkerStates] /\ worker'[w] = n
      /\ \A v \in Workers \ {w} : worker'[v] = worker[v]
  BY <1>1, <1>4, WorkerTypes DEF IInv, WorkerStates, RunStates
<1>6. TypeOK'
  BY <1>1, <1>5 DEF IInv, TypeOK, dbVars, kafkaVars, apiVars, seenVars, countVars
<1>7. RunInv(w)'
  BY <1>1, <1>2, <1>3, <1>4, <1>5, AnswerAssumption
     DEF RunInv, Between, Holding, Ending, dbVars, kafkaVars, seenVars, Answers
<1>8. QED
  BY <1>1, <1>2, <1>4, <1>5, <1>6, <1>7, RunKeeps DEF kafkaVars, apiVars, seenVars

LEMMA DeclineKeeps == ASSUME IInv, NEW w \in Workers, Decline(w) PROVE IInv'
<1> DEFINE r == worker[w].ride
           run == [worker[w] EXCEPT !.driver = Null, !.answer = Null]
           n == Continue(run, worker[w].left)
<1>1. /\ worker[w].pc = "decline" /\ worker' = [worker EXCEPT ![w] = n]
      /\ declined' = [declined EXCEPT ![r] = @ \cup {worker[w].driver}]
      /\ UNCHANGED <<dbVars, kafkaVars, lock, offerKey, fresh, busy, apiVars,
                     seenVars, countVars>>
  BY DEF Decline
<1>2. worker[w] \in RunStates /\ worker[w].pc # "idle" /\ RunInv(w) /\ r \in Rides
  BY <1>1, RunTypes DEF IInv
<1>3. run \in RunStates /\ run.ride = r /\ run.answer = Null /\ worker[w].left \in SUBSET Drivers
  BY <1>2 DEF RunStates
<1> HIDE DEF run
<1>4. /\ n \in RunStates /\ n.pc \in {"offer", "search", "fail"} /\ n.ride = r
      /\ n.answer = Null /\ n.left = worker[w].left
  BY <1>3, ContinueTypes
<1> HIDE DEF n
<1>5. /\ worker' \in [Workers -> WorkerStates] /\ worker'[w] = n
      /\ \A v \in Workers \ {w} : worker'[v] = worker[v]
  BY <1>1, <1>4, WorkerTypes DEF IInv, WorkerStates, RunStates
<1>6. worker[w].driver \in Drivers
  BY <1>1, <1>2 DEF RunInv
<1>7. /\ declined' \in [Rides -> SUBSET Drivers]
      /\ declined'[r] = declined[r] \cup {worker[w].driver}
      /\ \A q \in Rides : q # r => declined'[q] = declined[q]
  BY <1>1, <1>2, <1>6 DEF IInv, TypeOK
<1>8. TypeOK'
  BY <1>1, <1>5, <1>7 DEF IInv, TypeOK, dbVars, kafkaVars, apiVars, seenVars, countVars
<1>9. RunInv(w)'
  BY <1>1, <1>2, <1>4, <1>5, <1>7, AnswerAssumption
     DEF RunInv, Between, Holding, Ending, dbVars, kafkaVars, seenVars, Answers
<1>10. QED
  BY <1>1, <1>2, <1>4, <1>5, <1>7, <1>8, <1>9, RunKeeps DEF kafkaVars, apiVars, seenVars

\* A step of a run that writes rows or offers of its own ride.
LEMMA RowKeeps ==
    ASSUME IInv, TypeOK', NEW w \in Workers, worker[w].pc # "idle",
           NEW r \in Rides, r = worker[w].ride,
           \A v \in Workers \ {w} : worker'[v] = worker[v],
           worker'[w].ride = r, RunInv(w)', RideInv(r)',
           UNCHANGED <<request, processed, accepted, declined, cancel>>,
           \A q \in Rides \ {r} :
              /\ ride'[q] = ride[q] /\ rideDriver'[q] = rideDriver[q] /\ trip'[q] = trip[q]
              /\ offered'[q] = offered[q]
              /\ \A d \in Drivers : <<q, d>> \in offerKey' => <<q, d>> \in offerKey
    PROVE  IInv'
<1>1. \A q \in Rides, d \in Drivers : accepted[q][d] <= accepted'[q][d]
  BY DEF IInv, TypeOK
<1>2. \A v \in Workers \ {w} : worker[v].ride # r
  BY RunTypes DEF IInv, OneRunPerRide
<1>3. ASSUME NEW v \in Workers \ {w} PROVE RunInv(v)'
  <2>1. CASE worker[v].pc = "idle"
    BY <2>1 DEF RunInv
  <2>2. CASE worker[v].pc # "idle"
    <3>1. worker[v].ride \in Rides \ {r}
      BY <1>2, <2>2, RunTypes DEF IInv
    <3>2. QED
      BY <1>1, <3>1, RunFrame
  <2>3. QED
    BY <2>1, <2>2
<1>4. \A q \in Rides \ {r} : RideInv(q)'
  BY <1>1, RideFrame
<1>5. OneRunPerRide'
  BY DEF IInv, OneRunPerRide
<1>6. QED
  BY <1>3, <1>4, <1>5 DEF IInv

LEMMA MarkMatchingKeeps ==
    ASSUME IInv, NEW w \in Workers, NEW r \in Rides, r = worker[w].ride, MarkMatching(w)
    PROVE  IInv'
<1>1. /\ worker[w].pc = "mark" /\ "search" \in Searching /\ Go(w, "search")
      /\ ride' = [ride EXCEPT ![r] = "MATCHING"]
      /\ UNCHANGED <<rideDriver, trip, kafkaVars, lock, declined, offerKey, fresh, busy, apiVars,
                     seenVars, countVars>>
  BY DEF MarkMatching, Searching
<1>2. /\ worker' \in [Workers -> WorkerStates] /\ worker'[w].pc = "search"
      /\ worker'[w].ride = r /\ worker'[w].left = worker[w].left
      /\ worker'[w].driver = worker[w].driver /\ worker'[w].answer = worker[w].answer
      /\ RunInv(w)
  BY <1>1, MovedTypes
<1>3. r \in Rides /\ RideInv(r) /\ \A v \in Workers \ {w} : worker'[v] = worker[v]
  BY <1>1, RunTypes, GoTypes DEF IInv
<1>4. TypeOK'
  BY <1>1, <1>2 DEF IInv, TypeOK, dbVars, kafkaVars, apiVars, seenVars, countVars, RideStatus,
     PreAssignment
<1>5. trip[r] = Null
  BY <1>1, <1>2 DEF RunInv
<1>6. ride'[r] = "MATCHING" /\ \A q \in Rides \ {r} : ride'[q] = ride[q]
  BY <1>1, <1>3 DEF IInv, TypeOK
<1>7. RunInv(w)'
  BY <1>1, <1>2 DEF RunInv, Between, Holding, Ending, kafkaVars, seenVars
<1>8. RideInv(r)'
  BY <1>1, <1>3, <1>5, <1>6 DEF RideInv, kafkaVars, seenVars, apiVars
<1>9. QED
  BY <1>1, <1>2, <1>3, <1>4, <1>6, <1>7, <1>8, RowKeeps DEF kafkaVars, seenVars, apiVars

LEMMA FailKeeps ==
    ASSUME IInv, NEW w \in Workers, NEW r \in Rides, r = worker[w].ride, Fail(w)
    PROVE  IInv'
<1>1. /\ worker[w].pc = "fail" /\ "sendFailed" \in Searching /\ Go(w, "sendFailed")
      /\ ride' = [ride EXCEPT ![r] = "FAILED"] \/ ride' = ride
      /\ UNCHANGED <<rideDriver, trip, kafkaVars, lock, declined, offerKey, fresh, busy, apiVars,
                     seenVars, countVars>>
  BY DEF Fail, Searching
<1>2. /\ worker' \in [Workers -> WorkerStates] /\ worker'[w].pc = "sendFailed"
      /\ worker'[w].ride = r /\ worker'[w].left = worker[w].left
      /\ worker'[w].driver = worker[w].driver /\ worker'[w].answer = worker[w].answer
      /\ RunInv(w)
  BY <1>1, MovedTypes
<1>3. r \in Rides /\ RideInv(r) /\ \A v \in Workers \ {w} : worker'[v] = worker[v]
  BY <1>1, RunTypes, GoTypes DEF IInv
<1>4. /\ ride' \in [Rides -> RideStatus \cup {NoRideRow}]
      /\ ride'[r] \in {"FAILED", ride[r]} /\ \A q \in Rides \ {r} : ride'[q] = ride[q]
  BY <1>1, <1>3 DEF IInv, TypeOK, RideStatus
<1>5. TypeOK'
  BY <1>1, <1>2, <1>4 DEF IInv, TypeOK, kafkaVars, apiVars, seenVars, countVars
<1>6. trip[r] = Null
  BY <1>1, <1>2 DEF RunInv
<1>7. RunInv(w)'
  BY <1>1, <1>2 DEF RunInv, Between, Holding, Ending, kafkaVars, seenVars
<1>8. RideInv(r)'
  BY <1>1, <1>3, <1>4, <1>6 DEF RideInv, kafkaVars, seenVars, apiVars
<1>9. QED
  BY <1>1, <1>2, <1>3, <1>4, <1>5, <1>7, <1>8, RowKeeps DEF kafkaVars, seenVars, apiVars

LEMMA AssignKeeps ==
    ASSUME IInv, NEW w \in Workers, NEW r \in Rides, r = worker[w].ride, Assign(w)
    PROVE  IInv'
<1> DEFINE d == worker[w].driver
<1>1. /\ worker[w].pc = "assign"
      /\ UNCHANGED <<kafkaVars, lock, declined, offerKey, fresh, busy, apiVars, seenVars,
                     countVars>>
  BY DEF Assign
<1>2. RunInv(w) /\ r \in Rides /\ worker[w].pc # "idle" /\ RideInv(r)
  BY <1>1, RunTypes DEF IInv
<1>3. trip[r] = Null /\ d \in Drivers /\ worker[w].answer = "accepted" /\ accepted[r][d] > 0
  BY <1>1, <1>2 DEF RunInv, Holding
<1>4. /\ "busy" \in Searching /\ Go(w, "busy")
      /\ ride' = [ride EXCEPT ![r] = "DRIVER_ASSIGNED"]
      /\ rideDriver' = [rideDriver EXCEPT ![r] = d]
      /\ trip' = [trip EXCEPT ![r] = d]
  BY <1>3 DEF Assign, AssignRows, Searching
<1>5. /\ worker' \in [Workers -> WorkerStates] /\ worker'[w].pc = "busy"
      /\ worker'[w].ride = r /\ worker'[w].left = worker[w].left
      /\ worker'[w].driver = d /\ worker'[w].answer = worker[w].answer
      /\ \A v \in Workers \ {w} : worker'[v] = worker[v]
  BY <1>2, <1>4, MovedTypes, GoTypes DEF IInv
<1>6. /\ ride' \in [Rides -> RideStatus \cup {NoRideRow}]
      /\ rideDriver' \in [Rides -> Drivers \cup {Null}] /\ trip' \in [Rides -> Drivers \cup {Null}]
      /\ ride'[r] = "DRIVER_ASSIGNED" /\ rideDriver'[r] = d /\ trip'[r] = d
      /\ \A q \in Rides \ {r} : /\ ride'[q] = ride[q] /\ rideDriver'[q] = rideDriver[q]
                                /\ trip'[q] = trip[q]
  BY <1>2, <1>3, <1>4 DEF IInv, TypeOK, RideStatus, TripStatus, ActiveStatuses
<1>7. TypeOK'
  BY <1>1, <1>5, <1>6 DEF IInv, TypeOK, kafkaVars, apiVars, seenVars, countVars
<1>8. RunInv(w)'
  BY <1>1, <1>2, <1>3, <1>5 DEF RunInv, Between, Holding, Ending, kafkaVars, seenVars
<1>9. RideInv(r)'
  <2>1. request[r] # "none" /\ r \in processed
    BY <1>1, <1>2 DEF RunInv, RideInv
  <2>2. QED
    BY <1>1, <1>2, <1>3, <1>6, <2>1, NullAssumption DEF RideInv, kafkaVars, seenVars, apiVars
<1>10. QED
  BY <1>1, <1>2, <1>5, <1>6, <1>7, <1>8, <1>9, RowKeeps DEF kafkaVars, seenVars, apiVars

\* The offer goes to a driver that this ride was never offered to, while no
\* offer of the ride is open.
LEMMA OfferKeeps ==
    ASSUME IInv, NEW w \in Workers, NEW r \in Rides, r = worker[w].ride, Offer(w)
    PROVE  IInv'
<1>1. PICK d \in worker[w].left :
        /\ offerKey' = offerKey \cup {<<r, d>>}
        /\ fresh' = fresh \cup {<<r, d>>}
        /\ offered' = [offered EXCEPT ![r][d] = @ + 1]
        /\ worker' = [worker EXCEPT ![w].pc = "subscribe", ![w].left = @ \ {d},
                                    ![w].driver = d]
  BY DEF Offer, Nearest
<1>2. /\ worker[w].pc = "offer"
      /\ UNCHANGED <<dbVars, kafkaVars, lock, declined, busy, apiVars, accepted, countVars>>
  BY DEF Offer
<1>3. /\ worker[w] \in RunStates /\ worker[w].pc # "idle" /\ RunInv(w) /\ RideInv(r)
      /\ d \in Drivers
  BY <1>2, RunTypes DEF IInv, RunStates
<1> DEFINE n == [worker[w] EXCEPT !.pc = "subscribe", !.left = @ \ {d}, !.driver = d]
<1>4. n \in RunStates
  BY <1>3 DEF RunStates, Searching
<1>5. worker' = [worker EXCEPT ![w] = n]
  BY <1>1 DEF IInv, TypeOK
<1>6. /\ worker' \in [Workers -> WorkerStates] /\ worker'[w] = n
      /\ \A v \in Workers \ {w} : worker'[v] = worker[v]
  BY <1>4, <1>5, WorkerTypes DEF IInv, WorkerStates, RunStates
<1>7. /\ worker'[w].pc = "subscribe" /\ worker'[w].ride = r
      /\ worker'[w].left = worker[w].left \ {d}
      /\ worker'[w].driver = d /\ worker'[w].answer = worker[w].answer
  BY <1>3, <1>6 DEF RunStates
<1> HIDE DEF n
<1>8. /\ offered' \in [Rides -> [Drivers -> Nat]]
      /\ offered'[r][d] = offered[r][d] + 1
      /\ \A e \in Drivers \ {d} : offered'[r][e] = offered[r][e]
      /\ \A q \in Rides \ {r} : offered'[q] = offered[q]
  BY <1>1, <1>3 DEF IInv, TypeOK
<1>9. offered[r] \in [Drivers -> Nat]
  BY DEF IInv, TypeOK
<1>10. /\ offered[r][d] = 0 /\ trip[r] = Null /\ r \in processed
       /\ \A e \in Drivers : <<r, e>> \notin offerKey
       /\ worker[w].answer = Null
  BY <1>1, <1>2, <1>3, <1>9 DEF RunInv, Between, Holding, Ending
<1>11. TypeOK'
  BY <1>1, <1>2, <1>3, <1>6, <1>8 DEF IInv, TypeOK, dbVars, kafkaVars, apiVars, countVars
<1>12. RunInv(w)'
  <2>1. offered'[r][d] > 0
    BY <1>8, <1>10
  <2>2. \A e \in Drivers : <<r, e>> \in offerKey' => e = d
    BY <1>1, <1>10
  <2>3. \A e \in Drivers : offered'[r][e] > 0 /\ e # d =>
           e \notin worker[w].left /\ e \in declined[r]
    BY <1>2, <1>3, <1>8 DEF RunInv, Between, Holding, Ending
  <2>4. QED
    BY <1>2, <1>3, <1>7, <1>10, <2>1, <2>2, <2>3, AnswerAssumption
       DEF RunInv, Between, Holding, Ending, dbVars, kafkaVars, Answers
<1>13. RideInv(r)'
  BY <1>1, <1>2, <1>3, <1>8, <1>10 DEF RideInv, dbVars, kafkaVars, apiVars
<1>14. QED
  BY <1>1, <1>2, <1>3, <1>6, <1>7, <1>8, <1>11, <1>12, <1>13, RowKeeps
     DEF dbVars, kafkaVars, apiVars

\* A redelivered message finds its mark, so a run that starts is the only one
\* the ride ever had.
LEMMA DeliverKeeps ==
    ASSUME IInv, NEW w \in Workers, NEW r \in Rides, Deliver(w, r) PROVE IInv'
<1>1. /\ worker[w].pc = "idle" /\ request[r] = "sent"
      /\ deliveries' = [deliveries EXCEPT ![r] = @ + 1]
      /\ processed' = processed \cup {r}
      /\ UNCHANGED <<dbVars, request, failedSent, lock, declined, offerKey, fresh, busy, apiVars,
                     seenVars, countVars>>
  BY DEF Deliver
<1>2. RideInv(r) /\ worker[w] = NoRun
  BY <1>1, RunTypes DEF IInv
<1>3. CASE r \in processed
  <2>1. processed' = processed /\ worker' = worker
    BY <1>1, <1>3 DEF Deliver, IsProcessed
  <2>2. TypeOK'
    BY <1>1, <2>1 DEF IInv, TypeOK, dbVars, apiVars, seenVars, countVars
  <2>3. QED
    BY <1>1, <2>1, <2>2, QuietKeeps DEF apiVars, seenVars
<1>4. CASE r \notin processed
  <2> DEFINE n == [NoRun EXCEPT !.pc = "lock", !.ride = r]
  <2>1. worker' = [worker EXCEPT ![w] = n]
    BY <1>4 DEF Deliver, IsProcessed
  <2>2. /\ n \in RunStates /\ n.pc = "lock" /\ n.ride = r /\ n.left = {} /\ n.answer = Null
    <3>1. NoRun \in [pc : {"idle"}, ride : {Null}, round : DOMAIN Radii, left : {{}},
                     driver : {Null}, answer : {Null}]
      BY DEF NoRun, Radii
    <3>2. n \in [pc : {"lock"}, ride : {r}, round : DOMAIN Radii, left : {{}},
                 driver : {Null}, answer : {Null}]
      BY <3>1
    <3>3. QED
      BY <3>2 DEF RunStates
  <2> HIDE DEF n
  <2>3. /\ worker' \in [Workers -> WorkerStates] /\ worker'[w] = n
        /\ \A v \in Workers \ {w} : worker'[v] = worker[v]
    BY <2>1, <2>2, WorkerTypes DEF IInv, WorkerStates, RunStates
  <2>4. TypeOK'
    BY <1>1, <2>3 DEF IInv, TypeOK, dbVars, apiVars, seenVars, countVars
  <2>5. \A v \in Workers \ {w} : worker[v].ride # r
    <3>1. SUFFICES ASSUME NEW v \in Workers \ {w}, worker[v].ride = r PROVE FALSE
      OBVIOUS
    <3>2. worker[v].pc # "idle"
      BY <3>1, NullAssumption, RunTypes DEF IInv
    <3>3. QED
      BY <1>4, <3>1, <3>2 DEF IInv, RunInv
  <2>6. \A q \in Rides, d \in Drivers : accepted[q][d] <= accepted'[q][d]
    BY <1>1 DEF IInv, TypeOK, seenVars
  <2>7. \A v \in Workers \ {w} : RunInv(v)'
    BY <1>1, <2>3, <2>4, <2>6, RunFrame DEF dbVars, seenVars
  <2>8. RunInv(w)'
    <3>1. /\ trip[r] = Null
          /\ \A d \in Drivers : ~(offered[r][d] > 0) /\ <<r, d>> \notin offerKey
      BY <1>2, <1>4 DEF RideInv
    <3>2. QED
      BY <1>1, <2>2, <2>3, <3>1, AnswerAssumption
         DEF RunInv, Between, Holding, Ending, dbVars, seenVars, Answers
  <2>9. ASSUME NEW q \in Rides PROVE RideInv(q)'
    <3>1. CASE q = r
      BY <1>1, <1>2, <1>4, <3>1 DEF RideInv, dbVars, seenVars, apiVars
    <3>2. CASE q # r
      BY <1>1, <2>4, <2>6, <3>2, RideFrame DEF dbVars, seenVars, apiVars
    <3>3. QED
      BY <3>1, <3>2
  <2>10. OneRunPerRide'
    BY <2>2, <2>3, <2>5 DEF IInv, OneRunPerRide
  <2>11. QED
    BY <2>4, <2>7, <2>8, <2>9, <2>10 DEF IInv
<1>5. QED
  BY <1>3, <1>4
-----------------------------------------------------------------------------
(* The gateway and the cancellation                                        *)

\* A message that reaches runs waiting for an answer of ride r. An accept is
\* published by the driver whose offer is open.
LEMMA PublishKeeps ==
    ASSUME IInv, NEW r \in Rides, NEW D \in SUBSET Drivers, NEW message \in Answers,
           Publish(Listeners(r, D), message),
           message = "accepted" => \A d \in D : accepted'[r][d] > 0,
           accepted' \in [Rides -> [Drivers -> Nat]],
           \A q \in Rides, d \in Drivers : accepted[q][d] <= accepted'[q][d],
           UNCHANGED <<dbVars, kafkaVars, lock, declined, offerKey, fresh, busy, offered,
                       countVars>>,
           tap' \in [Taps -> {NoTap} \cup
                         [pc : {"delete", "publish"}, ride : Rides,
                          driver : Drivers, says : {"accepted", "declined"}]],
           cancel' \in [Rides -> [pc : {"idle", "reload", "save", "publish", "keys", "delete"},
                                 restatus : BOOLEAN, unassign : BOOLEAN,
                                 keys : SUBSET Drivers]],
           \A q \in Rides : cancel'[q].pc = "save" => cancel'[q] = cancel[q]
    PROVE  IInv'
<1>1. ASSUME NEW w \in Workers, w \in Listeners(r, D), worker[w].answer = Null
      PROVE  /\ worker'[w] \in RunStates
             /\ worker'[w].pc = "wait" /\ worker'[w].ride = r /\ worker'[w].answer = message
             /\ worker'[w].left = worker[w].left /\ worker'[w].driver = worker[w].driver
             /\ worker[w].pc = "wait" /\ worker[w].ride = r /\ worker[w].driver \in D
  <2>1. worker[w].pc = "wait" /\ worker[w].ride = r /\ worker[w].driver \in D
    BY <1>1 DEF Listeners
  <2>2. worker[w] \in RunStates
    BY <2>1, RunTypes DEF IInv
  <2>3. worker'[w] = [worker[w] EXCEPT !.answer = message]
    BY <1>1 DEF Publish
  <2>4. QED
    BY <2>1, <2>2, <2>3 DEF RunStates
<1>2. ASSUME NEW w \in Workers, ~(w \in Listeners(r, D) /\ worker[w].answer = Null)
      PROVE  worker'[w] = worker[w]
  BY <1>2 DEF Publish
<1>3. worker' \in [Workers -> WorkerStates]
  <2>1. ASSUME NEW w \in Workers PROVE worker'[w] \in WorkerStates
    <3>1. worker[w] \in WorkerStates
      BY DEF IInv, TypeOK
    <3>2. QED
      BY <1>1, <1>2, <3>1 DEF WorkerStates, RunStates
  <2>2. worker' = [w \in Workers |-> worker'[w]]
    BY DEF Publish
  <2>3. QED
    BY <2>1, <2>2
<1>4. TypeOK'
  BY <1>3 DEF IInv, TypeOK, dbVars, kafkaVars, countVars
<1>5. ASSUME NEW w \in Workers PROVE RunInv(w)'
  <2>1. CASE w \in Listeners(r, D) /\ worker[w].answer = Null
    <3>1. /\ worker'[w].pc = "wait" /\ worker'[w].ride = r /\ worker'[w].answer = message
          /\ worker'[w].left = worker[w].left /\ worker'[w].driver = worker[w].driver
          /\ worker[w].pc = "wait" /\ worker[w].ride = r /\ worker[w].driver \in D
      BY <1>1, <2>1
    <3>2. RunInv(w) /\ worker[w].driver \in Drivers
      BY <3>1 DEF IInv
    <3>3. QED
      BY <3>1, <3>2 DEF RunInv, Between, Holding, Ending, dbVars, kafkaVars
  <2>2. CASE ~(w \in Listeners(r, D) /\ worker[w].answer = Null)
    BY <1>2, <1>4, <2>2, RunFrame DEF dbVars, kafkaVars
  <2>3. QED
    BY <2>1, <2>2
<1>6. \A q \in Rides : RideInv(q)'
  BY <1>4, RideFrame DEF dbVars, kafkaVars
<1>7. OneRunPerRide'
  <2>1. \A w \in Workers : worker'[w].ride = worker[w].ride
    BY <1>1, <1>2
  <2>2. QED
    BY <2>1 DEF IInv, OneRunPerRide
<1>8. QED
  BY <1>4, <1>5, <1>6, <1>7 DEF IInv

LEMMA RespondKeeps ==
    ASSUME IInv, NEW k \in Taps, NEW r, NEW d, NEW says,
           r = tap[k].ride, d = tap[k].driver, says = tap[k].says, Respond(k)
    PROVE  IInv'
<1>1. /\ tap[k].pc = "publish"
      /\ Publish(Listeners(r, {d}), says)
      /\ accepted' = IF says = "accepted"
                     THEN [accepted EXCEPT ![r][d] = @ + 1] ELSE accepted
      /\ tap' = [tap EXCEPT ![k] = NoTap]
      /\ UNCHANGED <<dbVars, kafkaVars, lock, declined, offerKey, fresh, busy, cancel, offered,
                     countVars>>
  BY DEF Respond, AnswerReaches
<1>2. /\ r \in Rides /\ d \in Drivers /\ {d} \in SUBSET Drivers
      /\ says \in {"accepted", "declined"} /\ says \in Answers
  BY <1>1 DEF IInv, TypeOK, NoTap, Answers
<1>3. /\ accepted' \in [Rides -> [Drivers -> Nat]]
      /\ \A q \in Rides, e \in Drivers : accepted[q][e] <= accepted'[q][e]
      /\ says = "accepted" => \A e \in {d} : accepted'[r][e] > 0
  <2>1. CASE says = "accepted"
    <3>1. accepted' = [accepted EXCEPT ![r] = [accepted[r] EXCEPT ![d] = accepted[r][d] + 1]]
      BY <1>1, <2>1
    <3>2. accepted \in [Rides -> [Drivers -> Nat]]
      BY DEF IInv, TypeOK
    <3>3. QED
      BY <1>2, <3>1, <3>2
  <2>2. CASE says # "accepted"
    BY <1>1, <2>2 DEF IInv, TypeOK
  <2>3. QED
    BY <2>1, <2>2
<1>4. /\ tap' \in [Taps -> {NoTap} \cup
                       [pc : {"delete", "publish"}, ride : Rides,
                        driver : Drivers, says : {"accepted", "declined"}]]
      /\ cancel' \in [Rides -> [pc : {"idle", "reload", "save", "publish", "keys", "delete"},
                               restatus : BOOLEAN, unassign : BOOLEAN,
                               keys : SUBSET Drivers]]
  BY <1>1 DEF IInv, TypeOK
<1>5. \A q \in Rides : cancel'[q].pc = "save" => cancel'[q] = cancel[q]
  BY <1>1
<1>6. PICK D \in SUBSET Drivers : D = {d}
  BY <1>2
<1>7. /\ Publish(Listeners(r, D), says)
      /\ says = "accepted" => \A e \in D : accepted'[r][e] > 0
  BY <1>1, <1>3, <1>6
<1>8. QED
  BY <1>1, <1>2, <1>3, <1>4, <1>5, <1>7, PublishKeeps

LEMMA PublishCancelKeeps ==
    ASSUME IInv, NEW r \in Rides, PublishCancel(r) PROVE IInv'
<1>1. /\ cancel[r].pc = "publish"
      /\ Publish(Listeners(r, Drivers), "cancelled")
      /\ cancel' = [cancel EXCEPT ![r].pc = "keys"]
      /\ UNCHANGED <<dbVars, kafkaVars, lock, declined, offerKey, fresh, busy, tap, seenVars,
                     countVars>>
  BY DEF PublishCancel
<1>2. /\ cancel' \in [Rides -> [pc : {"idle", "reload", "save", "publish", "keys", "delete"},
                               restatus : BOOLEAN, unassign : BOOLEAN,
                               keys : SUBSET Drivers]]
      /\ \A q \in Rides : cancel'[q].pc = "save" => cancel'[q] = cancel[q]
  BY <1>1 DEF IInv, TypeOK
<1>3. /\ tap' \in [Taps -> {NoTap} \cup
                       [pc : {"delete", "publish"}, ride : Rides,
                        driver : Drivers, says : {"accepted", "declined"}]]
      /\ accepted' \in [Rides -> [Drivers -> Nat]]
      /\ \A q \in Rides, d \in Drivers : accepted[q][d] <= accepted'[q][d]
      /\ UNCHANGED offered
  BY <1>1 DEF IInv, TypeOK, seenVars
<1>4. "cancelled" \in Answers /\ Drivers \in SUBSET Drivers
  BY DEF Answers
<1>5. QED
  BY <1>1, <1>2, <1>3, <1>4, PublishKeeps

\* Between the reload and the UPDATE of save(), a driver is in the row only
\* with the trip of the assignment.
LEMMA ReloadKeeps == ASSUME IInv, NEW r \in Rides, ReloadForSave(r) PROVE IInv'
<1> DEFINE b == ride[r] # "CANCELLED"
           u == rideDriver[r] # Null
           c == [cancel[r] EXCEPT !.pc = "save", !.restatus = b, !.unassign = u]
<1>1. /\ cancel' = [cancel EXCEPT ![r].pc = "save", ![r].restatus = b, ![r].unassign = u]
      /\ UNCHANGED <<dbVars, kafkaVars, lock, declined, offerKey, fresh, busy,
                     worker, tap, seenVars, countVars>>
  BY Zenon DEF ReloadForSave
<1>2. /\ b \in BOOLEAN /\ (b <=> ride[r] # "CANCELLED")
      /\ u \in BOOLEAN /\ (u <=> rideDriver[r] # Null)
  BY Zenon
<1> HIDE DEF b, u
<1>3. /\ c \in [pc : {"save"}, restatus : BOOLEAN, unassign : BOOLEAN, keys : SUBSET Drivers]
      /\ (c.restatus <=> ride[r] # "CANCELLED") /\ (c.unassign <=> rideDriver[r] # Null)
      /\ cancel' = [cancel EXCEPT ![r] = c]
  <2>1. cancel[r] \in [pc : {"idle", "reload", "save", "publish", "keys", "delete"},
                       restatus : BOOLEAN, unassign : BOOLEAN, keys : SUBSET Drivers]
    BY DEF IInv, TypeOK
  <2>2. /\ c \in [pc : {"save"}, restatus : BOOLEAN, unassign : BOOLEAN, keys : SUBSET Drivers]
        /\ c.restatus = b /\ c.unassign = u
    BY <1>2, <2>1
  <2>3. cancel' = [cancel EXCEPT ![r] = c]
    BY <1>1 DEF IInv, TypeOK
  <2>4. QED
    BY <1>2, <2>2, <2>3
<1> HIDE DEF c
<1>4. /\ cancel' \in [Rides -> [pc : {"idle", "reload", "save", "publish", "keys", "delete"},
                               restatus : BOOLEAN, unassign : BOOLEAN,
                               keys : SUBSET Drivers]]
      /\ cancel'[r] = c /\ \A q \in Rides \ {r} : cancel'[q] = cancel[q]
  <2>1. c \in [pc : {"idle", "reload", "save", "publish", "keys", "delete"},
               restatus : BOOLEAN, unassign : BOOLEAN, keys : SUBSET Drivers]
    BY <1>3
  <2>2. cancel' = [cancel EXCEPT ![r] = c]
    BY <1>3
  <2>3. QED
    BY <2>1, <2>2 DEF IInv, TypeOK
<1>5. TypeOK'
  BY <1>1, <1>4 DEF IInv, TypeOK, dbVars, kafkaVars, seenVars, countVars
<1>6. \A q \in Rides, d \in Drivers : accepted[q][d] <= accepted'[q][d]
  BY <1>1 DEF IInv, TypeOK, seenVars
<1>7. \A w \in Workers : RunInv(w)'
  BY <1>1, <1>5, <1>6, RunFrame DEF dbVars, kafkaVars, seenVars
<1>8. RideInv(r)'
  <2>1. RideInv(r)
    BY DEF IInv
  <2>2. QED
    BY <1>1, <1>3, <1>4, <2>1 DEF RideInv, dbVars, kafkaVars, seenVars
<1>9. \A q \in Rides \ {r} : RideInv(q)'
  BY <1>1, <1>4, <1>5, <1>6, RideFrame DEF dbVars, kafkaVars, seenVars
<1>10. OneRunPerRide'
  BY <1>1 DEF IInv, OneRunPerRide
<1>11. QED
  BY <1>5, <1>7, <1>8, <1>9, <1>10 DEF IInv

\* The UPDATE writes the columns that differed at the reload: with the driver
\* it always takes the status to CANCELLED, or finds it there.
LEMMA SaveKeeps == ASSUME IInv, NEW r \in Rides, Save(r) PROVE IInv'
<1>1. /\ cancel[r].pc = "save"
      /\ ride' = IF cancel[r].restatus THEN [ride EXCEPT ![r] = "CANCELLED"] ELSE ride
      /\ rideDriver' = IF cancel[r].unassign THEN [rideDriver EXCEPT ![r] = Null]
                       ELSE rideDriver
      /\ cancel' = [cancel EXCEPT ![r].pc = "publish"]
      /\ UNCHANGED <<trip, kafkaVars, lock, declined, offerKey, fresh, busy,
                     worker, tap, seenVars, countVars>>
  BY DEF Save
<1>2. /\ ride' \in [Rides -> RideStatus \cup {NoRideRow}]
      /\ ride'[r] = IF cancel[r].restatus THEN "CANCELLED" ELSE ride[r]
      /\ \A q \in Rides \ {r} : ride'[q] = ride[q]
  BY <1>1 DEF IInv, TypeOK, RideStatus, TripStatus, FinalStatuses
<1>3. /\ rideDriver' \in [Rides -> Drivers \cup {Null}]
      /\ rideDriver'[r] = IF cancel[r].unassign THEN Null ELSE rideDriver[r]
      /\ \A q \in Rides \ {r} : rideDriver'[q] = rideDriver[q]
  BY <1>1 DEF IInv, TypeOK
<1>4. /\ cancel' \in [Rides -> [pc : {"idle", "reload", "save", "publish", "keys", "delete"},
                               restatus : BOOLEAN, unassign : BOOLEAN,
                               keys : SUBSET Drivers]]
      /\ cancel'[r].pc = "publish" /\ \A q \in Rides \ {r} : cancel'[q] = cancel[q]
  BY <1>1 DEF IInv, TypeOK
<1>5. TypeOK'
  BY <1>1, <1>2, <1>3, <1>4 DEF IInv, TypeOK, kafkaVars, seenVars, countVars
<1>6. \A q \in Rides, d \in Drivers : accepted[q][d] <= accepted'[q][d]
  BY <1>1 DEF IInv, TypeOK, seenVars
<1>7. \A w \in Workers : RunInv(w)'
  BY <1>1, <1>5, <1>6, RunFrame DEF kafkaVars, seenVars
<1>8. RideInv(r)'
  <2>1. RideInv(r)
    BY DEF IInv
  <2>2. /\ cancel[r].unassign => trip[r] # Null /\ (cancel[r].restatus \/ ride[r] = "CANCELLED")
        /\ trip[r] # Null => ride'[r] \in {"DRIVER_ASSIGNED", "CANCELLED"}
        /\ ride'[r] = "DRIVER_ASSIGNED" =>
              ~cancel[r].unassign /\ rideDriver[r] = trip[r] /\ trip[r] # Null
    BY <1>1, <1>2, <2>1 DEF RideInv
  <2>3. QED
    BY <1>1, <1>3, <1>4, <2>1, <2>2 DEF RideInv, kafkaVars, seenVars
<1>9. \A q \in Rides \ {r} : RideInv(q)'
  BY <1>1, <1>2, <1>3, <1>4, <1>5, <1>6, RideFrame DEF kafkaVars, seenVars
<1>10. OneRunPerRide'
  BY <1>1 DEF IInv, OneRunPerRide
<1>11. QED
  BY <1>5, <1>7, <1>8, <1>9, <1>10 DEF IInv

LEMMA CreateKeeps == ASSUME IInv, NEW r \in Rides, CreateRide(r) PROVE IInv'
<1>1. /\ request[r] = "none"
      /\ ride' = [ride EXCEPT ![r] = "REQUESTED"]
      /\ request' = [request EXCEPT ![r] = "saved"]
      /\ UNCHANGED <<rideDriver, trip, deliveries, processed, failedSent, lock,
                     declined, offerKey, fresh, busy, worker, apiVars, seenVars, countVars>>
  BY DEF CreateRide
<1>2. RideInv(r) /\ trip[r] = Null /\ rideDriver[r] = Null
  BY <1>1 DEF IInv, RideInv
<1>3. /\ ride' \in [Rides -> RideStatus \cup {NoRideRow}]
      /\ ride'[r] = "REQUESTED" /\ \A q \in Rides \ {r} : ride'[q] = ride[q]
  BY <1>1 DEF IInv, TypeOK, RideStatus, PreAssignment
<1>4. /\ request' \in [Rides -> {"none", "saved", "sent", "lost"}]
      /\ request'[r] = "saved" /\ \A q \in Rides \ {r} : request'[q] = request[q]
  BY <1>1 DEF IInv, TypeOK
<1>5. TypeOK'
  BY <1>1, <1>3, <1>4 DEF IInv, TypeOK, apiVars, seenVars, countVars
<1>6. \A q \in Rides, d \in Drivers : accepted[q][d] <= accepted'[q][d]
  BY <1>1 DEF IInv, TypeOK, seenVars
<1>7. \A w \in Workers : RunInv(w)'
  BY <1>1, <1>5, <1>6, RunFrame DEF seenVars
<1>8. RideInv(r)'
  BY <1>1, <1>2, <1>3, <1>4 DEF RideInv, apiVars, seenVars
<1>9. \A q \in Rides \ {r} : RideInv(q)'
  BY <1>1, <1>3, <1>4, <1>5, <1>6, RideFrame DEF apiVars, seenVars
<1>10. OneRunPerRide'
  BY <1>1 DEF IInv, OneRunPerRide
<1>11. QED
  BY <1>5, <1>7, <1>8, <1>9, <1>10 DEF IInv
-----------------------------------------------------------------------------
LEMMA InvStep == IInv /\ [Next]_vars => IInv'
<1>1. SUFFICES ASSUME IInv, [Next]_vars PROVE IInv'
  OBVIOUS
<1>2. CASE UNCHANGED vars
  <2>1. UNCHANGED <<dbVars, kafkaVars, lock, declined, offerKey, fresh, busy, worker, apiVars,
                    seenVars, countVars>>
    BY <1>2 DEF vars
  <2>2. TypeOK'
    BY <1>1, <2>1 DEF IInv, TypeOK, dbVars, kafkaVars, apiVars, seenVars, countVars
  <2>3. QED
    BY <1>1, <2>1, <2>2, QuietKeeps DEF kafkaVars, apiVars, seenVars
<1>3. ASSUME NEW r \in Rides,
             \/ CreateRide(r) \/ SendRequest(r) \/ RequestFails(r) \/ LockExpires(r)
             \/ ReadForCancel(r) \/ CancelStep(r) \/ CancelFails(r)
             \/ \E d \in Drivers :
                   \/ OfferExpires(r, d)
                   \/ \E k \in Taps, says \in {"accepted", "declined"} :
                         CheckOffer(k, r, d, says)
      PROVE  IInv'
  <2>1. CASE \E d \in Drivers, k \in Taps, says \in {"accepted", "declined"} :
                CheckOffer(k, r, d, says)
    BY <1>1, <2>1, CheckKeeps
  <2>2. CASE LockExpires(r) \/ \E d \in Drivers : OfferExpires(r, d)
    BY <1>1, <2>2, ExpiryKeeps
  <2>3. CASE CreateRide(r) \/ SendRequest(r) \/ RequestFails(r)
    BY <1>1, <2>3, CreateKeeps, SendKeeps
  <2>4. CASE ReadForCancel(r) \/ CancelStep(r) \/ CancelFails(r)
    BY <1>1, <2>4, CancelKeeps, ReloadKeeps, SaveKeeps, PublishCancelKeeps DEF CancelStep
  <2>5. QED
    BY <1>3, <2>1, <2>2, <2>3, <2>4
<1>4. ASSUME NEW w \in Workers,
             \/ \E r \in Rides : Deliver(w, r)
             \/ RunStep(w) \/ SubscribeFails(w) \/ RunThrows(w) \/ WorkerDies(w)
      PROVE  IInv'
  <2>1. CASE \E r \in Rides : Deliver(w, r)
    BY <1>1, <2>1, DeliverKeeps
  <2>2. CASE Lock(w) \/ Search(w) \/ Subscribe(w) \/ Decline(w)
    BY <1>1, <2>2, LockKeeps, SearchKeeps, SubscribeKeeps, DeclineKeeps
  <2>3. CASE Answered(w) \/ Timeout(w) \/ SubscribeFails(w)
    BY <1>1, <2>3, SettleKeeps
  <2>4. CASE MarkBusy(w) \/ Close(w) \/ SendFailed(w) \/ Unlock(w)
    BY <1>1, <2>4, MarkBusyKeeps, CloseKeeps, SendFailedKeeps, UnlockKeeps
  <2>5. CASE MarkMatching(w) \/ Fail(w) \/ Assign(w) \/ Offer(w)
    <3>1. worker[w].pc # "idle"
      BY <2>5 DEF MarkMatching, Fail, Assign, Offer
    <3>2. PICK r \in Rides : r = worker[w].ride
      BY <1>1, <3>1, RunTypes DEF IInv
    <3>3. QED
      BY <1>1, <2>5, <3>2, MarkMatchingKeeps, FailKeeps, AssignKeeps, OfferKeeps
  <2>6. CASE RunThrows(w) \/ WorkerDies(w)
    BY <1>1, <2>6, RunThrowsKeeps, WorkerDiesKeeps
  <2>7. QED
    BY <1>4, <2>1, <2>2, <2>3, <2>4, <2>5, <2>6 DEF RunStep
<1>5. ASSUME NEW k \in Taps, TapStep(k) \/ TapFails(k) PROVE IInv'
  <2>1. CASE Respond(k)
    <3>1. PICK r, d, says : r = tap[k].ride /\ d = tap[k].driver /\ says = tap[k].says
      OBVIOUS
    <3>2. QED
      BY <1>1, <2>1, <3>1, RespondKeeps
  <2>2. CASE TakeOffer(k) \/ TapFails(k)
    BY <1>1, <2>2, TakeKeeps, TapFailsKeeps
  <2>3. QED
    BY <1>5, <2>1, <2>2 DEF TapStep
<1>6. QED
  BY <1>1, <1>2, <1>3, <1>4, <1>5 DEF Next

\* The strengthening is an invariant: what runs, offers, rows and the two
\* halves of a cancellation know of each other holds in every state.
THEOREM Invariant == Spec => []IInv
<1>1. QED
  BY InvInit, InvStep, PTL DEF Spec

\* Every variable keeps its type, for any number of rides, drivers and workers.
THEOREM TypeCorrect == Spec => []TypeOK
<1>1. IInv => TypeOK
  BY DEF IInv
<1>2. QED
  BY <1>1, Invariant, PTL

\* No ride is worked on by two runs: the mark of the consumer does it, not the
\* lock, which may expire in any state.
THEOREM OneRun == Spec => []OneRunPerRide
<1>1. IInv => OneRunPerRide
  BY DEF IInv
<1>2. QED
  BY <1>1, Invariant, PTL

\* A trip is given only to a driver whose own accept of that ride was published.
THEOREM AssigneeAccepted == Spec => []AssignmentIsAccepted
<1>1. IInv => AssignmentIsAccepted
  BY DEF IInv, RideInv, AssignmentIsAccepted
<1>2. QED
  BY <1>1, Invariant, PTL

\* The row of a ride names the driver of its trip, or a save() of a
\* cancellation that falls around the transaction of the worker made it
\* CANCELLED, with or without that driver: no other disagreement is possible.
THEOREM RowsAgree == Spec => []RideFollowsTrip
<1>1. IInv => RideFollowsTrip
  BY DEF IInv, RideInv, RideFollowsTrip
<1>2. QED
  BY <1>1, Invariant, PTL

\* No driver is asked twice about a ride.
THEOREM AskedOnce == Spec => []NoDriverAskedTwice
<1>1. IInv => NoDriverAskedTwice
  BY DEF IInv, RideInv, NoDriverAskedTwice
<1>2. QED
  BY <1>1, Invariant, PTL

\* The gateway never finds the offers of one ride to two drivers.
THEOREM OneOffer == Spec => []OneOfferAtATime
<1>1. IInv => OneOfferAtATime
  BY DEF IInv, RideInv, OneOfferAtATime
<1>2. QED
  BY <1>1, Invariant, PTL
=============================================================================
