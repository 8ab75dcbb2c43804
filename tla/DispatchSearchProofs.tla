------------------------ MODULE DispatchSearchProofs ------------------------
(***************************************************************************)
(* What Dispatch comes to, on top of the invariant of DispatchProofs: the  *)
(* search asks everyone, a single worker gives a driver one ride, no       *)
(* request is forgotten, an announced failure is final.                    *)
(***************************************************************************)
EXTENDS DispatchProofs, FiniteSetTheorems

\* No list is too short for the drivers there are.
Ample == Cardinality(Drivers) <= OfferLimit /\ OfferLimit <= SearchLimit

\* What a run knows of the drivers within its radius.
Asking(w) ==
    LET run == worker[w]
        r == run.ride
    IN /\ cancels = 0 => run.answer # "cancelled"
       /\ run.pc # "idle" /\ Ample =>
             \A d \in Drivers \ busy :
                /\ run.pc \in {"offer", "decline"} \cup Holding /\ Distance[d] <= Radii[run.round]
                      => offered[r][d] > 0 \/ d \in run.left
                /\ run.pc = "fail" /\ cancels = 0 /\ Distance[d] <= Radii[Len(Radii)]
                      => offered[r][d] > 0

\* What is known of a ride: whoever is taken out of its searches had the offer.
Asked(r) ==
    /\ \A d \in declined[r] : offered[r][d] > 0
    /\ cancels = 0 => cancel[r].pc = "idle"
    /\ Ample /\ ride[r] = "FAILED" /\ cancels = 0 =>
          \A d \in Drivers \ busy : Distance[d] <= Radii[Len(Radii)] => offered[r][d] > 0

AskInv == (\A w \in Workers : Asking(w)) /\ (\A r \in Rides : Asked(r))
-----------------------------------------------------------------------------
\* Nothing is cut from a list whose limit is the number of drivers.
LEMMA NobodyIsCut ==
    ASSUME NEW S \in SUBSET Drivers, NEW n \in Nat, Cardinality(Drivers) <= n
    PROVE  Nearest(S, n) = S
<1>1. SUFFICES ASSUME NEW d \in S
               PROVE  Cardinality({e \in S : Distance[e] < Distance[d]}) < n
  BY DEF Nearest
<1> DEFINE E == {e \in S : Distance[e] < Distance[d]}
<1>2. IsFiniteSet(Drivers \ {d}) /\ Cardinality(Drivers \ {d}) = Cardinality(Drivers) - 1
  BY DriversAssumption, FS_RemoveElement
<1>3. E \subseteq Drivers \ {d}
  BY DistanceAssumption
<1>4. IsFiniteSet(E) /\ Cardinality(E) <= Cardinality(Drivers \ {d})
  BY <1>2, <1>3, FS_Subset
<1>5. Cardinality(E) \in Nat /\ Cardinality(Drivers) \in Nat
  BY <1>4, DriversAssumption, FS_CardinalityType
<1>6. QED
  BY <1>2, <1>4, <1>5

LEMMA CandidatesAreAll ==
    ASSUME Ample, NEW r, NEW round \in DOMAIN Radii
    PROVE  Candidates(r, round) =
              {d \in Drivers \ busy : Distance[d] <= Radii[round]} \ declined[r]
<1> DEFINE S == {d \in Drivers : Distance[d] <= Radii[round]}
<1>1. Cardinality(Drivers) \in Nat
  BY DriversAssumption, FS_CardinalityType
<1>2. Cardinality(Drivers) <= SearchLimit /\ Cardinality(Drivers) <= OfferLimit
  BY <1>1, LimitAssumption DEF Ample
<1>3. S \in SUBSET Drivers /\ S \ busy \in SUBSET Drivers
  OBVIOUS
<1>4. Nearest(S, SearchLimit) = S
  BY <1>2, <1>3, NobodyIsCut, LimitAssumption
<1>5. Nearest(S \ busy, OfferLimit) = S \ busy
  BY <1>2, <1>3, NobodyIsCut, LimitAssumption
<1>6. Candidates(r, round) = (S \ busy) \ declined[r]
  BY <1>4, <1>5 DEF Candidates
<1>7. QED
  BY <1>6

LEMMA AskInit == Init => AskInv
<1>1. SUFFICES ASSUME Init PROVE AskInv
  OBVIOUS
<1>2. \A w \in Workers : worker[w].pc = "idle" /\ worker[w].answer = Null
  BY <1>1 DEF Init, NoRun
<1>3. \A w \in Workers : Asking(w)
  BY <1>2, AnswerAssumption DEF Asking, Answers
<1>4. \A r \in Rides : Asked(r)
  BY <1>1 DEF Init, Asked, NoRideRow, NoCancel
<1>5. QED
  BY <1>3, <1>4 DEF AskInv

\* What the next record of a run says of the list it goes on with.
LEMMA ContinueAsks ==
    ASSUME NEW run \in RunStates, NEW left \in SUBSET Drivers,
           NEW n, n = Continue(run, left)
    PROVE  /\ n.pc = "offer" => n.round = run.round /\ n.left = left
           /\ n.pc = "fail" => left = {} /\ run.round = Len(Radii)
<1>1. CASE left # {}
  BY <1>1 DEF Continue, RunStates
<1>2. CASE left = {} /\ run.round < Len(Radii)
  <2>1. n = [run EXCEPT !.pc = "search", !.left = {}, !.round = @ + 1]
    BY <1>2 DEF Continue
  <2>2. QED
    BY <1>2, <2>1 DEF RunStates
<1>3. CASE left = {} /\ ~(run.round < Len(Radii))
  <2>1. n = [run EXCEPT !.pc = "fail", !.left = {}]
    BY <1>3 DEF Continue
  <2>2. run.round = Len(Radii)
    BY <1>3 DEF RunStates, Radii
  <2>3. QED
    BY <1>3, <2>1, <2>2 DEF RunStates
<1>4. QED
  BY <1>1, <1>2, <1>3
-----------------------------------------------------------------------------
\* Which steps write what the invariant reads.
LEMMA Writers ==
    ASSUME [Next]_vars
    PROVE  /\ offered' = offered \/ \E w \in Workers : Offer(w)
           /\ busy' = busy \/ \E w \in Workers : MarkBusy(w)
           /\ \/ cancels' = cancels /\ cancel' = cancel
              \/ \E r \in Rides : ReadForCancel(r) \/ CancelStep(r) \/ CancelFails(r)
           /\ declined' = declined \/ \E w \in Workers : Decline(w) \/ Unlock(w)
           /\ ride' = ride \/ \/ \E r \in Rides : CreateRide(r) \/ Save(r)
                           \/ \E w \in Workers : MarkMatching(w) \/ Assign(w) \/ Fail(w)
<1>1. CASE UNCHANGED vars
  BY <1>1 DEF vars, dbVars, seenVars, countVars, apiVars
<1>2. ASSUME NEW r \in Rides,
             \/ CreateRide(r) \/ SendRequest(r) \/ RequestFails(r) \/ LockExpires(r)
             \/ ReadForCancel(r) \/ CancelStep(r) \/ CancelFails(r)
             \/ \E d \in Drivers :
                   \/ OfferExpires(r, d)
                   \/ \E k \in Taps, says \in {"accepted", "declined"} :
                         CheckOffer(k, r, d, says)
      PROVE  /\ offered' = offered /\ busy' = busy /\ declined' = declined
             /\ \/ cancels' = cancels /\ cancel' = cancel
                \/ ReadForCancel(r) \/ CancelStep(r) \/ CancelFails(r)
             /\ ride' = ride \/ CreateRide(r) \/ Save(r)
  <2>1. CASE CreateRide(r) \/ SendRequest(r) \/ RequestFails(r) \/ LockExpires(r)
    BY <2>1 DEF CreateRide, SendRequest, RequestFails, LockExpires, dbVars, seenVars, apiVars,
       countVars
  <2>2. CASE ReadForCancel(r) \/ CancelStep(r) \/ CancelFails(r)
    BY <2>2 DEF ReadForCancel, CancelStep, ReloadForSave, Save, PublishCancel, ScanOffers,
       DropOffer, CancelFails, dbVars, seenVars
  <2>3. CASE \E d \in Drivers :
               \/ OfferExpires(r, d)
               \/ \E k \in Taps, says \in {"accepted", "declined"} : CheckOffer(k, r, d, says)
    BY <2>3 DEF OfferExpires, CheckOffer, dbVars, seenVars, apiVars, countVars
  <2>4. QED
    BY <1>2, <2>1, <2>2, <2>3
<1>3. ASSUME NEW w \in Workers,
             \/ \E r \in Rides : Deliver(w, r)
             \/ RunStep(w) \/ SubscribeFails(w) \/ RunThrows(w) \/ WorkerDies(w)
      PROVE  /\ cancels' = cancels /\ cancel' = cancel
             /\ offered' = offered \/ Offer(w)
             /\ busy' = busy \/ MarkBusy(w)
             /\ declined' = declined \/ Decline(w) \/ Unlock(w)
             /\ ride' = ride \/ MarkMatching(w) \/ Assign(w) \/ Fail(w)
  <2>1. CASE \/ \E r \in Rides : Deliver(w, r)
             \/ Lock(w) \/ Search(w) \/ Subscribe(w) \/ Answered(w) \/ Timeout(w)
             \/ Close(w) \/ SendFailed(w) \/ SubscribeFails(w) \/ RunThrows(w) \/ WorkerDies(w)
    BY <2>1 DEF Deliver, Lock, Search, Subscribe, Answered, Timeout, Close, SendFailed,
       SubscribeFails, RunThrows, WorkerDies, dbVars, seenVars, apiVars, countVars
  <2>2. CASE \/ Offer(w) \/ MarkBusy(w) \/ Decline(w) \/ Unlock(w) \/ MarkMatching(w) \/ Assign(w)
             \/ Fail(w)
    BY <2>2 DEF Offer, MarkBusy, Decline, Unlock, MarkMatching, Assign, Fail, dbVars, seenVars,
       apiVars, countVars
  <2>3. QED
    BY <1>3, <2>1, <2>2 DEF RunStep
<1>4. ASSUME NEW k \in Taps, TapStep(k) \/ TapFails(k)
      PROVE  UNCHANGED <<offered, busy, declined, cancels, cancel, ride>>
  BY <1>4 DEF TapStep, TakeOffer, Respond, TapFails, dbVars, seenVars, countVars
<1>5. QED
  BY <1>1, <1>2, <1>3, <1>4 DEF Next

LEMMA Grows ==
    ASSUME IInv, [Next]_vars
    PROVE  /\ \A r \in Rides, d \in Drivers : offered[r][d] > 0 => offered'[r][d] > 0
           /\ busy \subseteq busy'
           /\ cancels' = 0 => cancels = 0 /\ ~\E r \in Rides : ReadForCancel(r)
<1>1. ASSUME NEW r \in Rides, NEW d \in Drivers, offered[r][d] > 0 PROVE offered'[r][d] > 0
  <2>1. CASE offered' = offered
    BY <1>1, <2>1
  <2>2. ASSUME NEW w \in Workers, Offer(w) PROVE offered'[r][d] > 0
    <3>1. PICK e \in Nearest(worker[w].left, 1) :
             offered' = [offered EXCEPT ![worker[w].ride][e] = @ + 1]
      BY <2>2 DEF Offer
    <3>2. offered \in [Rides -> [Drivers -> Nat]]
      BY DEF IInv, TypeOK
    <3>3. QED
      BY <1>1, <3>1, <3>2
  <2>3. QED
    BY <2>1, <2>2, Writers
<1>2. busy \subseteq busy'
  BY Writers DEF MarkBusy, SetBusy
<1>3. cancels' = 0 => cancels = 0 /\ ~\E r \in Rides : ReadForCancel(r)
  <2>1. cancels \in Nat
    BY DEF IInv, TypeOK
  <2>2. CASE \E r \in Rides : ReadForCancel(r)
    BY <2>1, <2>2 DEF ReadForCancel
  <2>3. CASE ~\E r \in Rides : ReadForCancel(r)
    <3>1. cancels' = cancels
      BY <2>3, Writers DEF CancelStep, ReloadForSave, Save, PublishCancel, ScanOffers, DropOffer,
         CancelFails, countVars
    <3>2. QED
      BY <2>3, <3>1
  <2>4. QED
    BY <2>2, <2>3
<1>4. QED
  BY <1>1, <1>2, <1>3

\* A worker whose record a step leaves alone.
LEMMA AskFrame ==
    ASSUME IInv, IInv', [Next]_vars, NEW w \in Workers, Asking(w), worker'[w] = worker[w]
    PROVE  Asking(w)'
<1>1. worker[w].pc # "idle" => worker[w].ride \in Rides
  BY RunTypes DEF IInv
<1>2. QED
  BY <1>1, Grows DEF Asking

\* Who moves a worker: its own step, or a message that it waits for.
LEMMA Movers ==
    ASSUME IInv, [Next]_vars, NEW w \in Workers
    PROVE  \/ worker'[w] = worker[w]
           \/ \E r \in Rides : Deliver(w, r)
           \/ RunStep(w) \/ SubscribeFails(w) \/ RunThrows(w) \/ WorkerDies(w)
           \/ \E r \in Rides : PublishCancel(r)
           \/ \E k \in Taps : Respond(k)
<1>1. worker \in [Workers -> WorkerStates]
  BY DEF IInv, TypeOK
<1>2. ASSUME NEW v \in Workers, v # w,
             \/ \E r \in Rides : Deliver(v, r)
             \/ RunStep(v) \/ SubscribeFails(v) \/ RunThrows(v) \/ WorkerDies(v)
      PROVE  worker'[w] = worker[w]
  <2>1. CASE (\E r \in Rides : Deliver(v, r)) \/ WorkerDies(v) \/ Unlock(v)
    BY <1>1, <1>2, <2>1 DEF Deliver, WorkerDies, Unlock
  <2>2. CASE Lock(v) \/ MarkMatching(v) \/ Subscribe(v) \/ MarkBusy(v) \/ Close(v)
    BY <1>1, <1>2, <2>2 DEF Lock, MarkMatching, Subscribe, MarkBusy, Close, Go
  <2>3. CASE Fail(v) \/ SendFailed(v) \/ RunThrows(v) \/ Assign(v)
    BY <1>1, <1>2, <2>3 DEF Fail, SendFailed, RunThrows, Assign, Go
  <2>4. CASE Answered(v) \/ Timeout(v) \/ SubscribeFails(v)
    BY <1>1, <1>2, <2>4 DEF Answered, Timeout, SubscribeFails, Settle
  <2>5. CASE Search(v) \/ Offer(v) \/ Decline(v)
    BY <1>1, <1>2, <2>5 DEF Search, Offer, Decline
  <2>6. QED
    BY <1>2, <2>1, <2>2, <2>3, <2>4, <2>5 DEF RunStep
<1>3. ASSUME \/ \E r \in Rides :
                  \/ CreateRide(r) \/ SendRequest(r) \/ RequestFails(r) \/ LockExpires(r)
                  \/ ReadForCancel(r) \/ ReloadForSave(r) \/ Save(r) \/ ScanOffers(r)
                  \/ DropOffer(r) \/ CancelFails(r)
                  \/ \E d \in Drivers :
                        \/ OfferExpires(r, d)
                        \/ \E k \in Taps, says \in {"accepted", "declined"} :
                              CheckOffer(k, r, d, says)
             \/ \E k \in Taps : TakeOffer(k) \/ TapFails(k)
             \/ UNCHANGED vars
      PROVE  worker' = worker
  BY <1>3 DEF vars, CreateRide, SendRequest, RequestFails, LockExpires, ReadForCancel,
     ReloadForSave, Save, ScanOffers, DropOffer, CancelFails, OfferExpires, CheckOffer, TakeOffer,
     TapFails
<1>4. QED
  BY <1>2, <1>3 DEF Next, CancelStep, TapStep
-----------------------------------------------------------------------------
(* The steps of a run                                                      *)

\* A run that keeps its list and its radius.
LEMMA AskSameList ==
    ASSUME IInv, IInv', [Next]_vars, NEW w \in Workers, Asking(w), worker[w].pc # "idle",
           worker'[w].ride = worker[w].ride, worker'[w].round = worker[w].round,
           worker'[w].left = worker[w].left,
           cancels' = 0 => worker'[w].answer # "cancelled",
           worker'[w].pc \in {"offer", "decline"} \cup Holding =>
               worker[w].pc \in {"offer", "decline"} \cup Holding,
           worker'[w].pc = "fail" => cancels' # 0
    PROVE  Asking(w)'
<1>1. worker[w].ride \in Rides
  BY RunTypes DEF IInv
<1>2. QED
  BY <1>1, Grows DEF Asking

LEMMA AskGo ==
    ASSUME IInv, IInv', [Next]_vars, NEW w \in Workers, Asking(w), worker[w].pc # "idle",
           NEW pc \in Searching, Go(w, pc),
           pc \in {"offer", "decline"} \cup Holding =>
               worker[w].pc \in {"offer", "decline"} \cup Holding,
           pc = "fail" => cancels' # 0
    PROVE  Asking(w)'
<1>1. worker[w] \in RunStates
  BY RunTypes DEF IInv
<1>2. worker'[w] = [worker[w] EXCEPT !.pc = pc]
  BY GoTypes DEF IInv
<1>3. /\ worker'[w].ride = worker[w].ride /\ worker'[w].round = worker[w].round
      /\ worker'[w].left = worker[w].left /\ worker'[w].answer = worker[w].answer
      /\ worker'[w].pc = pc
  BY <1>1, <1>2 DEF RunStates
<1>4. cancels' = 0 => worker'[w].answer # "cancelled"
  BY <1>3, Grows DEF Asking
<1>5. QED
  BY <1>3, <1>4, AskSameList

\* A worker without a run, or at the beginning of one.
LEMMA AskStart ==
    ASSUME NEW w \in Workers, worker'[w].pc \in {"idle", "lock", "search"},
           worker'[w].answer = Null
    PROVE  Asking(w)'
BY AnswerAssumption DEF Asking, Holding, Answers

LEMMA GoStepAsks ==
    ASSUME IInv, IInv', [Next]_vars, NEW w \in Workers, Asking(w),
           \/ Lock(w) \/ MarkMatching(w) \/ Subscribe(w) \/ Assign(w) \/ MarkBusy(w)
           \/ Fail(w) \/ SendFailed(w) \/ RunThrows(w)
    PROVE  Asking(w)'
<1>1. CASE Lock(w) /\ worker' = [worker EXCEPT ![w] = NoRun]
  BY <1>1, AskStart DEF IInv, TypeOK, NoRun
<1>2. CASE Lock(w) /\ Go(w, "mark")
  BY <1>2, AskGo DEF Lock, Searching, Holding
<1>3. CASE MarkMatching(w) \/ Subscribe(w)
  BY <1>3, AskGo DEF MarkMatching, Subscribe, Searching, Holding
<1>4. CASE Assign(w)
  BY <1>4, AskGo DEF Assign, Searching, Holding
<1>5. CASE MarkBusy(w)
  BY <1>5, AskGo DEF MarkBusy, Searching, Holding
<1>6. CASE Fail(w) \/ SendFailed(w)
  BY <1>6, AskGo DEF Fail, SendFailed, Searching, Holding
<1>7. CASE RunThrows(w)
  BY <1>7, AskGo DEF RunThrows, Searching, Holding
<1>8. QED
  BY <1>1, <1>2, <1>3, <1>4, <1>5, <1>6, <1>7 DEF Lock

\* Only an answer that the rider's cancellation published ends the search.
LEMMA CloseAsks ==
    ASSUME IInv, IInv', [Next]_vars, NEW w \in Workers, Asking(w), Close(w)
    PROVE  Asking(w)'
<1>1. /\ worker[w].pc = "close" /\ Go(w, AfterOffer[worker[w].answer])
      /\ worker[w].answer \in Answers
  BY DEF Close, IInv, RunInv
<1>2. PICK pc \in {"unlock", "fail", "decline"} :
        Go(w, pc) /\ (pc = "fail" => worker[w].answer = "cancelled")
  BY <1>1 DEF AfterOffer, Answers
<1>3. pc = "fail" => cancels' # 0
  BY <1>2, Grows DEF Asking
<1>4. QED
  BY <1>1, <1>2, <1>3, AskGo DEF Searching, Holding

LEMMA SettleAsks ==
    ASSUME IInv, IInv', [Next]_vars, NEW w \in Workers, Asking(w),
           Answered(w) \/ Timeout(w) \/ SubscribeFails(w)
    PROVE  Asking(w)'
<1>1. PICK answer : /\ Settle(w, answer) /\ worker[w].pc \in {"subscribe", "wait"}
                    /\ answer \in {worker[w].answer, "timeout"}
  BY DEF Answered, Timeout, SubscribeFails
<1>2. worker[w] \in RunStates
  BY <1>1, RunTypes DEF IInv
<1>3. worker'[w] = [worker[w] EXCEPT !.answer = answer,
                                     !.pc = IF answer = "accepted" THEN "assign" ELSE "close"]
  BY <1>1 DEF Settle, IInv, TypeOK
<1>4. /\ worker'[w].ride = worker[w].ride /\ worker'[w].round = worker[w].round
      /\ worker'[w].left = worker[w].left /\ worker'[w].answer = answer
      /\ worker'[w].pc \in {"assign", "close"}
  BY <1>2, <1>3 DEF RunStates
<1>5. cancels' = 0 => answer # "cancelled"
  BY <1>1, Grows DEF Asking
<1>6. QED
  BY <1>1, <1>4, <1>5, AskSameList DEF Holding

\* The candidates are all the drivers in the radius who are free and were not
\* asked, so an empty list means that everybody was.
LEMMA SearchAsks ==
    ASSUME IInv, IInv', [Next]_vars, NEW w \in Workers, Asking(w),
           NEW r \in Rides, r = worker[w].ride, Asked(r), Search(w)
    PROVE  Asking(w)'
<1> DEFINE left == Candidates(r, worker[w].round)
           n == Continue(worker[w], left)
<1>1. /\ worker[w].pc = "search" /\ worker' = [worker EXCEPT ![w] = n]
      /\ UNCHANGED <<busy, offered, declined, cancels>>
  BY DEF Search, seenVars, countVars
<1>2. worker[w] \in RunStates /\ RunInv(w)
  BY <1>1, RunTypes DEF IInv
<1>3. left \in SUBSET Drivers
  BY DEF Candidates, Nearest
<1>4. /\ n.pc \in {"offer", "search", "fail"} /\ n.ride = r /\ n.answer = worker[w].answer
      /\ n.pc = "offer" => n.round = worker[w].round /\ n.left = left
      /\ n.pc = "fail" => left = {} /\ worker[w].round = Len(Radii)
  BY <1>2, <1>3, ContinueTypes, ContinueAsks
<1> HIDE DEF n
<1>5. worker'[w] = n
  BY <1>1 DEF IInv, TypeOK
<1>6. worker[w].answer = Null
  BY <1>1, <1>2 DEF RunInv, Between
<1>7. Ample => \A d \in Drivers \ busy :
                  Distance[d] <= Radii[worker[w].round] => offered[r][d] > 0 \/ d \in left
  <2>1. SUFFICES ASSUME Ample PROVE \A d \in Drivers \ busy :
                    Distance[d] <= Radii[worker[w].round] => offered[r][d] > 0 \/ d \in left
    OBVIOUS
  <2>2. worker[w].round \in DOMAIN Radii
    BY <1>2 DEF RunStates
  <2>3. left = {d \in Drivers \ busy : Distance[d] <= Radii[worker[w].round]} \ declined[r]
    BY <2>1, <2>2, CandidatesAreAll
  <2>4. QED
    BY <2>3 DEF Asked
<1> HIDE DEF left
<1>8. cancels' = 0 => worker'[w].answer # "cancelled"
  BY <1>4, <1>5, <1>6, AnswerAssumption DEF Answers
<1>9. CASE n.pc = "offer"
  BY <1>1, <1>4, <1>5, <1>7, <1>8, <1>9 DEF Asking, Holding
<1>10. CASE n.pc = "search"
  BY <1>5, <1>8, <1>10 DEF Asking, Holding
<1>11. CASE n.pc = "fail"
  BY <1>1, <1>4, <1>5, <1>7, <1>8, <1>11 DEF Asking, Holding
<1>12. QED
  BY <1>4, <1>9, <1>10, <1>11

LEMMA DeclineAsks ==
    ASSUME IInv, IInv', [Next]_vars, NEW w \in Workers, Asking(w),
           NEW r \in Rides, r = worker[w].ride, Decline(w)
    PROVE  Asking(w)'
<1> DEFINE left == worker[w].left
           run == [worker[w] EXCEPT !.driver = Null, !.answer = Null]
           n == Continue(run, left)
<1>1. /\ worker[w].pc = "decline" /\ worker' = [worker EXCEPT ![w] = n]
      /\ UNCHANGED <<busy, offered, cancels>>
  BY DEF Decline, seenVars, countVars
<1>2. worker[w] \in RunStates
  BY <1>1, RunTypes DEF IInv
<1>3. /\ run \in RunStates /\ run.ride = r /\ run.answer = Null /\ run.round = worker[w].round
      /\ left \in SUBSET Drivers
  BY <1>2 DEF RunStates
<1> HIDE DEF run
<1>4. /\ n.pc \in {"offer", "search", "fail"} /\ n.ride = r /\ n.answer = Null
      /\ n.pc = "offer" => n.round = worker[w].round /\ n.left = left
      /\ n.pc = "fail" => left = {} /\ worker[w].round = Len(Radii)
  BY <1>3, ContinueTypes, ContinueAsks
<1> HIDE DEF n
<1>5. worker'[w] = n
  BY <1>1 DEF IInv, TypeOK
<1>6. Ample => \A d \in Drivers \ busy :
                  Distance[d] <= Radii[worker[w].round] => offered[r][d] > 0 \/ d \in left
  BY <1>1 DEF Asking
<1> HIDE DEF left
<1>7. cancels' = 0 => worker'[w].answer # "cancelled"
  BY <1>4, <1>5, AnswerAssumption DEF Answers
<1>8. CASE n.pc = "offer"
  BY <1>1, <1>4, <1>5, <1>6, <1>7, <1>8 DEF Asking, Holding
<1>9. CASE n.pc = "search"
  BY <1>5, <1>7, <1>9 DEF Asking, Holding
<1>10. CASE n.pc = "fail"
  BY <1>1, <1>4, <1>5, <1>6, <1>7, <1>10 DEF Asking, Holding
<1>11. QED
  BY <1>4, <1>8, <1>9, <1>10

\* Who leaves the list has the offer.
LEMMA OfferAsks ==
    ASSUME IInv, IInv', [Next]_vars, NEW w \in Workers, Asking(w),
           NEW r \in Rides, r = worker[w].ride, Offer(w)
    PROVE  Asking(w)'
<1>1. PICK d \in worker[w].left :
        /\ offered' = [offered EXCEPT ![r][d] = @ + 1]
        /\ worker' = [worker EXCEPT ![w].pc = "subscribe", ![w].left = @ \ {d},
                                    ![w].driver = d]
  BY DEF Offer, Nearest
<1>2. worker[w].pc = "offer" /\ UNCHANGED <<busy, cancels>>
  BY DEF Offer, countVars
<1>3. worker[w] \in RunStates /\ d \in Drivers
  BY <1>2, RunTypes DEF IInv, RunStates
<1>4. worker'[w] = [worker[w] EXCEPT !.pc = "subscribe", !.left = @ \ {d}, !.driver = d]
  BY <1>1 DEF IInv, TypeOK
<1>5. /\ worker'[w].pc = "subscribe" /\ worker'[w].ride = r /\ worker'[w].round = worker[w].round
      /\ worker'[w].left = worker[w].left \ {d} /\ worker'[w].answer = worker[w].answer
  BY <1>3, <1>4 DEF RunStates
<1>6. /\ offered'[r][d] > 0
      /\ \A e \in Drivers : offered[r][e] > 0 => offered'[r][e] > 0
  <2>1. offered \in [Rides -> [Drivers -> Nat]]
    BY DEF IInv, TypeOK
  <2>2. offered'[r][d] = offered[r][d] + 1 /\ offered[r][d] \in Nat
    BY <1>1, <1>3, <2>1
  <2>3. QED
    BY <2>2, Grows
<1>7. cancels' = 0 => worker'[w].answer # "cancelled"
  BY <1>2, <1>5 DEF Asking
<1>8. QED
  BY <1>2, <1>5, <1>6, <1>7 DEF Asking, Holding

\* A message of the gateway or of a cancellation changes the answer alone, and
\* a cancellation was counted when it began.
LEMMA PublishAsks ==
    ASSUME IInv, IInv', [Next]_vars, AskInv, NEW w \in Workers,
           (\E r \in Rides : PublishCancel(r)) \/ (\E k \in Taps : Respond(k))
    PROVE  Asking(w)'
<1>1. PICK message : /\ worker'[w] \in {worker[w], [worker[w] EXCEPT !.answer = message]}
                     /\ worker'[w] # worker[w] => worker[w].pc = "wait"
                     /\ cancels' = 0 => message # "cancelled"
  <2>1. ASSUME NEW r \in Rides, PublishCancel(r) PROVE cancels' # 0
    BY <2>1, Grows DEF PublishCancel, AskInv, Asked
  <2>2. ASSUME NEW r \in Rides, PublishCancel(r)
        PROVE  /\ worker'[w] \in {worker[w], [worker[w] EXCEPT !.answer = "cancelled"]}
               /\ worker'[w] # worker[w] => worker[w].pc = "wait"
    BY <2>2 DEF PublishCancel, Publish, Listeners
  <2>3. ASSUME NEW k \in Taps, Respond(k)
        PROVE  /\ worker'[w] \in {worker[w], [worker[w] EXCEPT !.answer = tap[k].says]}
               /\ worker'[w] # worker[w] => worker[w].pc = "wait"
               /\ tap[k].says # "cancelled"
    <3>1. tap[k].says \in {"accepted", "declined"}
      BY <2>3 DEF Respond, IInv, TypeOK, NoTap
    <3>2. QED
      BY <2>3, <3>1 DEF Respond, Publish, AnswerReaches, Listeners
  <2>4. QED
    BY <2>1, <2>2, <2>3
<1>2. Asking(w)
  BY DEF AskInv
<1>3. CASE worker'[w] = worker[w]
  BY <1>2, <1>3, AskFrame
<1>4. CASE worker'[w] # worker[w]
  <2>1. worker[w] \in RunStates
    BY <1>1, <1>4, RunTypes DEF IInv
  <2>2. /\ worker'[w].ride = worker[w].ride /\ worker'[w].round = worker[w].round
        /\ worker'[w].left = worker[w].left /\ worker'[w].pc = "wait"
        /\ worker'[w].answer = message /\ worker[w].pc = "wait"
    BY <1>1, <1>4, <2>1 DEF RunStates
  <2>3. QED
    BY <1>1, <1>2, <2>2, AskSameList DEF Holding
<1>5. QED
  BY <1>3, <1>4

LEMMA WorkerAsks ==
    ASSUME IInv, IInv', AskInv, [Next]_vars, NEW w \in Workers PROVE Asking(w)'
<1>1. Asking(w)
  BY DEF AskInv
<1>2. CASE worker'[w] = worker[w]
  BY <1>1, <1>2, AskFrame
<1>3. CASE (\E r \in Rides : Deliver(w, r)) \/ WorkerDies(w) \/ Unlock(w)
  <2>1. \/ worker'[w] = worker[w]
        \/ worker'[w].pc \in {"idle", "lock"} /\ worker'[w].answer = Null
    <3>1. worker \in [Workers -> WorkerStates]
      BY DEF IInv, TypeOK
    <3>2. NoRun \in [pc : {"idle"}, ride : {Null}, round : {1}, left : {{}},
                     driver : {Null}, answer : {Null}]
      BY DEF NoRun
    <3>3. \A r : /\ [NoRun EXCEPT !.pc = "lock", !.ride = r].pc = "lock"
                 /\ [NoRun EXCEPT !.pc = "lock", !.ride = r].answer = Null
      BY <3>2
    <3>4. CASE WorkerDies(w) \/ Unlock(w)
      BY <3>1, <3>2, <3>4 DEF WorkerDies, Unlock
    <3>5. CASE \E r \in Rides : Deliver(w, r)
      BY <3>1, <3>3, <3>5 DEF Deliver
    <3>6. QED
      BY <1>3, <3>4, <3>5
  <2>2. QED
    BY <1>1, <2>1, AskFrame, AskStart
<1>4. CASE \/ Lock(w) \/ MarkMatching(w) \/ Subscribe(w) \/ Assign(w) \/ MarkBusy(w)
           \/ Fail(w) \/ SendFailed(w) \/ RunThrows(w)
  BY <1>1, <1>4, GoStepAsks
<1>5. CASE Answered(w) \/ Timeout(w) \/ SubscribeFails(w) \/ Close(w)
  BY <1>1, <1>5, SettleAsks, CloseAsks
<1>6. CASE Search(w) \/ Decline(w) \/ Offer(w)
  <2>1. worker[w].pc # "idle"
    BY <1>6 DEF Search, Decline, Offer
  <2>2. PICK r \in Rides : r = worker[w].ride
    BY <2>1, RunTypes DEF IInv
  <2>3. Asked(r)
    BY DEF AskInv
  <2>4. QED
    BY <1>1, <1>6, <2>2, <2>3, SearchAsks, DeclineAsks, OfferAsks
<1>7. CASE (\E r \in Rides : PublishCancel(r)) \/ (\E k \in Taps : Respond(k))
  BY <1>7, PublishAsks
<1>8. QED
  BY <1>2, <1>3, <1>4, <1>5, <1>6, <1>7, Movers DEF RunStep
-----------------------------------------------------------------------------
(* What a step may write of a ride                                         *)

LEMMA DeclinedWereAsked ==
    ASSUME IInv, IInv', AskInv, [Next]_vars, NEW r \in Rides, NEW d \in declined'[r]
    PROVE  offered'[r][d] > 0
<1>1. declined \in [Rides -> SUBSET Drivers] /\ d \in Drivers
  BY DEF IInv, TypeOK
<1>2. CASE d \in declined[r]
  BY <1>1, <1>2, Grows DEF AskInv, Asked
<1>3. CASE d \notin declined[r]
  <2>1. PICK w \in Workers : Decline(w) \/ Unlock(w)
    BY <1>3, Writers
  <2>2. Decline(w) /\ worker[w].ride = r /\ worker[w].driver = d
    BY <1>1, <1>3, <2>1 DEF Decline, Unlock
  <2>3. offered[r][d] > 0
    BY <2>2 DEF Decline, IInv, RunInv
  <2>4. QED
    BY <1>1, <2>3, Grows
<1>4. QED
  BY <1>2, <1>3

LEMMA NobodyCancels ==
    ASSUME IInv, AskInv, [Next]_vars, NEW r \in Rides, cancels' = 0
    PROVE  cancel'[r].pc = "idle"
<1>1. \A q \in Rides : cancel[q].pc = "idle"
  BY Grows DEF AskInv, Asked
<1>2. ~\E q \in Rides : ReadForCancel(q) \/ CancelStep(q) \/ CancelFails(q)
  BY <1>1, Grows DEF CancelStep, ReloadForSave, Save, PublishCancel, ScanOffers, DropOffer,
     CancelFails
<1>3. QED
  BY <1>1, <1>2, Writers

LEMMA FailureIsLast ==
    ASSUME IInv, IInv', AskInv, [Next]_vars, NEW r \in Rides, Ample,
           ride'[r] = "FAILED", cancels' = 0,
           NEW d \in Drivers \ busy', Distance[d] <= Radii[Len(Radii)]
    PROVE  offered'[r][d] > 0
<1>1. cancels = 0 /\ d \in Drivers \ busy
  BY Grows
<1>2. CASE ride[r] = "FAILED"
  BY <1>1, <1>2, Grows DEF AskInv, Asked
<1>3. CASE ride[r] # "FAILED"
  <2>1. ride \in [Rides -> RideStatus \cup {NoRideRow}]
    BY DEF IInv, TypeOK
  <2>2. ~\E q \in Rides : CreateRide(q) \/ Save(q)
    BY <1>3, <2>1 DEF CreateRide, Save
  <2>3. ~\E w \in Workers : MarkMatching(w) \/ Assign(w)
    BY <1>3, <2>1 DEF MarkMatching, Assign, AssignRows, dbVars
  <2>4. PICK w \in Workers : Fail(w)
    BY <1>3, <2>2, <2>3, Writers
  <2>5. worker[w].pc = "fail" /\ worker[w].ride = r
    BY <1>3, <2>1, <2>4 DEF Fail
  <2>6. offered[r][d] > 0
    BY <1>1, <2>5 DEF AskInv, Asking
  <2>7. QED
    BY <2>6, Grows
<1>4. QED
  BY <1>2, <1>3

LEMMA AskStep == IInv /\ IInv' /\ AskInv /\ [Next]_vars => AskInv'
<1>1. SUFFICES ASSUME IInv, IInv', AskInv, [Next]_vars PROVE AskInv'
  OBVIOUS
<1>2. \A w \in Workers : Asking(w)'
  BY <1>1, WorkerAsks
<1>3. \A r \in Rides : Asked(r)'
  BY <1>1, DeclinedWereAsked, NobodyCancels, FailureIsLast DEF Asked, Ample
<1>4. QED
  BY <1>2, <1>3 DEF AskInv

\* A ride fails only when every free driver within the largest radius had its
\* offer, unless the rider meddled or a list was too short for them all.
THEOREM SearchIsExhaustive == Spec => []EveryoneIsAsked
<1>1. AskInv => EveryoneIsAsked
  BY DEF AskInv, Asked, Ample, EveryoneIsAsked
<1>2. Spec => []AskInv
  BY AskInit, AskStep, Invariant, PTL DEF Spec
<1>3. QED
  BY <1>1, <1>2, PTL
-----------------------------------------------------------------------------
(* One ride per driver                                                     *)

\* What keeps a driver to one ride when no two runs court it: a run has nobody
\* in hand or on its list whose hash says BUSY, and the driver of a trip is
\* busy, or about to be marked.
Marked(r) == \/ trip[r] \in busy
             \/ \E w \in Workers : /\ worker[w].pc = "busy" /\ worker[w].ride = r
                                   /\ worker[w].driver = trip[r]

BusyInv ==
    /\ \A w \in Workers : Courted(w) \cap busy = {}
    /\ failures = 0 => \A r \in Rides : trip[r] # Null => Marked(r)
    /\ OneRideUnlessFailed

LEMMA BusyInit == Init => BusyInv
<1>1. SUFFICES ASSUME Init PROVE BusyInv
  OBVIOUS
<1>2. busy = {} /\ \A r \in Rides : trip[r] = Null
  BY <1>1 DEF Init
<1>3. QED
  BY <1>2 DEF BusyInv, OneRideUnlessFailed, OneRidePerDriver

\* Failures are counted, never forgotten.
LEMMA FailureCounts == ASSUME [Next]_vars PROVE failures' = failures \/ NewFailure
<1>1. CASE UNCHANGED vars
  BY <1>1 DEF vars, countVars
<1>2. ASSUME NEW r \in Rides,
             \/ CreateRide(r) \/ SendRequest(r) \/ RequestFails(r) \/ LockExpires(r)
             \/ ReadForCancel(r) \/ CancelStep(r) \/ CancelFails(r)
             \/ \E d \in Drivers :
                   \/ OfferExpires(r, d)
                   \/ \E k \in Taps, says \in {"accepted", "declined"} :
                         CheckOffer(k, r, d, says)
      PROVE  failures' = failures \/ NewFailure
  BY <1>2 DEF CreateRide, SendRequest, RequestFails, LockExpires, ReadForCancel, CancelStep,
     ReloadForSave, Save, PublishCancel, ScanOffers, DropOffer, CancelFails, OfferExpires,
     CheckOffer, countVars
<1>3. ASSUME NEW w \in Workers,
             \/ \E r \in Rides : Deliver(w, r)
             \/ RunStep(w) \/ SubscribeFails(w) \/ RunThrows(w) \/ WorkerDies(w)
      PROVE  failures' = failures \/ NewFailure
  BY <1>3 DEF Deliver, RunStep, Lock, MarkMatching, Search, Offer, Subscribe, Answered, Timeout,
     Assign, MarkBusy, Close, Decline, Fail, SendFailed, Unlock, SubscribeFails, RunThrows,
     WorkerDies, countVars
<1>4. ASSUME NEW k \in Taps, TapStep(k) \/ TapFails(k) PROVE failures' = failures \/ NewFailure
  BY <1>4 DEF TapStep, TakeOffer, Respond, TapFails, countVars
<1>5. QED
  BY <1>1, <1>2, <1>3, <1>4 DEF Next

LEMMA UnlessFailed ==
    ASSUME IInv, [Next]_vars, failures' = 0 PROVE failures = 0 /\ ~NewFailure
BY FailureCounts DEF IInv, TypeOK, NewFailure

\* The transaction of a run alone writes a trip.
LEMMA TripWriters == ASSUME [Next]_vars PROVE trip' = trip \/ \E w \in Workers : Assign(w)
<1>1. CASE UNCHANGED vars
  BY <1>1 DEF vars, dbVars
<1>2. ASSUME NEW r \in Rides,
             \/ CreateRide(r) \/ SendRequest(r) \/ RequestFails(r) \/ LockExpires(r)
             \/ ReadForCancel(r) \/ CancelStep(r) \/ CancelFails(r)
             \/ \E d \in Drivers :
                   \/ OfferExpires(r, d)
                   \/ \E k \in Taps, says \in {"accepted", "declined"} :
                         CheckOffer(k, r, d, says)
      PROVE  trip' = trip
  BY <1>2 DEF CreateRide, SendRequest, RequestFails, LockExpires, ReadForCancel, CancelStep,
     ReloadForSave, Save, PublishCancel, ScanOffers, DropOffer, CancelFails, OfferExpires,
     CheckOffer, dbVars
<1>3. ASSUME NEW w \in Workers,
             \/ \E r \in Rides : Deliver(w, r)
             \/ RunStep(w) \/ SubscribeFails(w) \/ RunThrows(w) \/ WorkerDies(w)
      PROVE  trip' = trip \/ Assign(w)
  BY <1>3 DEF Deliver, RunStep, Lock, MarkMatching, Search, Offer, Subscribe, Answered, Timeout,
     MarkBusy, Close, Decline, Fail, SendFailed, Unlock, SubscribeFails, RunThrows, WorkerDies,
     dbVars
<1>4. ASSUME NEW k \in Taps, TapStep(k) \/ TapFails(k) PROVE trip' = trip
  BY <1>4 DEF TapStep, TakeOffer, Respond, TapFails, dbVars
<1>5. QED
  BY <1>1, <1>2, <1>3, <1>4 DEF Next

\* A run that moves on courts nobody new.
LEMMA CourtedGo ==
    ASSUME IInv, NEW w \in Workers, worker[w].pc # "idle", NEW pc \in Searching, Go(w, pc),
           pc \in {"subscribe", "wait", "assign", "busy"} =>
               worker[w].pc \in {"subscribe", "wait", "assign", "busy"},
           pc \in {"offer", "close", "decline"} =>
               worker[w].pc \in Holding \cup {"offer", "decline"}
    PROVE  Courted(w)' \subseteq Courted(w)
<1>1. /\ worker'[w].pc = pc /\ worker'[w].left = worker[w].left
      /\ worker'[w].driver = worker[w].driver
  BY MovedTypes
<1>2. QED
  BY <1>1 DEF Courted, Holding

LEMMA CourtedGoStep ==
    ASSUME IInv, NEW w \in Workers,
           \/ Lock(w) \/ MarkMatching(w) \/ Subscribe(w) \/ Assign(w) \/ MarkBusy(w)
           \/ Close(w) \/ Fail(w) \/ SendFailed(w) \/ RunThrows(w)
    PROVE  Courted(w)' \subseteq Courted(w)
<1>1. CASE Lock(w) /\ worker' = [worker EXCEPT ![w] = NoRun]
  BY <1>1 DEF Courted, NoRun, IInv, TypeOK
<1>2. CASE Lock(w) /\ Go(w, "mark")
  BY <1>2, CourtedGo DEF Lock, Searching
<1>3. CASE MarkMatching(w) \/ Subscribe(w)
  BY <1>3, CourtedGo DEF MarkMatching, Subscribe, Searching
<1>4. CASE Assign(w)
  BY <1>4, CourtedGo DEF Assign, Searching
<1>5. CASE MarkBusy(w)
  BY <1>5, CourtedGo DEF MarkBusy, Searching, Holding
<1>6. CASE Close(w)
  <2>1. PICK pc \in {"unlock", "fail", "decline"} : Go(w, pc) /\ worker[w].pc = "close"
    BY <1>6 DEF Close, AfterOffer, Answers, IInv, RunInv
  <2>2. QED
    BY <2>1, CourtedGo DEF Searching, Holding
<1>7. CASE Fail(w) \/ SendFailed(w)
  BY <1>7, CourtedGo DEF Fail, SendFailed, Searching
<1>8. CASE RunThrows(w)
  BY <1>8, CourtedGo DEF RunThrows, Searching
<1>9. QED
  BY <1>1, <1>2, <1>3, <1>4, <1>5, <1>6, <1>7, <1>8 DEF Lock

\* A driver who is marked busy is no longer courted by the run that marks.
LEMMA MarkedIsDropped ==
    ASSUME IInv, NEW w \in Workers, MarkBusy(w)
    PROVE  worker[w].driver \in Courted(w) /\ worker[w].driver \notin Courted(w)'
<1>1. /\ worker[w].pc = "busy" /\ "close" \in Searching /\ Go(w, "close")
  BY DEF MarkBusy, Searching
<1>2. /\ worker'[w].pc = "close" /\ worker'[w].left = worker[w].left /\ RunInv(w)
  BY <1>1, MovedTypes
<1>3. worker[w].driver \notin worker[w].left
  BY <1>1, <1>2 DEF RunInv, Holding
<1>4. QED
  BY <1>1, <1>2, <1>3 DEF Courted

\* Only a search brings drivers in, and it takes none who is busy.
LEMMA CourtedStep ==
    ASSUME IInv, [Next]_vars, NEW w \in Workers
    PROVE  \/ Courted(w)' \subseteq Courted(w)
           \/ busy' = busy /\ Courted(w)' \cap busy = {}
<1>1. CASE worker'[w] = worker[w]
  BY <1>1 DEF Courted
<1>2. CASE \/ Lock(w) \/ MarkMatching(w) \/ Subscribe(w) \/ Assign(w) \/ MarkBusy(w)
           \/ Close(w) \/ Fail(w) \/ SendFailed(w) \/ RunThrows(w)
  BY <1>2, CourtedGoStep
<1>3. CASE WorkerDies(w) \/ Unlock(w)
  BY <1>3 DEF WorkerDies, Unlock, Courted, NoRun, IInv, TypeOK
<1>4. CASE \E r \in Rides : Deliver(w, r)
  <2>1. worker'[w].pc \in {worker[w].pc, "lock"} /\ worker[w].pc = "idle"
    BY <1>4 DEF Deliver, NoRun, IInv, TypeOK
  <2>2. QED
    BY <2>1 DEF Courted
<1>5. CASE Answered(w) \/ Timeout(w) \/ SubscribeFails(w)
  <2>1. PICK answer : Settle(w, answer) /\ worker[w].pc \in {"subscribe", "wait"}
    BY <1>5 DEF Answered, Timeout, SubscribeFails
  <2>2. worker[w] \in RunStates
    BY <2>1, RunTypes DEF IInv
  <2>3. worker'[w] = [worker[w] EXCEPT !.answer = answer,
                                       !.pc = IF answer = "accepted" THEN "assign" ELSE "close"]
    BY <2>1 DEF Settle, IInv, TypeOK
  <2>4. /\ worker'[w].left = worker[w].left /\ worker'[w].driver = worker[w].driver
        /\ worker'[w].pc \in {"assign", "close"}
    BY <2>2, <2>3 DEF RunStates
  <2>5. QED
    BY <2>1, <2>4 DEF Courted
<1>6. CASE Offer(w)
  <2>1. PICK d \in worker[w].left :
          worker' = [worker EXCEPT ![w].pc = "subscribe", ![w].left = @ \ {d}, ![w].driver = d]
    BY <1>6 DEF Offer, Nearest
  <2>2. worker[w].pc = "offer" /\ worker[w] \in RunStates
    BY <1>6, RunTypes DEF Offer, IInv
  <2>3. worker'[w] = [worker[w] EXCEPT !.pc = "subscribe", !.left = @ \ {d}, !.driver = d]
    BY <2>1 DEF IInv, TypeOK
  <2>4. /\ worker'[w].pc = "subscribe" /\ worker'[w].left = worker[w].left \ {d}
        /\ worker'[w].driver = d
    BY <2>2, <2>3 DEF RunStates
  <2>5. QED
    BY <2>1, <2>2, <2>4 DEF Courted
<1>7. CASE Search(w)
  <2> DEFINE left == Candidates(worker[w].ride, worker[w].round)
             n == Continue(worker[w], left)
  <2>1. /\ worker[w].pc = "search" /\ worker' = [worker EXCEPT ![w] = n] /\ busy' = busy
    BY <1>7 DEF Search
  <2>2. worker[w] \in RunStates
    BY <2>1, RunTypes DEF IInv
  <2>3. left \in SUBSET Drivers /\ left \cap busy = {}
    BY DEF Candidates, Nearest
  <2>4. n.pc \in {"offer", "search", "fail"} /\ n.left = left
    BY <2>2, <2>3, ContinueTypes
  <2>5. worker'[w] = n
    BY <2>1 DEF IInv, TypeOK
  <2> HIDE DEF n, left
  <2>6. QED
    BY <2>1, <2>3, <2>4, <2>5 DEF Courted
<1>8. CASE Decline(w)
  <2> DEFINE left == worker[w].left
             run == [worker[w] EXCEPT !.driver = Null, !.answer = Null]
             n == Continue(run, left)
  <2>1. /\ worker[w].pc = "decline" /\ worker' = [worker EXCEPT ![w] = n]
    BY <1>8 DEF Decline
  <2>2. worker[w] \in RunStates
    BY <2>1, RunTypes DEF IInv
  <2>3. run \in RunStates /\ left \in SUBSET Drivers
    BY <2>2 DEF RunStates
  <2> HIDE DEF run
  <2>4. n.pc \in {"offer", "search", "fail"} /\ n.left = left
    BY <2>3, ContinueTypes
  <2>5. worker'[w] = n
    BY <2>1 DEF IInv, TypeOK
  <2> HIDE DEF n
  <2>6. QED
    BY <2>1, <2>4, <2>5 DEF Courted
<1>9. CASE (\E r \in Rides : PublishCancel(r)) \/ (\E k \in Taps : Respond(k))
  <2>1. PICK message : worker'[w] \in {worker[w], [worker[w] EXCEPT !.answer = message]}
    BY <1>9 DEF PublishCancel, Respond, Publish
  <2>2. /\ worker'[w].pc = worker[w].pc /\ worker'[w].left = worker[w].left
        /\ worker'[w].driver = worker[w].driver
    BY <2>1 DEF IInv, TypeOK, WorkerStates, NoRun
  <2>3. QED
    BY <2>2 DEF Courted
<1>10. QED
  BY <1>1, <1>2, <1>3, <1>4, <1>5, <1>6, <1>7, <1>8, <1>9, Movers DEF RunStep

\* A driver with a trip stays marked, or about to be, until something fails.
LEMMA MarkedStays ==
    ASSUME IInv, [Next]_vars, failures' = 0, NEW r \in Rides, trip'[r] = trip[r], Marked(r)
    PROVE  Marked(r)'
<1>1. CASE trip[r] \in busy
  BY <1>1, Grows DEF Marked
<1>2. ASSUME NEW w \in Workers, worker[w].pc = "busy", worker[w].ride = r,
             worker[w].driver = trip[r]
      PROVE  Marked(r)'
  <2>1. CASE worker'[w] = worker[w]
    BY <1>2, <2>1 DEF Marked
  <2>2. CASE MarkBusy(w)
    BY <1>2, <2>2 DEF MarkBusy, SetBusy, Marked
  <2>3. CASE (\E q \in Rides : PublishCancel(q)) \/ (\E k \in Taps : Respond(k))
    <3>1. worker'[w] = worker[w]
      BY <1>2, <2>3 DEF PublishCancel, Respond, Publish, AnswerReaches, Listeners
    <3>2. QED
      BY <2>1, <3>1
  <2>4. ~SubscribeFails(w) /\ ~RunThrows(w) /\ ~WorkerDies(w)
    BY UnlessFailed DEF SubscribeFails, RunThrows, WorkerDies
  <2>5. ~(RunStep(w) /\ ~MarkBusy(w)) /\ ~\E q \in Rides : Deliver(w, q)
    BY <1>2 DEF RunStep, Deliver, Lock, MarkMatching, Search, Offer, Subscribe, Answered,
       Timeout, Assign, Close, Decline, Fail, SendFailed, Unlock
  <2>6. QED
    BY <2>1, <2>2, <2>3, <2>4, <2>5, Movers
<1>3. QED
  BY <1>1, <1>2 DEF Marked

\* What the transaction of a run does to the trips.
LEMMA AssignWrites ==
    ASSUME IInv, NEW w \in Workers, Assign(w)
    PROVE  /\ worker[w].pc = "assign" /\ worker[w].ride \in Rides
           /\ trip[worker[w].ride] = Null
           /\ worker[w].driver \in Drivers /\ worker[w].driver \in Courted(w)
           /\ trip' = [trip EXCEPT ![worker[w].ride] = worker[w].driver]
           /\ worker'[w].pc = "busy" /\ worker'[w].ride = worker[w].ride
           /\ worker'[w].driver = worker[w].driver
<1>1. worker[w].pc = "assign" /\ RunInv(w)
  BY DEF Assign, IInv
<1>2. worker[w].ride \in Rides
  BY <1>1, RunTypes DEF IInv
<1>3. trip[worker[w].ride] = Null /\ worker[w].driver \in Drivers
  BY <1>1 DEF RunInv, Holding
<1>4. /\ "busy" \in Searching /\ Go(w, "busy")
      /\ trip' = [trip EXCEPT ![worker[w].ride] = worker[w].driver]
  BY <1>3 DEF Assign, AssignRows, Searching
<1>5. QED
  BY <1>1, <1>2, <1>3, <1>4, MovedTypes DEF Courted

\* Who is given a trip had none: a driver with one is busy, and not in the
\* hand of a run, or in the hand of another run, which does not share it.
LEMMA AssigneeIsFree ==
    ASSUME IInv, BusyInv, NoSharedDriver, failures = 0, NEW w \in Workers, Assign(w),
           NEW q \in Rides
    PROVE  trip[q] # worker[w].driver
<1>1. SUFFICES ASSUME trip[q] = worker[w].driver PROVE FALSE
  OBVIOUS
<1>2. worker[w].pc = "assign" /\ worker[w].driver \in Drivers /\ worker[w].driver \in Courted(w)
  BY AssignWrites
<1>3. Marked(q)
  BY <1>1, <1>2, NullAssumption DEF BusyInv
<1>4. trip[q] \notin busy
  BY <1>1, <1>2 DEF BusyInv
<1>5. PICK v \in Workers : worker[v].pc = "busy" /\ worker[v].driver = trip[q]
  BY <1>3, <1>4 DEF Marked
<1>6. v # w /\ worker[v].driver \in Courted(v)
  BY <1>2, <1>5 DEF Courted
<1>7. QED
  BY <1>1, <1>2, <1>5, <1>6 DEF NoSharedDriver

LEMMA BusyStep == IInv /\ BusyInv /\ NoSharedDriver /\ [Next]_vars => BusyInv'
<1>1. SUFFICES ASSUME IInv, BusyInv, NoSharedDriver, [Next]_vars PROVE BusyInv'
  OBVIOUS
<1>2. ASSUME NEW w \in Workers PROVE Courted(w)' \cap busy' = {}
  <2>1. Courted(w) \cap busy = {}
    BY <1>1 DEF BusyInv
  <2>2. CASE busy' = busy
    BY <1>1, <2>1, <2>2, CourtedStep
  <2>3. CASE busy' # busy
    <3>1. PICK v \in Workers : MarkBusy(v)
      BY <1>1, <2>3, Writers
    <3>2. busy' = busy \cup {worker[v].driver}
      BY <3>1 DEF MarkBusy, SetBusy
    <3>3. Courted(w)' \subseteq Courted(w)
      BY <1>1, <2>3, CourtedStep
    <3>4. worker[v].driver \notin Courted(w)'
      <4>1. CASE v = w
        BY <1>1, <3>1, <4>1, MarkedIsDropped
      <4>2. CASE v # w
        BY <1>1, <3>1, <3>3, <4>2, MarkedIsDropped DEF NoSharedDriver
      <4>3. QED
        BY <4>1, <4>2
    <3>5. QED
      BY <2>1, <3>2, <3>3, <3>4
  <2>4. QED
    BY <2>2, <2>3
<1>3. ASSUME failures' = 0, NEW r \in Rides, trip'[r] # Null PROVE Marked(r)'
  <2>1. CASE trip'[r] = trip[r]
    BY <1>1, <1>3, <2>1, MarkedStays, UnlessFailed DEF BusyInv
  <2>2. CASE trip'[r] # trip[r]
    <3>1. PICK w \in Workers : Assign(w)
      BY <1>1, <2>2, TripWriters
    <3>2. trip \in [Rides -> Drivers \cup {Null}]
      BY <1>1 DEF IInv, TypeOK
    <3>3. worker[w].ride = r /\ trip'[r] = worker[w].driver
      BY <1>1, <2>2, <3>1, <3>2, AssignWrites
    <3>4. QED
      BY <1>1, <3>1, <3>3, AssignWrites DEF Marked
  <2>3. QED
    BY <2>1, <2>2
<1>4. OneRideUnlessFailed'
  <2>1. SUFFICES ASSUME failures' = 0, NEW r \in Rides, NEW q \in Rides, r # q,
                        trip'[r] = trip'[q]
                 PROVE  trip'[r] = Null
    BY DEF OneRideUnlessFailed, OneRidePerDriver
  <2>2. failures = 0 /\ OneRidePerDriver
    BY <1>1, <2>1, UnlessFailed DEF BusyInv, OneRideUnlessFailed
  <2>3. CASE trip' = trip
    BY <2>1, <2>2, <2>3 DEF OneRidePerDriver
  <2>4. ASSUME NEW w \in Workers, Assign(w) PROVE trip'[r] = Null
    <3>1. /\ trip' = [trip EXCEPT ![worker[w].ride] = worker[w].driver]
          /\ worker[w].ride \in Rides
      BY <1>1, <2>4, AssignWrites
    <3>2. trip[r] # worker[w].driver /\ trip[q] # worker[w].driver
      BY <1>1, <2>2, <2>4, AssigneeIsFree
    <3>3. trip \in [Rides -> Drivers \cup {Null}]
      BY <1>1 DEF IInv, TypeOK
    <3>4. QED
      BY <2>1, <2>2, <3>1, <3>2, <3>3 DEF OneRidePerDriver
  <2>5. QED
    BY <1>1, <2>3, <2>4, TripWriters
<1>5. QED
  BY <1>2, <1>3, <1>4 DEF BusyInv

\* What keeps the comments' promise in the proof below: as long as no two runs
\* court one driver, the mark BUSY does.
LEMMA NoDriverTwice == Spec /\ []NoSharedDriver => []OneRideUnlessFailed
<1>1. BusyInv => OneRideUnlessFailed
  BY DEF BusyInv
<1>2. Spec /\ []NoSharedDriver => []BusyInv
  BY BusyInit, BusyStep, Invariant, PTL DEF Spec
<1>3. QED
  BY <1>1, <1>2, PTL

\* With a single worker no driver is shared, so it keeps the promise.
COROLLARY OneWorkerOneRide ==
    (\A v, w \in Workers : v = w) => (Spec => []OneRideUnlessFailed)
<1> SUFFICES ASSUME \A v, w \in Workers : v = w
             PROVE  Spec => []OneRideUnlessFailed
  OBVIOUS
<1>1. NoSharedDriver
  BY DEF NoSharedDriver
<1>2. []NoSharedDriver
  BY <1>1, PTL
<1>3. QED
  BY <1>2, NoDriverTwice
-----------------------------------------------------------------------------
(* Nothing is forgotten                                                    *)

\* The outcomes of a ride: a failure counts once it was announced.
Settled(r) == ride[r] \notin PreAssignment /\ (ride[r] = "FAILED" => r \in failedSent)

\* What a run has done for its ride, by its place.
Progress(w) ==
    LET r == worker[w].ride
        pc == worker[w].pc
    IN /\ pc = "lock" => r \notin lock
       /\ pc \in {"search", "offer", "decline", "fail"} \cup Holding => ride[r] # "REQUESTED"
       /\ pc = "busy" => trip[r] # Null
       /\ pc = "close" /\ worker[w].answer = "accepted" => trip[r] # Null
       /\ pc = "sendFailed" => ride[r] \notin PreAssignment
       /\ pc = "unlock" => Settled(r)

\* Who has a ride in hand: its request, its message, its run, or nobody, when
\* it is settled. A ride whose message was not handled has no lock.
InHand(r) ==
    \/ request[r] = "saved"
    \/ request[r] = "sent" /\ r \notin processed
    \/ \E w \in Workers : worker[w].ride = r
    \/ Settled(r)

CarryInv ==
    failures = 0 =>
        /\ \A w \in Workers : Progress(w)
        /\ \A r \in Rides : /\ InHand(r)
                            /\ request[r] = "saved" => r \notin processed
                            /\ r \notin processed => r \notin lock

LEMMA CarryInit == Init => CarryInv
<1>1. SUFFICES ASSUME Init PROVE CarryInv
  OBVIOUS
<1>2. \A w \in Workers : worker[w].pc = "idle"
  BY <1>1 DEF Init, NoRun
<1>3. \A w \in Workers : Progress(w)
  BY <1>2 DEF Progress, Holding
<1>4. \A r \in Rides : InHand(r) /\ r \notin lock /\ r \notin processed
  BY <1>1 DEF Init, InHand, Settled, NoRideRow, PreAssignment
<1>5. QED
  BY <1>3, <1>4 DEF CarryInv

\* Which steps write the messages, the marks and the locks.
LEMMA KeyWriters ==
    ASSUME [Next]_vars
    PROVE  /\ lock' \subseteq lock \/ \E w \in Workers : Lock(w)
           /\ failedSent' = failedSent \/ \E w \in Workers : SendFailed(w)
           /\ failedSent \subseteq failedSent'
           /\ processed' = processed \/ \E w \in Workers, r \in Rides : Deliver(w, r)
           /\ request' = request \/ \E r \in Rides : \/ CreateRide(r) \/ SendRequest(r)
                                                     \/ RequestFails(r)
<1>1. CASE UNCHANGED vars
  BY <1>1 DEF vars, kafkaVars
<1>2. ASSUME NEW r \in Rides,
             \/ CreateRide(r) \/ SendRequest(r) \/ RequestFails(r) \/ LockExpires(r)
             \/ ReadForCancel(r) \/ CancelStep(r) \/ CancelFails(r)
             \/ \E d \in Drivers :
                   \/ OfferExpires(r, d)
                   \/ \E k \in Taps, says \in {"accepted", "declined"} :
                         CheckOffer(k, r, d, says)
      PROVE  /\ lock' \subseteq lock /\ failedSent' = failedSent /\ processed' = processed
             /\ request' = request \/ CreateRide(r) \/ SendRequest(r) \/ RequestFails(r)
  BY <1>2 DEF CreateRide, SendRequest, RequestFails, LockExpires, ReadForCancel, CancelStep,
     ReloadForSave, Save, PublishCancel, ScanOffers, DropOffer, CancelFails, OfferExpires,
     CheckOffer, kafkaVars
<1>3. ASSUME NEW w \in Workers,
             \/ \E r \in Rides : Deliver(w, r)
             \/ RunStep(w) \/ SubscribeFails(w) \/ RunThrows(w) \/ WorkerDies(w)
      PROVE  /\ lock' \subseteq lock \/ Lock(w)
             /\ failedSent' = failedSent \/ SendFailed(w)
             /\ failedSent \subseteq failedSent'
             /\ processed' = processed \/ \E r \in Rides : Deliver(w, r)
             /\ request' = request
  BY <1>3 DEF Deliver, RunStep, Lock, MarkMatching, Search, Offer, Subscribe, Answered, Timeout,
     Assign, MarkBusy, Close, Decline, Fail, SendFailed, Unlock, SubscribeFails, RunThrows,
     WorkerDies, kafkaVars
<1>4. ASSUME NEW k \in Taps, TapStep(k) \/ TapFails(k)
      PROVE  UNCHANGED <<lock, failedSent, processed, request>>
  BY <1>4 DEF TapStep, TakeOffer, Respond, TapFails, kafkaVars
<1>5. QED
  BY <1>1, <1>2, <1>3, <1>4 DEF Next

\* Who may write the status of a ride: its creation, its cancellation, and the
\* run that works on it.
LEMMA StatusWriters ==
    ASSUME IInv, [Next]_vars, NEW r \in Rides
    PROVE  \/ ride'[r] \in {ride[r], "CANCELLED"}
           \/ CreateRide(r)
           \/ \E w \in Workers : /\ worker[w].ride = r
                                 /\ MarkMatching(w) \/ Assign(w) \/ Fail(w)
<1>1. ride \in [Rides -> RideStatus \cup {NoRideRow}]
  BY DEF IInv, TypeOK
<1>2. CASE ride' = ride
  BY <1>2
<1>3. ASSUME NEW q \in Rides, CreateRide(q) PROVE q = r \/ ride'[r] = ride[r]
  BY <1>1, <1>3 DEF CreateRide
<1>4. ASSUME NEW q \in Rides, Save(q) PROVE ride'[r] \in {ride[r], "CANCELLED"}
  BY <1>1, <1>4 DEF Save
<1>5. ASSUME NEW w \in Workers, MarkMatching(w) \/ Assign(w) \/ Fail(w), worker[w].ride # r
      PROVE  ride'[r] = ride[r]
  <2>1. CASE MarkMatching(w)
    BY <1>1, <1>5, <2>1 DEF MarkMatching
  <2>2. CASE Assign(w)
    BY <1>1, <1>5, <2>2 DEF Assign, AssignRows, dbVars
  <2>3. CASE Fail(w)
    BY <1>1, <1>5, <2>3 DEF Fail
  <2>4. QED
    BY <1>5, <2>1, <2>2, <2>3
<1>6. QED
  BY <1>2, <1>3, <1>4, <1>5, Writers

\* A trip that is there stays there.
LEMMA TripStays ==
    ASSUME IInv, [Next]_vars, NEW r \in Rides, trip[r] # Null PROVE trip'[r] # Null
<1>1. trip \in [Rides -> Drivers \cup {Null}]
  BY DEF IInv, TypeOK
<1>2. ASSUME NEW w \in Workers, Assign(w) PROVE trip'[r] # Null
  BY <1>1, <1>2, AssignWrites
<1>3. QED
  BY <1>2, TripWriters

\* A run that a step leaves where it is: nobody else writes for its ride but a
\* cancellation.
LEMMA ProgressFrame ==
    ASSUME IInv, [Next]_vars, NEW w \in Workers, worker'[w] = worker[w], Progress(w)
    PROVE  Progress(w)'
<1> DEFINE r == worker[w].ride
<1>1. SUFFICES ASSUME worker[w].pc # "idle" PROVE Progress(w)'
  BY DEF Progress, Holding
<1>2. r \in Rides /\ r \in processed
  BY <1>1, RunTypes DEF IInv, RunInv
<1>3. ~CreateRide(r)
  BY <1>2 DEF CreateRide, IInv, RideInv
<1>4. ASSUME NEW v \in Workers, worker[v].ride = r PROVE v = w
  BY <1>1, <1>4, RunTypes DEF IInv, OneRunPerRide
<1>5. ~MarkMatching(w) /\ ~Assign(w) /\ ~Fail(w) /\ ~(Lock(w) /\ Go(w, "mark"))
  BY <1>1, MovedTypes DEF MarkMatching, Assign, Fail, Lock, Searching
<1>6. ~Lock(w)
  BY <1>1, <1>5 DEF Lock, NoRun, IInv, TypeOK
<1>7. ride'[r] \in {ride[r], "CANCELLED"}
  BY <1>2, <1>3, <1>4, <1>5, StatusWriters
<1>8. r \in lock' => r \in lock
  BY <1>4, <1>6, KeyWriters DEF Lock
<1>9. trip[r] # Null => trip'[r] # Null
  BY <1>2, TripStays
<1>10. Settled(r) => ride'[r] \notin PreAssignment /\ (ride'[r] = "FAILED" => r \in failedSent')
  BY <1>7, KeyWriters DEF Settled, PreAssignment
<1>11. QED
  BY <1>7, <1>8, <1>9, <1>10 DEF Progress, Settled, PreAssignment

\* The run gets the lock: the mark of the event let nobody else take it.
LEMMA LockProgress ==
    ASSUME IInv, NEW w \in Workers, Progress(w), Lock(w)
    PROVE  Progress(w)' /\ worker'[w].ride = worker[w].ride
<1>1. Go(w, "mark") /\ worker[w].pc = "lock" /\ "mark" \in Searching
  BY DEF Lock, Progress, Searching
<1>2. worker'[w].pc = "mark" /\ worker'[w].ride = worker[w].ride
  BY <1>1, MovedTypes
<1>3. QED
  BY <1>2 DEF Progress, Holding

\* The steps that find their ride out of REQUESTED and leave its status alone.
LEMMA MoveProgress ==
    ASSUME IInv, NEW w \in Workers, Progress(w), NEW r \in Rides, r = worker[w].ride,
           worker'[w].ride = r, UNCHANGED dbVars,
           worker[w].pc \in {"search", "offer", "decline"} \cup Holding,
           worker'[w].pc \in {"search", "offer", "decline", "fail"} \cup Holding,
           worker'[w].pc # "busy",
           worker'[w].pc = "close" /\ worker'[w].answer = "accepted" => trip[r] # Null
    PROVE  Progress(w)'
BY DEF Progress, Holding, dbVars

\* Where the steps of the search lead a run.
LEMMA OfferMoves ==
    ASSUME IInv, NEW w \in Workers, NEW r \in Rides, r = worker[w].ride, Offer(w)
    PROVE  /\ worker[w].pc = "offer" /\ UNCHANGED dbVars
           /\ worker'[w].pc = "subscribe" /\ worker'[w].ride = r
<1>1. PICK d \in worker[w].left :
        worker' = [worker EXCEPT ![w].pc = "subscribe", ![w].left = @ \ {d}, ![w].driver = d]
  BY DEF Offer, Nearest
<1>2. worker[w].pc = "offer" /\ worker[w] \in RunStates /\ UNCHANGED dbVars
  BY RunTypes DEF Offer, IInv
<1>3. worker'[w] = [worker[w] EXCEPT !.pc = "subscribe", !.left = @ \ {d}, !.driver = d]
  BY <1>1 DEF IInv, TypeOK
<1>4. QED
  BY <1>2, <1>3 DEF RunStates

LEMMA ListMoves ==
    ASSUME IInv, NEW w \in Workers, NEW r \in Rides, r = worker[w].ride,
           Search(w) \/ Decline(w)
    PROVE  /\ worker'[w].pc \in {"offer", "search", "fail"} /\ worker'[w].ride = r
           /\ worker[w].pc \in {"search", "decline"} /\ UNCHANGED dbVars
<1>1. PICK run, left : /\ worker' = [worker EXCEPT ![w] = Continue(run, left)]
                       /\ left \in SUBSET Drivers
                       /\ run \in {worker[w], [worker[w] EXCEPT !.driver = Null, !.answer = Null]}
                       /\ worker[w].pc \in {"search", "decline"} /\ UNCHANGED dbVars
  <2>1. CASE Search(w)
    <3>1. Candidates(r, worker[w].round) \in SUBSET Drivers
      BY DEF Candidates, Nearest
    <3>2. QED
      BY <2>1, <3>1 DEF Search
  <2>2. CASE Decline(w)
    <3>1. worker[w].left \in SUBSET Drivers
      BY <2>2, RunTypes DEF Decline, IInv, RunStates
    <3>2. QED
      BY <2>2, <3>1 DEF Decline
  <2>3. QED
    BY <2>1, <2>2
<1>2. run \in RunStates /\ run.ride = r
  BY <1>1, RunTypes DEF IInv, RunStates
<1>3. PICK n : n = Continue(run, left)
  OBVIOUS
<1>4. n.pc \in {"offer", "search", "fail"} /\ n.ride = r
  BY <1>1, <1>2, <1>3, ContinueTypes
<1>5. worker'[w] = n
  BY <1>1, <1>3 DEF IInv, TypeOK
<1>6. QED
  BY <1>1, <1>4, <1>5

LEMMA SettleMoves ==
    ASSUME IInv, NEW w \in Workers, NEW r \in Rides, r = worker[w].ride,
           Answered(w) \/ Timeout(w) \/ SubscribeFails(w)
    PROVE  /\ worker[w].pc \in {"subscribe", "wait"} /\ UNCHANGED dbVars
           /\ worker'[w].ride = r
           /\ worker'[w].pc = IF worker'[w].answer = "accepted" THEN "assign" ELSE "close"
<1>1. PICK answer : /\ Settle(w, answer) /\ worker[w].pc \in {"subscribe", "wait"}
                    /\ UNCHANGED dbVars
  BY DEF Answered, Timeout, SubscribeFails
<1>2. worker[w] \in RunStates
  BY <1>1, RunTypes DEF IInv
<1>3. worker'[w] = [worker[w] EXCEPT !.answer = answer,
                                     !.pc = IF answer = "accepted" THEN "assign" ELSE "close"]
  BY <1>1 DEF Settle, IInv, TypeOK
<1>4. QED
  BY <1>1, <1>2, <1>3 DEF RunStates

LEMMA WaitProgress ==
    ASSUME IInv, NEW w \in Workers, Progress(w), NEW r \in Rides, r = worker[w].ride,
           \/ Subscribe(w) \/ MarkBusy(w) \/ Answered(w) \/ Timeout(w) \/ SubscribeFails(w)
    PROVE  Progress(w)' /\ worker'[w].ride = r
<1>1. CASE Subscribe(w)
  <2>1. /\ Go(w, "wait") /\ "wait" \in Searching /\ worker[w].pc = "subscribe"
        /\ UNCHANGED dbVars
    BY <1>1 DEF Subscribe, Searching
  <2>2. worker'[w].pc = "wait" /\ worker'[w].ride = r
    BY <2>1, MovedTypes
  <2>3. QED
    BY <2>1, <2>2, MoveProgress DEF Holding
<1>2. CASE MarkBusy(w)
  <2>1. /\ Go(w, "close") /\ "close" \in Searching /\ worker[w].pc = "busy"
        /\ UNCHANGED dbVars
    BY <1>2 DEF MarkBusy, Searching
  <2>2. worker'[w].pc = "close" /\ worker'[w].ride = r /\ trip[r] # Null
    BY <2>1, MovedTypes DEF Progress
  <2>3. QED
    BY <2>1, <2>2, MoveProgress DEF Holding
<1>3. CASE Answered(w) \/ Timeout(w) \/ SubscribeFails(w)
  <2>1. /\ worker[w].pc \in {"subscribe", "wait"} /\ UNCHANGED dbVars
        /\ worker'[w].ride = r
        /\ worker'[w].pc = IF worker'[w].answer = "accepted" THEN "assign" ELSE "close"
    BY <1>3, SettleMoves
  <2>2. QED
    BY <2>1, MoveProgress DEF Holding
<1>4. QED
  BY <1>1, <1>2, <1>3

LEMMA ListProgress ==
    ASSUME IInv, NEW w \in Workers, Progress(w), NEW r \in Rides, r = worker[w].ride,
           Search(w) \/ Offer(w) \/ Decline(w)
    PROVE  Progress(w)' /\ worker'[w].ride = r
<1>1. CASE Offer(w)
  BY <1>1, OfferMoves, MoveProgress DEF Holding
<1>2. CASE Search(w) \/ Decline(w)
  BY <1>2, ListMoves, MoveProgress DEF Holding
<1>3. QED
  BY <1>1, <1>2

\* An accepted offer ends a run whose ride has its trip; without a driver the
\* run fails the ride, unless a cancellation came first, and says so.
LEMMA EndProgress ==
    ASSUME IInv, IInv', NEW w \in Workers, Progress(w), NEW r \in Rides, r = worker[w].ride,
           Close(w) \/ Fail(w) \/ SendFailed(w)
    PROVE  Progress(w)' /\ worker'[w].ride = r
<1>1. CASE Close(w)
  <2>1. PICK pc \in {"unlock", "fail", "decline"} :
          /\ Go(w, pc) /\ worker[w].pc = "close" /\ UNCHANGED dbVars
          /\ pc = "unlock" => worker[w].answer = "accepted"
    BY <1>1 DEF Close, AfterOffer, Answers, IInv, RunInv
  <2>2. worker'[w].pc = pc /\ worker'[w].ride = r
    BY <2>1, MovedTypes DEF Searching
  <2>3. CASE pc = "unlock"
    <3>1. trip[r] # Null
      BY <2>1, <2>3 DEF Progress
    <3>2. ride[r] \in {"DRIVER_ASSIGNED", "CANCELLED"}
      BY <3>1 DEF IInv, RideInv
    <3>3. Settled(r)'
      BY <2>1, <3>2 DEF Settled, PreAssignment, dbVars
    <3>4. QED
      BY <2>2, <2>3, <3>3 DEF Progress, Holding
  <2>4. CASE pc # "unlock"
    BY <2>1, <2>2, <2>4, MoveProgress DEF Holding
  <2>5. QED
    BY <2>3, <2>4
<1>2. CASE Fail(w)
  <2>1. /\ worker[w].pc = "fail" /\ Go(w, "sendFailed") /\ "sendFailed" \in Searching
        /\ ride' = IF ride[r] = "MATCHING" THEN [ride EXCEPT ![r] = "FAILED"] ELSE ride
    BY <1>2 DEF Fail, FailsRide, Searching
  <2>2. worker'[w].pc = "sendFailed" /\ worker'[w].ride = r
    BY <2>1, MovedTypes
  <2>3. ride[r] # "REQUESTED"
    BY <2>1 DEF Progress
  <2>4. ride'[r] \notin PreAssignment
    BY <2>1, <2>3 DEF IInv, TypeOK, PreAssignment
  <2>5. QED
    BY <2>2, <2>4 DEF Progress, Holding
<1>3. CASE SendFailed(w)
  <2>1. /\ worker[w].pc = "sendFailed" /\ Go(w, "unlock") /\ "unlock" \in Searching
        /\ failedSent' = failedSent \cup {r} /\ UNCHANGED dbVars
    BY <1>3 DEF SendFailed, Searching
  <2>2. worker'[w].pc = "unlock" /\ worker'[w].ride = r
    BY <2>1, MovedTypes
  <2>3. Settled(r)'
    BY <2>1 DEF Progress, Settled, dbVars
  <2>4. QED
    BY <2>2, <2>3 DEF Progress, Holding
<1>4. QED
  BY <1>1, <1>2, <1>3

LEMMA RowProgress ==
    ASSUME IInv, NEW w \in Workers, Progress(w), NEW r \in Rides, r = worker[w].ride,
           MarkMatching(w) \/ Assign(w)
    PROVE  Progress(w)' /\ worker'[w].ride = r
<1>1. CASE MarkMatching(w)
  <2>1. /\ worker[w].pc = "mark" /\ Go(w, "search") /\ "search" \in Searching
        /\ ride' = [ride EXCEPT ![r] = "MATCHING"]
    BY <1>1 DEF MarkMatching, Searching
  <2>2. worker'[w].pc = "search" /\ worker'[w].ride = r
    BY <2>1, MovedTypes
  <2>3. ride'[r] = "MATCHING"
    BY <2>1 DEF IInv, TypeOK
  <2>4. QED
    BY <2>2, <2>3 DEF Progress, Holding
<1>2. CASE Assign(w)
  <2>1. /\ trip[r] = Null /\ worker'[w].pc = "busy" /\ worker'[w].ride = r
        /\ trip' = [trip EXCEPT ![r] = worker[w].driver] /\ worker[w].driver \in Drivers
    BY <1>2, AssignWrites
  <2>2. ride' = [ride EXCEPT ![r] = "DRIVER_ASSIGNED"]
    BY <1>2, <2>1 DEF Assign, AssignRows
  <2>3. ride'[r] = "DRIVER_ASSIGNED" /\ trip'[r] # Null
    BY <2>1, <2>2, NullAssumption DEF IInv, TypeOK
  <2>4. QED
    BY <2>1, <2>3 DEF Progress, Holding
<1>3. QED
  BY <1>1, <1>2

\* Unless something fails, a run keeps its ride until it unlocks it.
LEMMA ProgressStep ==
    ASSUME IInv, IInv', CarryInv, [Next]_vars, failures' = 0, NEW w \in Workers
    PROVE  /\ Progress(w)'
           /\ worker[w].pc # "idle" => worker'[w].ride = worker[w].ride \/ Unlock(w)
<1>1. Progress(w) /\ failures = 0 /\ ~NewFailure
  BY UnlessFailed DEF CarryInv
<1>2. CASE worker'[w] = worker[w]
  BY <1>1, <1>2, ProgressFrame
<1>3. ASSUME NEW r \in Rides, Deliver(w, r), worker'[w] # worker[w] PROVE Progress(w)'
  <2>1. r \notin processed /\ UNCHANGED lock
    BY <1>3 DEF Deliver, IsProcessed
  <2>2. worker'[w].pc = "lock" /\ worker'[w].ride = r
    BY <1>3 DEF Deliver, NoRun, IInv, TypeOK
  <2>3. r \notin lock'
    BY <1>1, <2>1 DEF CarryInv
  <2>4. QED
    BY <2>2, <2>3 DEF Progress, Holding
<1>4. CASE \E r \in Rides : Deliver(w, r)
  BY <1>2, <1>3, <1>4 DEF Deliver
<1>5. CASE Unlock(w)
  <2>1. worker'[w].pc = "idle"
    BY <1>5 DEF Unlock, NoRun, IInv, TypeOK
  <2>2. QED
    BY <1>5, <2>1 DEF Progress, Holding
<1>6. CASE \/ Lock(w) \/ MarkMatching(w) \/ Search(w) \/ Offer(w) \/ Subscribe(w)
           \/ Answered(w) \/ Timeout(w) \/ Assign(w) \/ MarkBusy(w) \/ Close(w)
           \/ Decline(w) \/ Fail(w) \/ SendFailed(w)
  <2>1. worker[w].pc # "idle"
    BY <1>6 DEF Lock, MarkMatching, Search, Offer, Subscribe, Answered, Timeout, Assign, MarkBusy,
       Close, Decline, Fail, SendFailed
  <2>2. PICK r \in Rides : r = worker[w].ride
    BY <2>1, RunTypes DEF IInv
  <2>3. QED
    BY <1>1, <1>6, <2>2, LockProgress, RowProgress, WaitProgress, ListProgress, EndProgress
<1>7. ~SubscribeFails(w) /\ ~RunThrows(w) /\ ~WorkerDies(w)
  BY <1>1 DEF SubscribeFails, RunThrows, WorkerDies
<1>8. ASSUME (\E r \in Rides : PublishCancel(r)) \/ (\E k \in Taps : Respond(k)),
             worker'[w] # worker[w]
      PROVE  Progress(w)' /\ worker'[w].ride = worker[w].ride
  <2>1. PICK message : /\ worker'[w] = [worker[w] EXCEPT !.answer = message]
                       /\ worker[w].pc = "wait" /\ UNCHANGED dbVars
    BY <1>8 DEF PublishCancel, Respond, Publish, AnswerReaches, Listeners
  <2>2. worker[w] \in RunStates /\ worker[w].ride \in Rides
    BY <2>1, RunTypes DEF IInv
  <2>3. worker'[w].pc = "wait" /\ worker'[w].ride = worker[w].ride
    BY <2>1, <2>2 DEF RunStates
  <2>4. QED
    BY <1>1, <2>1, <2>2, <2>3, MoveProgress DEF Holding
<1>9. QED
  BY <1>2, <1>4, <1>5, <1>6, <1>7, <1>8, Movers DEF RunStep

\* A message is delivered only once it was sent, and locked only after that.
LEMMA MessageStep ==
    ASSUME IInv, CarryInv, [Next]_vars, failures' = 0, NEW r \in Rides
    PROVE  /\ request'[r] = "saved" => r \notin processed'
           /\ r \notin processed' => r \notin lock'
<1>1. failures = 0
  BY UnlessFailed
<1>2. ASSUME request'[r] = "saved" PROVE r \notin processed'
  <2>1. request \in [Rides -> {"none", "saved", "sent", "lost"}]
    BY DEF IInv, TypeOK
  <2>2. CASE request[r] = "saved"
    <3>1. r \notin processed
      BY <1>1, <2>2 DEF CarryInv
    <3>2. QED
      BY <2>2, <3>1, KeyWriters DEF Deliver
  <2>3. CASE request[r] # "saved"
    <3>1. CreateRide(r)
      BY <1>2, <2>1, <2>3, KeyWriters DEF CreateRide, SendRequest, RequestFails
    <3>2. r \notin processed /\ UNCHANGED processed
      BY <3>1 DEF CreateRide, IInv, RideInv
    <3>3. QED
      BY <3>2
  <2>4. QED
    BY <2>2, <2>3
<1>3. ASSUME r \notin processed' PROVE r \notin lock'
  <2>1. r \notin processed
    BY <1>3, KeyWriters DEF Deliver
  <2>2. r \notin lock
    BY <1>1, <2>1 DEF CarryInv
  <2>3. ASSUME NEW w \in Workers, Lock(w) PROVE r \notin lock'
    <3>1. worker[w].ride # r
      BY <2>1, <2>3 DEF Lock, IInv, RunInv
    <3>2. QED
      BY <2>2, <2>3, <3>1 DEF Lock
  <2>4. QED
    BY <2>2, <2>3, KeyWriters
<1>4. QED
  BY <1>2, <1>3

LEMMA InHandStep ==
    ASSUME IInv, IInv', CarryInv, [Next]_vars, failures' = 0, NEW r \in Rides
    PROVE  InHand(r)'
<1>1. InHand(r) /\ failures = 0 /\ ~NewFailure
  BY UnlessFailed DEF CarryInv
<1>2. request \in [Rides -> {"none", "saved", "sent", "lost"}]
  BY DEF IInv, TypeOK
<1>3. ASSUME Settled(r), ~CreateRide(r), \A w \in Workers : worker[w].ride # r
      PROVE  Settled(r)'
  <2>1. ride'[r] \in {ride[r], "CANCELLED"}
    BY <1>3, StatusWriters
  <2>2. QED
    BY <1>3, <2>1, KeyWriters DEF Settled, PreAssignment
<1>4. CASE CreateRide(r)
  BY <1>2, <1>4 DEF CreateRide, InHand
<1>5. ASSUME NEW w \in Workers, worker[w].ride = r PROVE InHand(r)'
  <2>1. worker[w].pc # "idle"
    BY <1>5, RunTypes, NullAssumption DEF IInv
  <2>2. CASE Unlock(w)
    <3>1. worker[w].pc = "unlock" /\ UNCHANGED <<dbVars, kafkaVars>>
      BY <2>2 DEF Unlock
    <3>2. Settled(r)
      BY <1>1, <1>5, <3>1 DEF CarryInv, Progress
    <3>3. QED
      BY <3>1, <3>2 DEF Settled, InHand, dbVars, kafkaVars
  <2>3. QED
    BY <1>5, <2>1, <2>2, ProgressStep DEF InHand
<1>6. ASSUME NEW w \in Workers, NEW q \in Rides, Deliver(w, q), r \notin processed
      PROVE  q # r \/ InHand(r)'
  <2>1. q = r => worker'[w].ride = r
    BY <1>6 DEF Deliver, IsProcessed, NoRun, IInv, TypeOK
  <2>2. QED
    BY <2>1 DEF InHand
<1>7. CASE request[r] = "sent" /\ r \notin processed
  <2>1. request'[r] = "sent"
    BY <1>2, <1>7, KeyWriters DEF CreateRide, SendRequest, RequestFails
  <2>2. CASE r \notin processed'
    BY <2>1, <2>2 DEF InHand
  <2>3. CASE r \in processed'
    <3>1. PICK w \in Workers, q \in Rides : Deliver(w, q)
      BY <1>7, <2>3, KeyWriters
    <3>2. q = r
      BY <1>7, <2>3, <3>1 DEF Deliver
    <3>3. QED
      BY <1>6, <1>7, <3>1, <3>2
  <2>4. QED
    BY <2>2, <2>3
<1>8. CASE request[r] = "saved"
  <2>1. request'[r] \in {"saved", "sent"}
    <3>1. ~\E q \in Rides : RequestFails(q)
      BY <1>1 DEF RequestFails
    <3>2. QED
      BY <1>2, <1>8, <3>1, KeyWriters DEF CreateRide, SendRequest
  <2>2. r \notin processed'
    <3>1. r \notin processed
      BY <1>1, <1>8 DEF CarryInv
    <3>2. QED
      BY <1>8, <3>1, KeyWriters DEF Deliver
  <2>3. QED
    BY <2>1, <2>2 DEF InHand
<1>9. QED
  BY <1>1, <1>3, <1>4, <1>5, <1>7, <1>8 DEF InHand

LEMMA CarryStep == IInv /\ IInv' /\ CarryInv /\ [Next]_vars => CarryInv'
<1>1. SUFFICES ASSUME IInv, IInv', CarryInv, [Next]_vars, failures' = 0
               PROVE  /\ \A w \in Workers : Progress(w)'
                      /\ \A r \in Rides : /\ InHand(r)'
                                          /\ request'[r] = "saved" => r \notin processed'
                                          /\ r \notin processed' => r \notin lock'
  BY DEF CarryInv
<1>2. QED
  BY <1>1, ProgressStep, InHandStep, MessageStep

\* Unless something failed, no ride is forgotten: what RequestIsAnswered needs
\* fairness for is only that whoever has the ride in hand goes on. It is the
\* mark of the event, and not the lock, that hands a ride to one run.
THEOREM NoRideForgotten == Spec => []RequestIsCarried
<1>1. IInv /\ CarryInv => RequestIsCarried
  <2>1. SUFFICES ASSUME IInv, CarryInv, NEW r \in Rides, failures = 0 PROVE InHand(r)
    BY DEF IInv, TypeOK, RequestIsCarried, InHand, Settled
  <2>2. QED
    BY <2>1 DEF CarryInv
<1>2. Spec => []CarryInv
  BY CarryInit, CarryStep, Invariant, PTL DEF Spec
<1>3. QED
  BY <1>1, <1>2, Invariant, PTL
-----------------------------------------------------------------------------
(* An announced failure is final                                           *)

\* Where a run has marked its ride MATCHING and may still assign or fail it.
Seeking == {"search", "offer", "decline", "fail"} \cup Holding

Over == {"FAILED", "CANCELLED"}

\* What a run that looks for a driver may find in the row of its ride, and
\* that only the end of a run knows an announced failure.
Seeks(w) ==
    LET r == worker[w].ride
    IN /\ worker[w].pc \in Seeking /\ trip[r] = Null => ride[r] \in {"MATCHING", "CANCELLED"}
       /\ worker[w].pc = "sendFailed" => ride[r] \in Over
       /\ worker[w].pc \in {"idle", "unlock"} \/ r \notin failedSent

Told(r) == r \in failedSent => r \in processed /\ trip[r] = Null /\ ride[r] \in Over

FailInv == (\A w \in Workers : Seeks(w)) /\ (\A r \in Rides : Told(r))

LEMMA FailInit == Init => FailInv
<1>1. SUFFICES ASSUME Init PROVE FailInv
  OBVIOUS
<1>2. \A w \in Workers : worker[w].pc = "idle"
  BY <1>1 DEF Init, NoRun
<1>3. QED
  BY <1>1, <1>2 DEF Init, FailInv, Seeks, Told, Seeking, Holding

\* The steps between the mark and the end of a search write no row and
\* announce nothing.
LEMMA SeekMoves ==
    ASSUME IInv, NEW w \in Workers, NEW r \in Rides, r = worker[w].ride,
           \/ Search(w) \/ Offer(w) \/ Decline(w) \/ Subscribe(w) \/ MarkBusy(w)
           \/ Answered(w) \/ Timeout(w) \/ SubscribeFails(w) \/ Close(w)
    PROVE  /\ worker[w].pc \in Seeking /\ worker'[w].pc \in Seeking \cup {"unlock"}
           /\ worker'[w].ride = r /\ UNCHANGED <<dbVars, failedSent>>
<1>1. UNCHANGED <<dbVars, failedSent>>
  BY DEF Search, Offer, Decline, Subscribe, MarkBusy, Answered, Timeout, SubscribeFails, Close,
     kafkaVars
<1>2. CASE Search(w) \/ Decline(w)
  BY <1>1, <1>2, ListMoves DEF Seeking
<1>3. CASE Offer(w)
  BY <1>1, <1>3, OfferMoves DEF Seeking, Holding
<1>4. CASE Answered(w) \/ Timeout(w) \/ SubscribeFails(w)
  BY <1>1, <1>4, SettleMoves DEF Seeking, Holding
<1>5. CASE Subscribe(w) \/ MarkBusy(w) \/ Close(w)
  <2>1. PICK pc \in Seeking \cup {"unlock"} : Go(w, pc) /\ worker[w].pc \in Seeking
    BY <1>5 DEF Subscribe, MarkBusy, Close, AfterOffer, Answers, IInv, RunInv, Seeking, Holding
  <2>2. worker[w].pc # "idle" /\ pc \in Searching
    BY <2>1 DEF Seeking, Holding, Searching
  <2>3. QED
    BY <1>1, <2>1, <2>2, MovedTypes
<1>6. QED
  BY <1>2, <1>3, <1>4, <1>5

\* A run that a step leaves where it is.
LEMMA SeeksFrame ==
    ASSUME IInv, [Next]_vars, NEW w \in Workers, worker'[w] = worker[w], Seeks(w)
    PROVE  Seeks(w)'
<1> DEFINE r == worker[w].ride
<1>1. SUFFICES ASSUME worker[w].pc # "idle" PROVE Seeks(w)'
  BY DEF Seeks, Seeking, Holding
<1>2. r \in Rides /\ r \in processed
  BY <1>1, RunTypes DEF IInv, RunInv
<1>3. ~CreateRide(r)
  BY <1>2 DEF CreateRide, IInv, RideInv
<1>4. ASSUME NEW v \in Workers, worker[v].ride = r PROVE v = w
  BY <1>1, <1>4, RunTypes DEF IInv, OneRunPerRide
<1>5. ~MarkMatching(w) /\ ~Assign(w) /\ ~Fail(w) /\ ~SendFailed(w)
  BY <1>1, MovedTypes DEF MarkMatching, Assign, Fail, SendFailed, Searching
<1>6. ride'[r] \in {ride[r], "CANCELLED"}
  BY <1>2, <1>3, <1>4, <1>5, StatusWriters
<1>7. r \in failedSent' => r \in failedSent
  BY <1>4, <1>5, KeyWriters DEF SendFailed
<1>8. trip[r] # Null => trip'[r] # Null
  BY <1>2, TripStays
<1>9. QED
  BY <1>6, <1>7, <1>8 DEF Seeks, Over

\* The steps that write a row of the ride, or announce its failure.
LEMMA SeeksWrites ==
    ASSUME IInv, NEW w \in Workers, Seeks(w), NEW r \in Rides, r = worker[w].ride,
           MarkMatching(w) \/ Assign(w) \/ Fail(w) \/ SendFailed(w)
    PROVE  Seeks(w)'
<1>1. CASE MarkMatching(w)
  <2>1. /\ worker[w].pc = "mark" /\ Go(w, "search") /\ "search" \in Searching
        /\ ride' = [ride EXCEPT ![r] = "MATCHING"] /\ UNCHANGED failedSent
    BY <1>1 DEF MarkMatching, Searching, kafkaVars
  <2>2. worker'[w].pc = "search" /\ worker'[w].ride = r
    BY <2>1, MovedTypes
  <2>3. ride'[r] = "MATCHING"
    BY <2>1 DEF IInv, TypeOK
  <2>4. QED
    BY <2>1, <2>2, <2>3 DEF Seeks
<1>2. CASE Assign(w)
  <2>1. /\ worker[w].pc = "assign" /\ worker'[w].pc = "busy" /\ worker'[w].ride = r
        /\ trip' = [trip EXCEPT ![r] = worker[w].driver] /\ worker[w].driver \in Drivers
    BY <1>2, AssignWrites
  <2>2. trip'[r] # Null /\ UNCHANGED failedSent
    BY <1>2, <2>1, NullAssumption DEF Assign, kafkaVars, IInv, TypeOK
  <2>3. QED
    BY <2>1, <2>2 DEF Seeks
<1>3. CASE Fail(w)
  <2>1. /\ worker[w].pc = "fail" /\ Go(w, "sendFailed") /\ "sendFailed" \in Searching
        /\ ride' = IF ride[r] = "MATCHING" THEN [ride EXCEPT ![r] = "FAILED"] ELSE ride
        /\ UNCHANGED failedSent
    BY <1>3 DEF Fail, FailsRide, Searching, kafkaVars
  <2>2. worker'[w].pc = "sendFailed" /\ worker'[w].ride = r /\ RunInv(w)
    BY <2>1, MovedTypes
  <2>3. trip[r] = Null
    BY <2>1, <2>2 DEF RunInv
  <2>4. ride[r] \in {"MATCHING", "CANCELLED"}
    BY <2>1, <2>3 DEF Seeks, Seeking
  <2>5. ride'[r] \in Over
    BY <2>1, <2>4 DEF Over, IInv, TypeOK
  <2>6. QED
    BY <2>1, <2>2, <2>5 DEF Seeks, Seeking, Holding
<1>4. CASE SendFailed(w)
  <2>1. worker[w].pc = "sendFailed" /\ Go(w, "unlock") /\ "unlock" \in Searching
    BY <1>4 DEF SendFailed, Searching
  <2>2. worker'[w].pc = "unlock"
    BY <2>1, MovedTypes
  <2>3. QED
    BY <2>2 DEF Seeks, Seeking, Holding
<1>5. QED
  BY <1>1, <1>2, <1>3, <1>4

LEMMA SeeksStep ==
    ASSUME IInv, FailInv, [Next]_vars, NEW w \in Workers PROVE Seeks(w)'
<1>1. Seeks(w)
  BY DEF FailInv
<1>2. CASE worker'[w] = worker[w]
  BY <1>1, <1>2, SeeksFrame
<1>3. ASSUME NEW r \in Rides, Deliver(w, r), worker'[w] # worker[w] PROVE Seeks(w)'
  <2>1. r \notin processed /\ UNCHANGED failedSent
    BY <1>3 DEF Deliver, IsProcessed
  <2>2. r \notin failedSent
    BY <2>1 DEF FailInv, Told
  <2>3. worker'[w].pc = "lock" /\ worker'[w].ride = r
    BY <1>3 DEF Deliver, NoRun, IInv, TypeOK
  <2>4. QED
    BY <2>1, <2>2, <2>3 DEF Seeks, Seeking, Holding
<1>4. CASE worker'[w].pc \in {"idle", "unlock"}
  BY <1>4 DEF Seeks, Seeking, Holding
<1>5. CASE Unlock(w) \/ WorkerDies(w)
  <2>1. worker'[w].pc = "idle"
    BY <1>5 DEF Unlock, WorkerDies, NoRun, IInv, TypeOK
  <2>2. QED
    BY <1>4, <2>1
<1>6. CASE RunThrows(w)
  <2>1. Go(w, "unlock") /\ worker[w].pc # "idle" /\ "unlock" \in Searching
    BY <1>6 DEF RunThrows, Searching
  <2>2. QED
    BY <1>4, <2>1, MovedTypes
<1>7. CASE Lock(w)
  <2>1. worker[w].pc = "lock" /\ UNCHANGED failedSent
    BY <1>7 DEF Lock, kafkaVars
  <2>2. CASE worker' = [worker EXCEPT ![w] = NoRun]
    BY <1>4, <2>2 DEF NoRun, IInv, TypeOK
  <2>3. CASE Go(w, "mark")
    <3>1. worker'[w].pc = "mark" /\ worker'[w].ride = worker[w].ride
      BY <2>1, <2>3, MovedTypes DEF Searching
    <3>2. QED
      BY <1>1, <2>1, <3>1 DEF Seeks, Seeking, Holding
  <2>4. QED
    BY <1>7, <2>2, <2>3 DEF Lock
<1>8. ASSUME worker[w].pc \in Seeking, worker'[w].pc \in Seeking \cup {"unlock"},
             worker'[w].ride = worker[w].ride, UNCHANGED <<dbVars, failedSent>>
      PROVE  Seeks(w)'
  BY <1>1, <1>8 DEF Seeks, Seeking, Holding, dbVars
<1>9. CASE \/ Search(w) \/ Offer(w) \/ Decline(w) \/ Subscribe(w) \/ MarkBusy(w)
           \/ Answered(w) \/ Timeout(w) \/ SubscribeFails(w) \/ Close(w)
           \/ MarkMatching(w) \/ Assign(w) \/ Fail(w) \/ SendFailed(w)
  <2>1. worker[w].pc # "idle"
    BY <1>9 DEF Search, Offer, Decline, Subscribe, MarkBusy, Answered, Timeout, SubscribeFails,
       Close, MarkMatching, Assign, Fail, SendFailed
  <2>2. PICK r \in Rides : r = worker[w].ride
    BY <2>1, RunTypes DEF IInv
  <2>3. QED
    BY <1>1, <1>8, <1>9, <2>2, SeekMoves, SeeksWrites
<1>10. ASSUME (\E r \in Rides : PublishCancel(r)) \/ (\E k \in Taps : Respond(k)),
              worker'[w] # worker[w]
       PROVE  Seeks(w)'
  <2>1. PICK message : /\ worker'[w] = [worker[w] EXCEPT !.answer = message]
                       /\ worker[w].pc = "wait" /\ UNCHANGED <<dbVars, failedSent>>
    BY <1>10 DEF PublishCancel, Respond, Publish, AnswerReaches, Listeners, kafkaVars
  <2>2. worker[w] \in RunStates
    BY <2>1, RunTypes DEF IInv
  <2>3. worker'[w].pc = "wait" /\ worker'[w].ride = worker[w].ride
    BY <2>1, <2>2 DEF RunStates
  <2>4. QED
    BY <1>8, <2>1, <2>3 DEF Seeking, Holding
<1>11. QED
  BY <1>2, <1>3, <1>5, <1>6, <1>7, <1>9, <1>10, Movers DEF RunStep

LEMMA ToldStep ==
    ASSUME IInv, FailInv, [Next]_vars, NEW r \in Rides PROVE Told(r)'
<1>1. CASE r \in failedSent
  <2>1. r \in processed /\ trip[r] = Null /\ ride[r] \in Over
    BY <1>1 DEF FailInv, Told
  <2>2. r \in processed'
    BY <2>1, KeyWriters DEF Deliver
  <2>3. \A w \in Workers : worker[w].ride = r => worker[w].pc \in {"idle", "unlock"}
    BY <1>1 DEF FailInv, Seeks
  <2>4. trip'[r] = Null
    <3>1. trip \in [Rides -> Drivers \cup {Null}]
      BY DEF IInv, TypeOK
    <3>2. ASSUME NEW w \in Workers, Assign(w) PROVE trip'[r] = Null
      BY <2>1, <2>3, <3>1, <3>2, AssignWrites
    <3>3. QED
      BY <2>1, <3>2, TripWriters
  <2>5. ride'[r] \in {ride[r], "CANCELLED"}
    <3>1. ~CreateRide(r)
      BY <2>1 DEF CreateRide, IInv, RideInv
    <3>2. \A w \in Workers :
             worker[w].ride = r => ~MarkMatching(w) /\ ~Assign(w) /\ ~Fail(w)
      BY <2>3 DEF MarkMatching, Assign, Fail
    <3>3. QED
      BY <3>1, <3>2, StatusWriters
  <2>6. QED
    BY <2>1, <2>2, <2>4, <2>5 DEF Told, Over
<1>2. ASSUME r \notin failedSent, r \in failedSent' PROVE Told(r)'
  <2>1. PICK w \in Workers : SendFailed(w)
    BY <1>2, KeyWriters
  <2>2. /\ worker[w].pc = "sendFailed" /\ worker[w].ride = r
        /\ UNCHANGED <<dbVars, processed>>
    BY <1>2, <2>1 DEF SendFailed
  <2>3. r \in processed /\ trip[r] = Null
    BY <2>2 DEF IInv, RunInv
  <2>4. ride[r] \in Over
    BY <2>2 DEF FailInv, Seeks
  <2>5. QED
    BY <2>2, <2>3, <2>4 DEF Told, dbVars
<1>3. QED
  BY <1>1, <1>2 DEF Told

\* A failure that was announced is final: the run that announced it was the
\* only one the ride will ever have, and a save() that comes late writes no
\* more than CANCELLED.
THEOREM FailureStays == Spec => []FailureIsFinal
<1>1. IInv /\ FailInv => FailureIsFinal
  BY DEF IInv, TypeOK, FailInv, Told, Over, FailureIsFinal
<1>2. IInv /\ FailInv /\ [Next]_vars => FailInv'
  BY SeeksStep, ToldStep DEF FailInv
<1>3. Spec => []FailInv
  BY FailInit, <1>2, Invariant, PTL DEF Spec
<1>4. QED
  BY <1>1, <1>3, Invariant, PTL
=============================================================================
