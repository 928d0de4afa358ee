-------------------------- MODULE ReportDelivery_proofs --------------------------
(***************************************************************************)
(* Proofs about the delivery endpoint, for any number of tickets, requests *)
(* and faults: its type invariant, that no lock leaks, that it keeps the   *)
(* promise of AtLeastOnceDelivery, how long the claim of a ticket is       *)
(* exclusive, and what the local relay's inbox holds.                      *)
(***************************************************************************)
EXTENDS ReportDelivery, TLAPS

(* What a request that is about to record or to acknowledge a delivery     *)
(* relies on.                                                              *)
DeliveredInOrder ==
  /\ \A r \in Request :
       /\ pc[r] \in {"finishReport", "complete", "confirmDone"} => ticket[r] \in mailed
       /\ pc[r] = "reply" => ticket[r] \in done
  /\ \A t \in Ticket : report[t] # Absent => t \in mailed

(* A request whose rename found no lock did not create the one that may    *)
(* have appeared since, so leaving the handler does not leak it.           *)
LostLockIsLost ==
  \A r \in Request :
    pc[r] = "confirmDone" =>
      \/ lock[ticket[r]] = NoLock
      \/ lock[ticket[r]].creator # r

IInv == TypeOK /\ DeliveredInOrder /\ NoLeakedLock /\ LostLockIsLost

(* The labels of the program counter, for the proofs of each step.         *)
USE DEF At, Goto, Troubles, Fault, files, inbox, history, Holding, Posting, Claiming, Lock

------------------------------------------------------------------------------
(* Initially the invariant holds. *)
LEMMA InitIInv == Init => IInv
BY DeliveryAssumption
   DEF Init, IInv, TypeOK, DeliveredInOrder, NoLeakedLock, LostLockIsLost, File, Absent

(* Every step of the handler keeps the types. *)
LEMMA TypeStep == TypeOK /\ [Next]_vars => TypeOK'
<1> SUFFICES ASSUME TypeOK, [Next]_vars PROVE TypeOK'
  OBVIOUS
<1> USE DeliveryAssumption DEF TypeOK
<1>1. ASSUME NEW r \in Request, NEW t \in Ticket, Receive(r, t) PROVE TypeOK'
  BY <1>1 DEF Receive
<1>2. ASSUME NEW r \in Request, CheckDone(r) \/ RecheckDone(r) \/ LastCheckDone(r)
      PROVE  TypeOK'
  BY <1>2 DEF CheckDone, RecheckDone, LastCheckDone, ExistsDone, Exists, Misreads
<1>3. ASSUME NEW r \in Request, CreateLock(r) \/ RecreateLock(r) PROVE TypeOK'
  <2>1. PICK taken \in {"recheckDone", "idle"} :
          \E here \in {"createLock", "recreateLock"} : OpenExclusive(r, here, taken)
    BY <1>3 DEF CreateLock, RecreateLock
  <2>2. UNCHANGED <<ticket, done, inbox, mailed, told, history>>
    BY <2>1 DEF OpenExclusive
  <2>3. CASE Goto(r, taken) /\ UNCHANGED <<lock, faults>>
    BY <2>2, <2>3
  <2>4. CASE /\ lock' = [lock EXCEPT ![ticket[r]] = [creator |-> r, stale |-> FALSE]]
             /\ Goto(r, "verify")
             /\ UNCHANGED faults
    BY <2>2, <2>4
  <2>5. CASE /\ faults < MaxFaults
             /\ lock' = [lock EXCEPT ![ticket[r]] = [creator |-> Nobody, stale |-> FALSE]]
             /\ Goto(r, "idle")
             /\ faults' = faults + 1
    BY <2>2, <2>5
  <2>6. QED BY <2>1, <2>3, <2>4, <2>5 DEF OpenExclusive
<1>4. ASSUME NEW r \in Request, StatLock(r) \/ RemoveLock(r) PROVE TypeOK'
  BY <1>4 DEF StatLock, RemoveLock
<1>5. ASSUME NEW r \in Request, Verify(r) \/ PostAccepted(r) \/ PostFailed(r)
      PROVE  TypeOK'
  BY <1>5 DEF Verify, Deliver, PostAccepted, PostFailed
<1>6. ASSUME NEW r \in Request, Complete(r) \/ ConfirmDone(r) PROVE TypeOK'
  BY <1>6 DEF Complete, ConfirmDone, Exists, Misreads
<1>7. ASSUME NEW r \in Request, Release(r) \/ Reply(r) PROVE TypeOK'
  BY <1>7 DEF Release, Reply
<1>12. ASSUME NEW r \in Request,
              \/ FindReport(r) \/ StartEvidence(r) \/ FinishEvidence(r)
              \/ StartReport(r) \/ FinishReport(r)
       PROVE  TypeOK'
  <2>1. /\ pc' \in [Request -> {"idle", "reply"} \cup Claiming \cup Holding]
        /\ ticket' \in [Request -> Ticket] /\ lock' \in [Ticket -> Lock \cup {NoLock}]
        /\ done' \subseteq Ticket /\ relay' \in {"email", "local"}
        /\ mailed' \subseteq Ticket /\ told' \subseteq Ticket
        /\ faults' \in 0..MaxFaults
        /\ troubled' \subseteq Ticket /\ misread' \subseteq Ticket
    BY <1>12 DEF FindReport, StartEvidence, FinishEvidence, StartReport, FinishReport,
       Exists, Misreads
  <2>2. evidence' \in [Ticket -> File] /\ report' \in [Ticket -> File]
    <3>1. CASE FindReport(r)
      BY <3>1 DEF FindReport
    <3>2. CASE StartEvidence(r) \/ StartReport(r)
      <4>1. CutBy(r) \in File
        BY DEF CutBy, File
      <4>2. QED BY <3>2, <4>1 DEF StartEvidence, StartReport, Truncated
    <3>3. CASE FinishEvidence(r) \/ FinishReport(r)
      <4>1. Written(evidence, r) \subseteq File /\ Written(report, r) \subseteq File
        BY DEF Written, Whole, File
      <4>2. QED BY <3>3, <4>1 DEF FinishEvidence, FinishReport
    <3>4. QED BY <1>12, <3>1, <3>2, <3>3
  <2>3. QED BY <2>1, <2>2
<1>13. ASSUME NEW r \in Request,
              ClaimFails(r) \/ SaveFails(r) \/ CompleteFails(r) \/ ReleaseFails(r)
       PROVE  TypeOK'
  <2>1. ASSUME ClaimFails(r) \/ SaveFails(r) \/ CompleteFails(r) PROVE TypeOK'
    BY <2>1 DEF ClaimFails, SaveFails, CompleteFails
  <2>2. ASSUME ReleaseFails(r) PROVE TypeOK'
    BY <2>2 DEF ReleaseFails
  <2>3. QED BY <1>13, <2>1, <2>2
<1>8. CASE Crash
  BY <1>8 DEF Crash
<1>9. ASSUME NEW t \in Ticket, AgeLock(t) PROVE TypeOK'
  BY <1>9 DEF AgeLock
<1>10. CASE UNCHANGED vars
  BY <1>10 DEF vars
<1>11. QED
  BY <1>1, <1>2, <1>3, <1>4, <1>5, <1>6, <1>7, <1>8, <1>9, <1>10, <1>12,
     <1>13 DEF Next, Handle

(* Each remaining part of IInv is preserved by every step.                 *)
LEMMA OrderStep == TypeOK /\ DeliveredInOrder /\ [Next]_vars => DeliveredInOrder'
<1> SUFFICES ASSUME TypeOK, DeliveredInOrder, [Next]_vars PROVE DeliveredInOrder'
  OBVIOUS
<1> USE DeliveryAssumption DEF TypeOK, DeliveredInOrder
<1>1. ASSUME NEW r \in Request, NEW t \in Ticket, Receive(r, t)
      PROVE  DeliveredInOrder'
  BY <1>1 DEF Receive
<1>2. ASSUME NEW r \in Request, CheckDone(r) \/ RecheckDone(r) \/ LastCheckDone(r)
      PROVE  DeliveredInOrder'
  BY <1>2 DEF CheckDone, RecheckDone, LastCheckDone, ExistsDone, Exists, Misreads
<1>3. ASSUME NEW r \in Request, CreateLock(r) \/ RecreateLock(r)
      PROVE  DeliveredInOrder'
  BY <1>3 DEF CreateLock, RecreateLock, OpenExclusive
<1>4. ASSUME NEW r \in Request, StatLock(r) \/ RemoveLock(r)
      PROVE  DeliveredInOrder'
  BY <1>4 DEF StatLock, RemoveLock
<1>5. ASSUME NEW r \in Request, Verify(r) \/ PostAccepted(r) \/ PostFailed(r)
      PROVE  DeliveredInOrder'
  BY <1>5 DEF Verify, Deliver, PostAccepted, PostFailed
<1>6. ASSUME NEW r \in Request, Complete(r) \/ ConfirmDone(r)
      PROVE  DeliveredInOrder'
  BY <1>6 DEF Complete, ConfirmDone, Exists, Misreads
<1>7. ASSUME NEW r \in Request, Release(r) \/ Reply(r)
      PROVE  DeliveredInOrder'
  BY <1>7 DEF Release, Reply
<1>12. ASSUME NEW r \in Request,
              \/ FindReport(r) \/ StartEvidence(r) \/ FinishEvidence(r)
              \/ StartReport(r) \/ FinishReport(r)
       PROVE  DeliveredInOrder'
  BY <1>12 DEF FindReport, StartEvidence, FinishEvidence, StartReport, FinishReport,
     Exists, Misreads, Truncated
<1>13. ASSUME NEW r \in Request,
              ClaimFails(r) \/ SaveFails(r) \/ CompleteFails(r) \/ ReleaseFails(r)
       PROVE  DeliveredInOrder'
  BY <1>13 DEF ClaimFails, SaveFails, CompleteFails, ReleaseFails
<1>8. CASE Crash
  BY <1>8 DEF Crash
<1>9. ASSUME NEW t \in Ticket, AgeLock(t) PROVE DeliveredInOrder'
  BY <1>9 DEF AgeLock
<1>10. CASE UNCHANGED vars
  BY <1>10 DEF vars
<1>11. QED
  BY <1>1, <1>2, <1>3, <1>4, <1>5, <1>6, <1>7, <1>8, <1>9, <1>10, <1>12,
     <1>13 DEF Next, Handle

(* Every step keeps the locks accounted for: a live lock has its request, or a
   fault has struck it. *)
LEMMA LeakStep ==
  TypeOK /\ NoLeakedLock /\ LostLockIsLost /\ [Next]_vars
    => NoLeakedLock' /\ LostLockIsLost'
<1> SUFFICES ASSUME TypeOK, NoLeakedLock, LostLockIsLost, [Next]_vars
             PROVE  NoLeakedLock' /\ LostLockIsLost'
  OBVIOUS
<1> USE DeliveryAssumption DEF TypeOK, NoLeakedLock, LostLockIsLost, Holds
<1>1. ASSUME NEW r \in Request, NEW t \in Ticket, Receive(r, t)
      PROVE  NoLeakedLock' /\ LostLockIsLost'
  BY <1>1 DEF Receive
<1>2. ASSUME NEW r \in Request, CheckDone(r) \/ RecheckDone(r) \/ LastCheckDone(r)
      PROVE  NoLeakedLock' /\ LostLockIsLost'
  BY <1>2 DEF CheckDone, RecheckDone, LastCheckDone, ExistsDone, Exists, Misreads
<1>3. ASSUME NEW r \in Request, CreateLock(r) \/ RecreateLock(r)
      PROVE  NoLeakedLock' /\ LostLockIsLost'
  <2>1. NoLeakedLock'
    BY <1>3 DEF CreateLock, RecreateLock, OpenExclusive
  <2>2. LostLockIsLost'
    BY <1>3 DEF CreateLock, RecreateLock, OpenExclusive
  <2>3. QED BY <2>1, <2>2
<1>4. ASSUME NEW r \in Request, StatLock(r) \/ RemoveLock(r)
      PROVE  NoLeakedLock' /\ LostLockIsLost'
  BY <1>4 DEF StatLock, RemoveLock
<1>5. ASSUME NEW r \in Request, Verify(r) \/ PostAccepted(r) \/ PostFailed(r)
      PROVE  NoLeakedLock' /\ LostLockIsLost'
  BY <1>5 DEF Verify, Deliver, PostAccepted, PostFailed
<1>6. ASSUME NEW r \in Request, Complete(r) \/ ConfirmDone(r)
      PROVE  NoLeakedLock' /\ LostLockIsLost'
  BY <1>6 DEF Complete, ConfirmDone, Exists, Misreads
<1>7. ASSUME NEW r \in Request, Release(r) \/ Reply(r)
      PROVE  NoLeakedLock' /\ LostLockIsLost'
  BY <1>7 DEF Release, Reply
<1>12. ASSUME NEW r \in Request,
              \/ FindReport(r) \/ StartEvidence(r) \/ FinishEvidence(r)
              \/ StartReport(r) \/ FinishReport(r)
       PROVE  NoLeakedLock' /\ LostLockIsLost'
  BY <1>12 DEF FindReport, StartEvidence, FinishEvidence, StartReport, FinishReport,
     Exists, Misreads
<1>13. ASSUME NEW r \in Request, ClaimFails(r) \/ SaveFails(r) \/ CompleteFails(r)
       PROVE  NoLeakedLock' /\ LostLockIsLost'
  BY <1>13 DEF ClaimFails, SaveFails, CompleteFails
<1>14. ASSUME NEW r \in Request, ReleaseFails(r)
       PROVE  NoLeakedLock' /\ LostLockIsLost'
  BY <1>14 DEF ReleaseFails
<1>8. CASE Crash
  BY <1>8 DEF Crash
<1>9. ASSUME NEW t \in Ticket, AgeLock(t) PROVE NoLeakedLock' /\ LostLockIsLost'
  BY <1>9 DEF AgeLock
<1>10. CASE UNCHANGED vars
  BY <1>10 DEF vars
<1>11. QED
  BY <1>1, <1>2, <1>3, <1>4, <1>5, <1>6, <1>7, <1>8, <1>9, <1>10, <1>12,
     <1>13, <1>14 DEF Next, Handle

(* So the invariant holds always. *)
LEMMA Invariance == Spec => []IInv
<1>1. IInv /\ [Next]_vars => IInv'
  BY TypeStep, OrderStep, LeakStep DEF IInv
<1>2. QED BY InitIInv, <1>1, PTL DEF Spec

------------------------------------------------------------------------------
(* Every variable of the endpoint keeps its type.                          *)
THEOREM TypeCorrectness == Spec => []TypeOK
<1>1. IInv => TypeOK
  BY DEF IInv
<1>2. QED BY <1>1, Invariance, PTL

(* The handler's release and complete paths leak no lock, even when slow   *)
(* holders lose their lock to a takeover and then release somebody else's. *)
THEOREM LocksDoNotLeak == Spec => []NoLeakedLock
<1>1. IInv => NoLeakedLock
  BY DEF IInv
<1>2. QED BY <1>1, Invariance, PTL

(* The endpoint implements AtLeastOnceDelivery: a 200 is given only for a  *)
(* recorded delivery, a delivery is recorded only for a mailed report, and *)
(* no crash, takeover or double claim undoes either.                       *)
THEOREM DeliveryKeepsPromise == Spec => KeepsPromise
<1>1. Init => Promise!Init
  BY DEF Init, Promise!Init
<1>2. IInv /\ [Next]_vars => [Promise!Next]_(Promise!vars)
  <2> SUFFICES ASSUME IInv, [Next]_vars PROVE [Promise!Next]_(Promise!vars)
    OBVIOUS
  <2> USE DEF IInv, TypeOK, DeliveredInOrder, Promise!Next, Promise!vars
  <2>1. ASSUME NEW r \in Request, NEW t \in Ticket, Receive(r, t)
        PROVE  UNCHANGED Promise!vars
    BY <2>1 DEF Receive
  <2>2. ASSUME NEW r \in Request,
               \/ CheckDone(r) \/ RecheckDone(r) \/ LastCheckDone(r)
               \/ CreateLock(r) \/ RecreateLock(r) \/ StatLock(r)
               \/ RemoveLock(r) \/ ClaimFails(r) \/ Verify(r) \/ FindReport(r)
               \/ StartEvidence(r) \/ FinishEvidence(r) \/ FinishReport(r)
               \/ SaveFails(r) \/ ConfirmDone(r) \/ CompleteFails(r)
               \/ Release(r) \/ ReleaseFails(r)
        PROVE  UNCHANGED Promise!vars
    BY <2>2 DEF CheckDone, RecheckDone, LastCheckDone, ExistsDone, CreateLock,
       RecreateLock, OpenExclusive, StatLock, RemoveLock, ClaimFails, Verify,
       FindReport, StartEvidence, FinishEvidence, FinishReport, SaveFails,
       ConfirmDone, CompleteFails, Release, ReleaseFails
  <2>3. ASSUME NEW r \in Request, PostAccepted(r) \/ PostFailed(r) \/ StartReport(r)
        PROVE  Promise!Mail(ticket[r]) \/ UNCHANGED Promise!vars
    BY <2>3 DEF PostAccepted, PostFailed, StartReport, Promise!Mail
  <2>4. ASSUME NEW r \in Request, Complete(r)
        PROVE  Promise!Record(ticket[r]) \/ UNCHANGED Promise!vars
    BY <2>4 DEF Complete, Promise!Record
  <2>5. ASSUME NEW r \in Request, Reply(r)
        PROVE  Promise!Tell(ticket[r])
    BY <2>5 DEF Reply, Promise!Tell
  <2>6. CASE Crash
    BY <2>6 DEF Crash
  <2>7. ASSUME NEW t \in Ticket, AgeLock(t)
        PROVE  UNCHANGED Promise!vars
    BY <2>7 DEF AgeLock
  <2>8. CASE UNCHANGED vars
    BY <2>8 DEF vars
  <2>9. ASSUME NEW r \in Request PROVE ticket[r] \in Ticket
    OBVIOUS
  <2>10. QED
    BY <2>1, <2>2, <2>3, <2>4, <2>5, <2>6, <2>7, <2>8, <2>9 DEF Next, Handle
<1>3. QED BY <1>1, <1>2, Invariance, PTL DEF Spec, KeepsPromise, Promise!Spec
------------------------------------------------------------------------------
(* Until a delivery of a ticket fails or its lock grows stale, the only    *)
(* step that removes the lock of the undelivered ticket is the one that    *)
(* delivers it.  The invariant follows a request through claim(): one that *)
(* lost the race for the lock sees either the lock or the .done file, and  *)
(* one that holds the claim of an undelivered ticket owns the lock.        *)
NothingStale ==
  \A t \in Ticket \ troubled : lock[t] # NoLock => lock[t].stale = FALSE

LosersWait ==
  \A r \in Request : ticket[r] \notin troubled =>
    /\ pc[r] \in {"recheckDone", "statLock"} =>
         lock[ticket[r]] # NoLock \/ ticket[r] \in done
    /\ pc[r] \in {"removeLock", "lastCheckDone", "recreateLock"} =>
         ticket[r] \in done

HoldersOwn ==
  \A r \in Request : ticket[r] \notin troubled =>
    /\ pc[r] \in {"verify", "complete"} \cup Posting /\ ticket[r] \notin done =>
         /\ lock[ticket[r]] # NoLock
         /\ lock[ticket[r]].creator = r
    /\ pc[r] \in {"confirmDone", "release"} => ticket[r] \in done

ExclusionInv == TypeOK /\ NothingStale /\ LosersWait /\ HoldersOwn

(* What the requests do outside the store.                                 *)
Posts(r) == Verify(r) \/ PostAccepted(r) \/ PostFailed(r)
Saves(r) == \/ FindReport(r) \/ StartEvidence(r) \/ FinishEvidence(r)
            \/ StartReport(r) \/ FinishReport(r) \/ SaveFails(r)
Checks(r) == CheckDone(r) \/ RecheckDone(r) \/ LastCheckDone(r)

(* The steps that touch neither a lock nor a .done file.                   *)
LEMMA QuietStepKeepsExclusion ==
  ASSUME ExclusionInv, UNCHANGED files,
         NEW r \in Request,
         \/ \E t \in Ticket : Receive(r, t)
         \/ Checks(r) \/ StatLock(r) \/ ClaimFails(r) \/ Posts(r) \/ Saves(r)
         \/ ConfirmDone(r) \/ CompleteFails(r) \/ Reply(r)
  PROVE  NothingStale' /\ LosersWait' /\ HoldersOwn'
<1> USE DeliveryAssumption DEF ExclusionInv, TypeOK
<1>1. NothingStale'
  <2>1. troubled \subseteq troubled'
    BY DEF Receive, Checks, CheckDone, RecheckDone, LastCheckDone, ExistsDone, StatLock,
       ClaimFails, Posts, Verify, PostAccepted, PostFailed, Saves, FindReport,
       StartEvidence, FinishEvidence, StartReport, FinishReport, SaveFails,
       ConfirmDone, CompleteFails, Reply
  <2>2. QED BY <2>1 DEF NothingStale
<1>2. CASE \E t \in Ticket : Receive(r, t)
  BY <1>1, <1>2 DEF LosersWait, HoldersOwn, Receive
<1>3. CASE Checks(r) \/ StatLock(r) \/ ClaimFails(r)
  <2>1. LosersWait'
    BY <1>3 DEF NothingStale, LosersWait, Checks, CheckDone, RecheckDone, LastCheckDone,
       ExistsDone, Exists, Misreads, StatLock, ClaimFails
  <2>2. HoldersOwn'
    BY <1>3 DEF HoldersOwn, Checks, CheckDone, RecheckDone, LastCheckDone,
       ExistsDone, Exists, Misreads, StatLock, ClaimFails
  <2>3. QED BY <1>1, <2>1, <2>2
<1>4. CASE Posts(r)
  BY <1>1, <1>4 DEF LosersWait, HoldersOwn, Posts, Verify, Deliver, PostAccepted, PostFailed
<1>5. CASE Saves(r)
  <2>1. LosersWait'
    BY <1>5 DEF LosersWait, Saves, FindReport, Exists, Misreads, StartEvidence,
       FinishEvidence, StartReport, FinishReport, SaveFails
  <2>2. HoldersOwn'
    BY <1>5 DEF HoldersOwn, Saves, FindReport, Exists, Misreads, StartEvidence,
       FinishEvidence, StartReport, FinishReport, SaveFails
  <2>3. QED BY <1>1, <2>1, <2>2
<1>6. CASE ConfirmDone(r) \/ CompleteFails(r) \/ Reply(r)
  BY <1>1, <1>6 DEF LosersWait, HoldersOwn, ConfirmDone, Exists, Misreads, CompleteFails,
     Reply
<1>7. QED BY <1>2, <1>3, <1>4, <1>5, <1>6

(* A lock is fresh when it is created and belongs to the request that goes *)
(* on to hold the claim.                                                   *)
LEMMA NewLock ==
  ASSUME TypeOK, NothingStale, HoldersOwn, NEW r \in Request,
         NEW here, NEW taken \in {"recheckDone", "idle"},
         OpenExclusive(r, here, taken)
  PROVE  NothingStale' /\ HoldersOwn'
<1> USE DeliveryAssumption DEF NothingStale, HoldersOwn, TypeOK
<1>1. CASE Goto(r, taken) /\ UNCHANGED lock
  BY <1>1 DEF OpenExclusive
<1>2. CASE /\ lock[ticket[r]] = NoLock
           /\ lock' = [lock EXCEPT ![ticket[r]] = [creator |-> r, stale |-> FALSE]]
           /\ Goto(r, "verify")
  <2>1. UNCHANGED <<ticket, done, troubled>>
    BY DEF OpenExclusive
  <2>2. NothingStale'
    BY <1>2, <2>1
  <2>3. lock'[ticket[r]] # NoLock /\ lock'[ticket[r]].creator = r
    <3>1. lock'[ticket[r]] = [creator |-> r, stale |-> FALSE]
      BY <1>2
    <3>2. [creator |-> r, stale |-> FALSE] \in Lock
      OBVIOUS
    <3>3. NoLock \notin Lock
      BY DeliveryAssumption
    <3> HIDE DEF Lock
    <3>4. lock'[ticket[r]] # NoLock
      BY <3>1, <3>2, <3>3
    <3>5. QED BY <3>1, <3>4
  <2>4. ASSUME NEW s \in Request,
               ticket[s] \notin troubled,
               pc'[s] \in {"verify", "complete"} \cup Posting, ticket[s] \notin done
        PROVE  lock'[ticket[s]] # NoLock /\ lock'[ticket[s]].creator = s
    <3>1. CASE s = r
      BY <2>3, <3>1
    <3>2. CASE s # r
      <4>1. lock[ticket[s]] # NoLock /\ lock[ticket[s]].creator = s
        BY <1>2, <2>4, <3>2
      <4>2. lock'[ticket[s]] = lock[ticket[s]]
        BY <1>2, <4>1
      <4>3. QED BY <4>1, <4>2
    <3>3. QED BY <3>1, <3>2
  <2>5. ASSUME NEW s \in Request, ticket[s] \notin troubled,
               pc'[s] \in {"confirmDone", "release"}
        PROVE  ticket[s] \in done
    BY <1>2, <2>5
  <2>6. QED BY <2>1, <2>2, <2>4, <2>5
<1>3. CASE /\ lock[ticket[r]] = NoLock
           /\ lock' = [lock EXCEPT ![ticket[r]] = [creator |-> Nobody, stale |-> FALSE]]
           /\ Goto(r, "idle")
  <2>1. UNCHANGED <<ticket, done, troubled>>
    BY DEF OpenExclusive
  <2>2. QED BY <1>3, <2>1
<1> HIDE DEF NothingStale, HoldersOwn, TypeOK
<1>4. QED BY <1>1, <1>2, <1>3 DEF OpenExclusive

(* The steps on the files.                                                 *)
LEMMA FileStepKeepsExclusion ==
  ASSUME ExclusionInv,
         NEW r \in Request,
         \/ CreateLock(r) \/ RecreateLock(r) \/ RemoveLock(r)
         \/ Complete(r) \/ Release(r) \/ ReleaseFails(r)
  PROVE  NothingStale' /\ LosersWait' /\ HoldersOwn'
<1> USE DeliveryAssumption DEF ExclusionInv, TypeOK
<1>1. CASE CreateLock(r)
  <2>1. NothingStale' /\ HoldersOwn'
    <3>1. OpenExclusive(r, "createLock", "recheckDone")
      BY <1>1 DEF CreateLock
    <3> HIDE DEF TypeOK
    <3>2. TypeOK /\ NothingStale /\ HoldersOwn
      BY DEF ExclusionInv
    <3>3. QED BY <3>1, <3>2, NewLock
  <2>2. LosersWait'
    BY <1>1 DEF LosersWait, CreateLock, OpenExclusive
  <2>3. QED BY <2>1, <2>2
<1>2. CASE RecreateLock(r)
  <2>1. NothingStale' /\ HoldersOwn'
    <3>1. OpenExclusive(r, "recreateLock", "idle")
      BY <1>2 DEF RecreateLock
    <3> HIDE DEF TypeOK
    <3>2. TypeOK /\ NothingStale /\ HoldersOwn
      BY DEF ExclusionInv
    <3>3. QED BY <3>1, <3>2, NewLock
  <2>2. LosersWait'
    BY <1>2 DEF LosersWait, RecreateLock, OpenExclusive
  <2>3. QED BY <2>1, <2>2
<1>3. CASE RemoveLock(r) \/ Release(r)
  <2>1. ticket[r] \in done \cup troubled
    BY <1>3 DEF LosersWait, HoldersOwn, RemoveLock, Release
  <2>2. QED
    BY <1>3, <2>1 DEF NothingStale, LosersWait, HoldersOwn, RemoveLock, Release
<1>4. CASE ReleaseFails(r)
  <2>1. ticket[r] \in done \cup troubled
    BY <1>4 DEF HoldersOwn, ReleaseFails
  <2>2. /\ pc' = [pc EXCEPT ![r] = "idle"]
        /\ UNCHANGED <<ticket, done, troubled>>
        /\ \A t \in Ticket : t # ticket[r] => lock'[t] = lock[t]
        /\ lock[ticket[r]] = NoLock => lock' = lock
    BY <1>4 DEF ReleaseFails
  <2>3. lock[ticket[r]] # NoLock => lock'[ticket[r]].stale = lock[ticket[r]].stale
    BY <1>4 DEF ReleaseFails
  <2>4. NothingStale'
    BY <2>2, <2>3 DEF NothingStale
  <2>5. LosersWait'
    BY <2>1, <2>2 DEF LosersWait
  <2>6. HoldersOwn'
    BY <2>1, <2>2 DEF HoldersOwn
  <2>7. QED BY <2>4, <2>5, <2>6
<1>5. CASE Complete(r)
  BY <1>5 DEF NothingStale, LosersWait, HoldersOwn, Complete
<1>6. QED BY <1>1, <1>2, <1>3, <1>4, <1>5

(* Every step keeps the claims of an untroubled ticket apart. *)
LEMMA ExclusionStep ==
  ASSUME ExclusionInv, [Next]_vars
  PROVE  ExclusionInv'
<1>1. TypeOK'
  BY TypeStep DEF ExclusionInv
<1>2. NothingStale' /\ LosersWait' /\ HoldersOwn'
  <2> USE DEF ExclusionInv
  <2>1. ASSUME NEW r \in Request, NEW t \in Ticket, Receive(r, t)
        PROVE  NothingStale' /\ LosersWait' /\ HoldersOwn'
    <3>1. UNCHANGED files
      BY <2>1 DEF Receive
    <3>2. QED BY <2>1, <3>1, QuietStepKeepsExclusion
  <2>2. ASSUME NEW r \in Request,
               \/ Checks(r) \/ StatLock(r) \/ ClaimFails(r) \/ Posts(r) \/ Saves(r)
               \/ ConfirmDone(r) \/ CompleteFails(r) \/ Reply(r)
        PROVE  NothingStale' /\ LosersWait' /\ HoldersOwn'
    <3>1. UNCHANGED files
      BY <2>2 DEF Checks, CheckDone, RecheckDone, LastCheckDone, ExistsDone, StatLock,
         ClaimFails, Posts, Verify, PostAccepted, PostFailed, Saves, FindReport,
         StartEvidence, FinishEvidence, StartReport, FinishReport, SaveFails,
         ConfirmDone, CompleteFails, Reply
    <3>2. QED BY <2>2, <3>1, QuietStepKeepsExclusion
  <2>3. ASSUME NEW r \in Request,
               \/ CreateLock(r) \/ RecreateLock(r) \/ RemoveLock(r)
               \/ Complete(r) \/ Release(r) \/ ReleaseFails(r)
        PROVE  NothingStale' /\ LosersWait' /\ HoldersOwn'
    BY <2>3, FileStepKeepsExclusion
  <2>4. CASE Crash
    BY <2>4, DeliveryAssumption
       DEF Crash, TypeOK, NothingStale, LosersWait, HoldersOwn
  <2>5. ASSUME NEW t \in Ticket, AgeLock(t)
        PROVE  NothingStale' /\ LosersWait' /\ HoldersOwn'
    BY <2>5 DEF AgeLock, TypeOK, NothingStale, LosersWait, HoldersOwn
  <2>6. CASE UNCHANGED vars
    BY <2>6 DEF vars, NothingStale, LosersWait, HoldersOwn
  <2>7. QED
    BY <2>1, <2>2, <2>3, <2>4, <2>5, <2>6 DEF Next, Handle, Checks, Posts, Saves
<1>3. QED BY <1>1, <1>2 DEF ExclusionInv

(* So the claims of an untroubled ticket are apart always.                 *)
LEMMA ExclusionHolds == Spec => []ExclusionInv
<1>1. Init => ExclusionInv
  BY InitIInv DEF Init, IInv, ExclusionInv, NothingStale, LosersWait, HoldersOwn
<1>2. ExclusionInv /\ [Next]_vars => ExclusionInv'
  BY ExclusionStep
<1>3. QED BY <1>1, <1>2, PTL DEF Spec

(* Until a ticket's first failed delivery or stale lock its claim is       *)
(* exclusive, for any number of requests, crashes and failed lock writes.  *)
THEOREM ClaimsAreExclusive == Spec => []ExclusiveUntilDelivered
<1>1. ExclusionInv => ExclusiveUntilDelivered
  <2> SUFFICES ASSUME ExclusionInv,
                      NEW r \in Request, NEW s \in Request,
                      NEW t \in Ticket \ (done \cup troubled), Holds(r, t), Holds(s, t)
               PROVE  r = s
    BY DEF ExclusiveUntilDelivered
  <2>1. \A q \in {r, s} : pc[q] \in {"verify", "complete"} \cup Posting
    BY DEF ExclusionInv, HoldersOwn, Holds
  <2>2. lock[t].creator = r /\ lock[t].creator = s
    BY <2>1 DEF ExclusionInv, HoldersOwn, Holds
  <2>3. QED BY <2>2
<1>2. QED BY <1>1, ExclusionHolds, PTL

------------------------------------------------------------------------------
(* The inbox of the local relay.                                           *)

(* The contents of a file that the model tells apart are different.        *)
LEMMA FilesDiffer ==
  ASSUME NEW r \in Request
  PROVE  /\ Absent # Whole /\ CutBy(r) # Whole /\ CutBy(r) # Absent
         /\ CutBy(r).by = r /\ Absent \in File /\ Whole \in File /\ CutBy(r) \in File
BY DEF Absent, Whole, CutBy, File

(* What the last write of a request makes of a file that it has truncated. *)
LEMMA WriteIsWhole ==
  ASSUME NEW r \in Request, NEW file, file[ticket[r]] = CutBy(r)
  PROVE  Written(file, r) = {Whole}
BY FilesDiffer DEF Written

(* A local report that is neither in trouble nor misread.                  *)
Calm(t) == t \notin troubled \cup misread

(* What a request that is writing a report, or may go on to write it,      *)
(* finds in the inbox ...                                                  *)
SavesInOrder ==
  relay = "local" => \A r \in Request : Calm(ticket[r]) =>
    LET t == ticket[r] IN
    /\ pc[r] # "post"
    /\ pc[r] \in Posting \ {"findReport"} => t \notin done
    /\ pc[r] \in {"verify", "findReport"} /\ t \notin done => report[t] = Absent
    /\ pc[r] \in {"startEvidence", "finishEvidence", "startReport"} => report[t] = Absent
    /\ pc[r] = "finishEvidence" => evidence[t] = CutBy(r)
    /\ pc[r] \in {"startReport", "finishReport"} => evidence[t] = Whole
    /\ pc[r] = "finishReport" => report[t] = CutBy(r)
    /\ pc[r] = "complete" => evidence[t] = Whole /\ report[t] = Whole

(* ... and what is there when nobody is.                                   *)
InboxAtRest ==
  relay = "local" => \A t \in Ticket : Calm(t) =>
    /\ t \in done => evidence[t] = Whole /\ report[t] = Whole
    /\ t \notin done /\ lock[t] = NoLock => report[t] = Absent
    /\ report[t] # Absent => evidence[t] = Whole

InboxInv == SavesInOrder /\ InboxAtRest

(* What no step of a request undoes: trouble and the records are kept, and *)
(* other requests stay where they are.                                     *)
LEMMA Keeps ==
  ASSUME TypeOK, NEW r \in Request, Handle(r)
  PROVE  /\ relay' = relay /\ ticket' = ticket
         /\ troubled \subseteq troubled' /\ misread \subseteq misread'
         /\ \A s \in Request \ {r} : pc'[s] = pc[s]
<1> USE DEF TypeOK
<1>1. CASE Checks(r) \/ StatLock(r) \/ RemoveLock(r) \/ ClaimFails(r)
  BY <1>1 DEF Checks, CheckDone, RecheckDone, LastCheckDone, ExistsDone, Exists, Misreads,
     StatLock, RemoveLock, ClaimFails
<1>2. CASE CreateLock(r) \/ RecreateLock(r)
  BY <1>2 DEF CreateLock, RecreateLock, OpenExclusive
<1>3. CASE Posts(r)
  BY <1>3 DEF Posts, Verify, PostAccepted, PostFailed
<1>4. CASE Saves(r)
  BY <1>4 DEF Saves, FindReport, Exists, Misreads, StartEvidence, FinishEvidence,
     StartReport, FinishReport, SaveFails
<1>5. CASE Complete(r) \/ ConfirmDone(r) \/ CompleteFails(r)
  BY <1>5 DEF Complete, ConfirmDone, Exists, Misreads, CompleteFails
<1>6. CASE Release(r) \/ ReleaseFails(r) \/ Reply(r)
  BY <1>6 DEF Release, ReleaseFails, Reply
<1>7. QED BY <1>1, <1>2, <1>3, <1>4, <1>5, <1>6 DEF Handle, Checks, Posts, Saves

(* A request whose ticket was calm and undelivered is the only one that is *)
(* on its way to deliver it.                                               *)
LEMMA OnlyHolder ==
  ASSUME ExclusionInv, NEW r \in Request, NEW s \in Request,
         ticket[r] = ticket[s], Calm(ticket[r]), ticket[r] \notin done,
         pc[r] \in {"verify", "complete"} \cup Posting,
         pc[s] \in {"verify", "complete"} \cup Posting
  PROVE  r = s
<1>1. lock[ticket[r]].creator = r /\ lock[ticket[s]].creator = s
  BY DEF ExclusionInv, HoldersOwn, Calm
<1>2. QED BY <1>1

(* The steps that write to the inbox, of the request that holds the claim. *)
LEMMA WriteKeepsInbox ==
  ASSUME ExclusionInv, InboxInv, NEW r \in Request,
         StartEvidence(r) \/ FinishEvidence(r) \/ StartReport(r) \/ FinishReport(r)
  PROVE  InboxInv'
<1> DEFINE t == ticket[r]
<1>1. TypeOK
  BY DEF ExclusionInv
<1>2. /\ UNCHANGED <<relay, ticket, lock, done, troubled, misread>>
      /\ \A s \in Request \ {r} : pc'[s] = pc[s]
      /\ \A u \in Ticket \ {t} : evidence'[u] = evidence[u] /\ report'[u] = report[u]
  BY <1>1 DEF TypeOK, StartEvidence, FinishEvidence, StartReport, FinishReport, Truncated
<1>3. pc[r] \in Posting \ {"findReport"} /\ t \in Ticket /\ ticket \in [Request -> Ticket]
  BY <1>1 DEF TypeOK, StartEvidence, FinishEvidence, StartReport, FinishReport
<1>4. ASSUME relay = "local", Calm(t)
      PROVE  /\ t \notin done /\ lock[t] # NoLock
             /\ report'[t] # Absent => evidence'[t] = Whole
             /\ CASE pc[r] = "startEvidence" ->
                       pc'[r] = "finishEvidence" /\ report'[t] = Absent /\ evidence'[t] = CutBy(r)
                  [] pc[r] = "finishEvidence" ->
                       pc'[r] = "startReport" /\ report'[t] = Absent /\ evidence'[t] = Whole
                  [] pc[r] = "startReport" ->
                       pc'[r] = "finishReport" /\ report'[t] = CutBy(r) /\ evidence'[t] = Whole
                  [] pc[r] = "finishReport" ->
                       pc'[r] = "complete" /\ report'[t] = Whole /\ evidence'[t] = Whole
                  [] OTHER -> FALSE
  <2>1. t \notin done
    BY <1>3, <1>4 DEF InboxInv, SavesInOrder
  <2>2. lock[t] # NoLock
    BY <1>3, <1>4, <2>1 DEF ExclusionInv, HoldersOwn, Calm
  <2>3. CASE StartEvidence(r)
    <3>1. report[t] = Absent
      BY <1>4, <2>3 DEF StartEvidence, InboxInv, SavesInOrder
    <3>2. pc[r] = "startEvidence" /\ pc'[r] = "finishEvidence" /\ report' = report /\ evidence'[t] = CutBy(r)
      BY <1>1, <1>3, <2>3 DEF StartEvidence, Truncated, TypeOK
    <3>3. QED BY <2>1, <2>2, <3>1, <3>2
  <2>4. CASE FinishEvidence(r)
    <3>1. report[t] = Absent /\ evidence[t] = CutBy(r)
      BY <1>4, <2>4 DEF FinishEvidence, InboxInv, SavesInOrder
    <3>2. Written(evidence, r) = {Whole}
      BY <3>1, WriteIsWhole
    <3>3. pc[r] = "finishEvidence" /\ pc'[r] = "startReport" /\ report' = report /\ evidence'[t] = Whole
      BY <1>1, <1>3, <2>4, <3>2 DEF FinishEvidence, TypeOK
    <3>4. QED BY <2>1, <2>2, <3>1, <3>3
  <2>5. CASE StartReport(r)
    <3>1. evidence[t] = Whole
      BY <1>4, <2>5 DEF StartReport, InboxInv, SavesInOrder
    <3>2. pc[r] = "startReport" /\ pc'[r] = "finishReport" /\ evidence' = evidence /\ report'[t] = CutBy(r)
      BY <1>1, <1>3, <2>5 DEF StartReport, Truncated, TypeOK
    <3>3. QED BY <2>1, <2>2, <3>1, <3>2
  <2>6. CASE FinishReport(r)
    <3>1. evidence[t] = Whole /\ report[t] = CutBy(r)
      BY <1>4, <2>6 DEF FinishReport, InboxInv, SavesInOrder
    <3>2. Written(report, r) = {Whole}
      BY <3>1, WriteIsWhole
    <3>3. pc[r] = "finishReport" /\ pc'[r] = "complete" /\ evidence' = evidence /\ report'[t] = Whole
      BY <1>1, <1>3, <2>6, <3>2 DEF FinishReport, TypeOK
    <3>4. QED BY <2>1, <2>2, <3>1, <3>3
  <2>7. QED BY <2>3, <2>4, <2>5, <2>6
<1>5. ASSUME relay = "local", NEW s \in Request \ {r}, ticket[s] = t, Calm(t)
      PROVE  pc[s] \notin {"verify", "complete"} \cup Posting
  BY <1>3, <1>4, <1>5, OnlyHolder
<1>6. InboxAtRest'
  <2> SUFFICES ASSUME relay = "local", NEW u \in Ticket, Calm(u)
               PROVE  (/\ u \in done => evidence[u] = Whole /\ report[u] = Whole
                       /\ u \notin done /\ lock[u] = NoLock => report[u] = Absent
                       /\ report[u] # Absent => evidence[u] = Whole)'
    BY <1>2 DEF InboxAtRest, Calm
  <2>1. CASE u = t
    BY <1>2, <1>4, <2>1
  <2>2. CASE u # t
    BY <1>2, <2>2 DEF InboxInv, InboxAtRest
  <2>3. QED BY <2>1, <2>2
<1>7. SavesInOrder'
  <2> DEFINE InOrder(s) ==
        LET u == ticket[s] IN
        /\ pc[s] # "post"
        /\ pc[s] \in Posting \ {"findReport"} => u \notin done
        /\ pc[s] \in {"verify", "findReport"} /\ u \notin done => report[u] = Absent
        /\ pc[s] \in {"startEvidence", "finishEvidence", "startReport"} => report[u] = Absent
        /\ pc[s] = "finishEvidence" => evidence[u] = CutBy(s)
        /\ pc[s] \in {"startReport", "finishReport"} => evidence[u] = Whole
        /\ pc[s] = "finishReport" => report[u] = CutBy(s)
        /\ pc[s] = "complete" => evidence[u] = Whole /\ report[u] = Whole
  <2> SUFFICES ASSUME relay = "local", NEW s \in Request, Calm(ticket[s])
               PROVE  InOrder(s)'
    BY <1>2 DEF SavesInOrder, Calm
  <2>1. CASE s = r
    BY <1>2, <1>3, <1>4, <2>1
  <2>2. CASE s # r /\ ticket[s] = t
    BY <1>2, <1>5, <2>2
  <2>3. CASE s # r /\ ticket[s] # t
    <3>1. InOrder(s)
      BY DEF InboxInv, SavesInOrder
    <3>2. ticket[s] \in Ticket \ {t}
      BY <1>3, <2>3
    <3>3. QED BY <1>2, <2>3, <3>1, <3>2 DEF CutBy
  <2>4. QED BY <2>1, <2>2, <2>3
<1>8. QED BY <1>6, <1>7 DEF InboxInv

(* The steps that go on to nothing that SavesInOrder is about.             *)
LEMMA OtherStepKeepsInbox ==
  ASSUME ExclusionInv, InboxInv, NEW r \in Request,
         \/ \E t \in Ticket : Receive(r, t)
         \/ Checks(r) \/ StatLock(r) \/ RemoveLock(r) \/ ClaimFails(r)
         \/ SaveFails(r) \/ ConfirmDone(r) \/ CompleteFails(r)
         \/ Release(r) \/ ReleaseFails(r) \/ Reply(r)
  PROVE  InboxInv'
<1>1. TypeOK
  BY DEF ExclusionInv
<1>2. /\ UNCHANGED <<relay, evidence, report, done>>
      /\ troubled \subseteq troubled' /\ misread \subseteq misread'
      /\ \A s \in Request \ {r} : pc'[s] = pc[s] /\ ticket'[s] = ticket[s]
      /\ pc'[r] \notin {"verify", "complete"} \cup Posting
  <2>1. CASE \E t \in Ticket : Receive(r, t)
    BY <1>1, <2>1 DEF TypeOK, Receive
  <2>2. CASE Checks(r) \/ StatLock(r) \/ RemoveLock(r) \/ ClaimFails(r)
    BY <1>1, <2>2 DEF TypeOK, Checks, CheckDone, RecheckDone, LastCheckDone, ExistsDone,
       Exists, Misreads, StatLock, RemoveLock, ClaimFails
  <2>3. CASE SaveFails(r) \/ ConfirmDone(r) \/ CompleteFails(r)
    BY <1>1, <2>3 DEF TypeOK, SaveFails, ConfirmDone, Exists, Misreads, CompleteFails
  <2>4. CASE Release(r) \/ ReleaseFails(r) \/ Reply(r)
    BY <1>1, <2>4 DEF TypeOK, Release, ReleaseFails, Reply
  <2>5. QED BY <2>1, <2>2, <2>3, <2>4
<1>3. \A t \in Ticket : Calm(t) /\ t \notin done /\ lock'[t] = NoLock => lock[t] = NoLock
  <2>1. CASE RemoveLock(r) \/ Release(r) \/ ReleaseFails(r)
    <3>1. ticket[r] \in done \cup troubled
      BY <2>1 DEF ExclusionInv, LosersWait, HoldersOwn, RemoveLock, Release, ReleaseFails
    <3>2. \A t \in Ticket \ {ticket[r]} : lock'[t] = lock[t]
      BY <1>1, <2>1 DEF TypeOK, RemoveLock, Release, ReleaseFails
    <3>3. QED BY <3>1, <3>2 DEF Calm
  <2>2. CASE ~(RemoveLock(r) \/ Release(r) \/ ReleaseFails(r))
    BY <2>2 DEF Receive, Checks, CheckDone, RecheckDone, LastCheckDone, ExistsDone,
       StatLock, ClaimFails, SaveFails, ConfirmDone, CompleteFails, Reply
  <2>3. QED BY <2>1, <2>2
<1>4. InboxAtRest'
  BY <1>2, <1>3 DEF InboxInv, InboxAtRest, Calm
<1>5. pc'[r] # "post"
  BY <1>2
<1>6. SavesInOrder'
  BY <1>2, <1>5 DEF InboxInv, SavesInOrder, Calm, CutBy
<1>7. QED BY <1>4, <1>6 DEF InboxInv

(* The claim is granted, and the relay goes on with a verified message: an *)
(* undelivered ticket has no report.json yet.                              *)
LEMMA ClaimKeepsInbox ==
  ASSUME ExclusionInv, InboxInv, NEW r \in Request,
         CreateLock(r) \/ RecreateLock(r) \/ Verify(r) \/ PostAccepted(r) \/ PostFailed(r)
  PROVE  InboxInv'
<1> DEFINE t == ticket[r]
<1>1. TypeOK
  BY DEF ExclusionInv
<1>2. /\ UNCHANGED <<relay, ticket, evidence, report, done, misread>>
      /\ troubled \subseteq troubled'
      /\ \A s \in Request \ {r} : pc'[s] = pc[s]
  BY <1>1 DEF TypeOK, CreateLock, RecreateLock, OpenExclusive, Verify, PostAccepted, PostFailed
<1>3. \A u \in Ticket : lock'[u] = NoLock => lock[u] = NoLock
  BY <1>1 DEF TypeOK, CreateLock, RecreateLock, OpenExclusive, Verify, PostAccepted, PostFailed
<1>4. ASSUME relay = "local", Calm(t)
      PROVE  /\ pc'[r] \notin (Posting \ {"findReport"}) \cup {"complete"}
             /\ pc'[r] \in {"verify", "findReport"} /\ t \notin done => report[t] = Absent
  <2>1. CASE CreateLock(r) \/ RecreateLock(r)
    <3>1. /\ pc'[r] \notin Posting \cup {"complete"}
          /\ pc'[r] = "verify" => lock[t] = NoLock
      BY <1>1, <2>1 DEF TypeOK, CreateLock, RecreateLock, OpenExclusive
    <3>2. t \in Ticket
      BY <1>1 DEF TypeOK
    <3>3. QED BY <1>4, <3>1, <3>2 DEF InboxInv, InboxAtRest
  <2>2. CASE Verify(r)
    <3>1. pc[r] = "verify" /\ pc'[r] \in {"findReport", "release"}
      BY <1>1, <1>4, <2>2 DEF TypeOK, Verify, Deliver
    <3>2. QED BY <1>4, <3>1 DEF InboxInv, SavesInOrder
  <2>3. CASE PostAccepted(r) \/ PostFailed(r)
    BY <1>4, <2>3 DEF PostAccepted, PostFailed, InboxInv, SavesInOrder
  <2>4. QED BY <2>1, <2>2, <2>3
<1>5. InboxAtRest'
  BY <1>2, <1>3 DEF InboxInv, InboxAtRest, Calm
<1>6. SavesInOrder'
  BY <1>2, <1>4 DEF InboxInv, SavesInOrder, Calm, CutBy
<1>7. QED BY <1>5, <1>6 DEF InboxInv

(* report.json is found only when it is whole.                             *)
LEMMA FindKeepsInbox ==
  ASSUME ExclusionInv, InboxInv, NEW r \in Request, FindReport(r)
  PROVE  InboxInv'
<1> DEFINE t == ticket[r]
<1>1. TypeOK
  BY DEF ExclusionInv
<1>2. /\ UNCHANGED <<relay, ticket, lock, evidence, report, done, troubled>>
      /\ misread \subseteq misread'
      /\ \A s \in Request \ {r} : pc'[s] = pc[s]
  BY <1>1 DEF TypeOK, FindReport, Exists, Misreads
<1>3. InboxAtRest'
  BY <1>2 DEF InboxInv, InboxAtRest, Calm
<1>4. ASSUME relay = "local", Calm(t)'
      PROVE  \/ /\ pc'[r] = "complete"
                /\ evidence[t] = Whole /\ report[t] = Whole
             \/ /\ pc'[r] = "startEvidence"
                /\ t \notin done /\ report[t] = Absent
  <2>1. t \in Ticket /\ Calm(t)
    BY <1>1, <1>2, <1>4 DEF TypeOK, Calm
  <2>2. t \in done \/ report[t] = Absent
    BY <1>4, <2>1 DEF FindReport, InboxInv, SavesInOrder
  <2>3. \/ report[t] # Absent /\ pc'[r] = "complete"
        \/ report[t] = Absent /\ pc'[r] = "startEvidence"
    BY <1>1, <1>2, <1>4 DEF TypeOK, FindReport, Exists, Misreads, Calm
  <2>4. t \in done => evidence[t] = Whole /\ report[t] = Whole
    BY <1>4, <2>1 DEF InboxInv, InboxAtRest
  <2>5. QED BY <2>2, <2>3, <2>4, FilesDiffer
<1>5. SavesInOrder'
  BY <1>2, <1>4 DEF InboxInv, SavesInOrder, Calm, CutBy
<1>6. QED BY <1>3, <1>5 DEF InboxInv

(* What is recorded is whole.                                              *)
LEMMA CompleteKeepsInbox ==
  ASSUME ExclusionInv, InboxInv, NEW r \in Request, Complete(r)
  PROVE  InboxInv'
<1> DEFINE t == ticket[r]
<1>1. TypeOK
  BY DEF ExclusionInv
<1>2. /\ UNCHANGED <<relay, ticket, evidence, report, troubled, misread>>
      /\ done \subseteq done' /\ done' \subseteq done \cup {t}
      /\ \A u \in Ticket \ {t} : lock'[u] = lock[u]
      /\ \A s \in Request \ {r} : pc'[s] = pc[s]
      /\ pc[r] = "complete" /\ pc'[r] \in {"reply", "confirmDone"}
      /\ t \in Ticket
  BY <1>1 DEF TypeOK, Complete
<1>3. relay = "local" /\ Calm(t) => evidence[t] = Whole /\ report[t] = Whole
  BY <1>2 DEF InboxInv, SavesInOrder
<1>4. Calm(t) => t \in done'
  <2>1. CASE t \in done
    BY <1>2, <2>1
  <2>2. CASE t \notin done
    BY <1>2, <2>2 DEF Complete, ExclusionInv, HoldersOwn, Calm
  <2>3. QED BY <2>1, <2>2
<1>5. InboxAtRest'
  BY <1>2, <1>3, <1>4 DEF InboxInv, InboxAtRest, Calm
<1>6. ASSUME relay = "local", NEW s \in Request \ {r}, Calm(ticket[s]),
             pc[s] \in Posting \ {"findReport"}
      PROVE  ticket[s] \notin done'
  <2>1. ticket[s] \notin done
    BY <1>6 DEF InboxInv, SavesInOrder
  <2>2. ticket[s] # t
    BY <1>2, <1>6, <2>1, OnlyHolder
  <2>3. QED BY <1>2, <2>1, <2>2
<1>7. SavesInOrder'
  BY <1>2, <1>6 DEF InboxInv, SavesInOrder, Calm, CutBy
<1>8. QED BY <1>5, <1>7 DEF InboxInv

(* Every step keeps the local inbox.                                       *)
LEMMA InboxStep ==
  ASSUME ExclusionInv, InboxInv, [Next]_vars
  PROVE  InboxInv'
<1>1. ASSUME NEW r \in Request, NEW t \in Ticket, Receive(r, t) PROVE InboxInv'
  BY <1>1, OtherStepKeepsInbox
<1>2. ASSUME NEW r \in Request, Handle(r) PROVE InboxInv'
  BY <1>2, WriteKeepsInbox, OtherStepKeepsInbox, ClaimKeepsInbox, FindKeepsInbox,
     CompleteKeepsInbox DEF Handle, Checks
<1>3. CASE Crash
  <2>1. /\ UNCHANGED <<relay, ticket, done, evidence, report, troubled, misread>>
        /\ \A s \in Request : pc'[s] = "idle"
    BY <1>3 DEF Crash
  <2>2. \A u \in Ticket : lock'[u] = NoLock => lock[u] = NoLock
    <3> SUFFICES ASSUME NEW u \in Ticket, lock[u] # NoLock PROVE lock'[u] # NoLock
      OBVIOUS
    <3>1. lock'[u] = [lock[u] EXCEPT !.creator = Nobody] /\ lock[u] \in Lock
      BY <1>3 DEF Crash, ExclusionInv, TypeOK
    <3>2. lock'[u] \in Lock
      BY <3>1
    <3>3. QED BY <3>2, DeliveryAssumption
  <2>3. InboxAtRest'
    BY <2>1, <2>2 DEF InboxInv, InboxAtRest, Calm
  <2>4. SavesInOrder'
    BY <2>1 DEF SavesInOrder
  <2>5. QED BY <2>3, <2>4 DEF InboxInv
<1>4. ASSUME NEW t \in Ticket, AgeLock(t) PROVE InboxInv'
  <2>1. /\ UNCHANGED <<pc, relay, ticket, done, evidence, report, misread>>
        /\ troubled' = troubled \cup {t}
        /\ \A u \in Ticket \ {t} : lock'[u] = lock[u]
    BY <1>4 DEF AgeLock, ExclusionInv, TypeOK
  <2>2. InboxAtRest'
    BY <2>1 DEF InboxInv, InboxAtRest, Calm
  <2>3. SavesInOrder'
    BY <2>1 DEF InboxInv, SavesInOrder, Calm, CutBy
  <2>4. QED BY <2>2, <2>3 DEF InboxInv
<1>5. CASE UNCHANGED vars
  BY <1>5 DEF vars, InboxInv, InboxAtRest, SavesInOrder, Calm, CutBy
<1>6. QED BY <1>1, <1>2, <1>3, <1>4, <1>5 DEF Next

(* "Verified report saved locally": until a delivery of a ticket fails,    *)
(* its lock grows stale or a file of it is misread, report.json stands     *)
(* only beside whole evidence and a recorded delivery has a whole report,  *)
(* for any number of concurrent requests and crashes.                      *)
THEOREM LocalInboxIsWhole == Spec => []InboxIsWhole
<1>1. Init => InboxInv
  BY DEF Init, InboxInv, SavesInOrder, InboxAtRest
<1>2. ExclusionInv /\ InboxInv /\ [Next]_vars => InboxInv'
  BY InboxStep
<1>3. InboxInv => InboxIsWhole
  BY DEF InboxInv, InboxAtRest, InboxIsWhole, Calm
<1>4. QED BY <1>1, <1>2, <1>3, ExclusionHolds, PTL DEF Spec

------------------------------------------------------------------------------
(* Retries that follow each other. *)

(* The requests about one ticket do not overlap: a browser sends a report     *)
(* again only when the request before has been answered, or died with the     *)
(* process.  Requests about other tickets may overlap freely.                 *)
OneAtATime ==
  \A r, s \in Request :
    ~ At(r, "idle") /\ ~ At(s, "idle") /\ ticket[r] = ticket[s] => r = s

(* What claim() has seen at its first check stays so until it is granted,     *)
(* unless access() failed.                                                    *)
ClaimsUndelivered ==
  \A r \in Request :
    pc[r] \in Claiming \ {"checkDone"} => ticket[r] \notin done \ misread

(* What the request that is writing a report finds in the inbox, and what is  *)
(* there when nobody is.                                                      *)
SequentialInbox ==
  relay = "local" =>
    /\ \A r \in Request : ticket[r] \notin misread =>
         LET t == ticket[r] IN
         /\ pc[r] # "post"
         /\ pc[r] \in {"startEvidence", "finishEvidence", "startReport"} => report[t] = Absent
         /\ pc[r] = "finishEvidence" => evidence[t] = CutBy(r)
         /\ pc[r] \in {"startReport", "finishReport"} => evidence[t] = Whole
         /\ pc[r] \in {"finishReport", "complete"} => report[t] # Absent
    /\ \A t \in Ticket \ misread :
         /\ report[t] # Absent => evidence[t] = Whole
         /\ t \in done => report[t] # Absent

(* While requests about one ticket follow each other, nobody records a        *)
(* delivery behind the back of a claim.                                       *)
LEMMA SequentialStep ==
  ASSUME TypeOK, OneAtATime, ClaimsUndelivered, [Next]_vars
  PROVE  ClaimsUndelivered'
<1> USE DEF TypeOK, ClaimsUndelivered
<1>1. ASSUME NEW r \in Request, NEW t \in Ticket, Receive(r, t) PROVE ClaimsUndelivered'
  BY <1>1 DEF Receive
<1>2. ASSUME NEW r \in Request, Checks(r) PROVE ClaimsUndelivered'
  BY <1>2 DEF Checks, CheckDone, RecheckDone, LastCheckDone, ExistsDone, Exists, Misreads
<1>3. ASSUME NEW r \in Request, CreateLock(r) \/ RecreateLock(r) PROVE ClaimsUndelivered'
  BY <1>3 DEF CreateLock, RecreateLock, OpenExclusive
<1>4. ASSUME NEW r \in Request, StatLock(r) \/ RemoveLock(r) \/ ClaimFails(r)
      PROVE  ClaimsUndelivered'
  BY <1>4 DEF StatLock, RemoveLock, ClaimFails
<1>5. ASSUME NEW r \in Request, Posts(r) PROVE ClaimsUndelivered'
  BY <1>5 DEF Posts, Verify, Deliver, PostAccepted, PostFailed
<1>6. ASSUME NEW r \in Request, Saves(r) PROVE ClaimsUndelivered'
  BY <1>6 DEF Saves, FindReport, Exists, Misreads, StartEvidence, FinishEvidence,
     StartReport, FinishReport, SaveFails
<1>7. ASSUME NEW r \in Request,
             \/ ConfirmDone(r) \/ CompleteFails(r)
             \/ Release(r) \/ ReleaseFails(r) \/ Reply(r)
      PROVE  ClaimsUndelivered'
  BY <1>7 DEF ConfirmDone, Exists, Misreads, CompleteFails, Release, ReleaseFails, Reply
<1>8. ASSUME NEW r \in Request, Complete(r) PROVE ClaimsUndelivered'
  <2> SUFFICES ASSUME NEW s \in Request, pc'[s] \in Claiming \ {"checkDone"}
               PROVE  (ticket[s] \notin done \ misread)'
    OBVIOUS
  <2>1. /\ pc[r] = "complete" /\ ticket' = ticket /\ misread' = misread
        /\ done' \subseteq done \cup {ticket[r]}
    BY <1>8 DEF Complete
  <2>2. s # r /\ pc[s] = pc'[s]
    BY <1>8 DEF Complete
  <2>3. ticket[s] # ticket[r]
    BY <2>1, <2>2 DEF OneAtATime
  <2> QED
    BY <2>1, <2>2, <2>3
<1>9. CASE Crash
  BY <1>9 DEF Crash
<1>10. ASSUME NEW t \in Ticket, AgeLock(t) PROVE ClaimsUndelivered'
  BY <1>10 DEF AgeLock
<1>11. CASE UNCHANGED vars
  BY <1>11 DEF vars
<1> QED
  BY <1>1, <1>2, <1>3, <1>4, <1>5, <1>6, <1>7, <1>8, <1>9, <1>10, <1>11
     DEF Next, Handle, Checks, Posts, Saves

(* "Browser retries do not send a report twice": as long as the requests      *)
(* about a ticket follow each other and access() does not fail on a file of   *)
(* it, a ticket that is recorded as delivered is never handed out to be sent  *)
(* again, whatever crashes, fails or grows stale in between, and however many *)
(* other tickets are being delivered.                                         *)
THEOREM SequentialRetriesSendOnce == Spec /\ []OneAtATime => NoClaimOnceDelivered
<1>1. Init => ClaimsUndelivered
  BY DEF Init, ClaimsUndelivered
<1>2. TypeOK /\ OneAtATime /\ ClaimsUndelivered /\ [Next]_vars => ClaimsUndelivered'
  BY SequentialStep
<1>3. ClaimsUndelivered /\ TypeOK /\ [Next]_vars =>
        [\A r \in Request :
           pc[r] \in Claiming /\ pc'[r] = "verify" => ticket[r] \notin done \ misread]_vars
  <2> SUFFICES ASSUME ClaimsUndelivered, TypeOK, Next,
                      NEW r \in Request, pc[r] \in Claiming, pc'[r] = "verify"
               PROVE  pc[r] # "checkDone"
    BY DEF ClaimsUndelivered
  <2>1. CASE \E s \in Request : Handle(s)
    <3>1. PICK s \in Request : Handle(s)
      BY <2>1
    <3>2. r = s
      BY <3>1, Keeps
    <3>3. ~ CheckDone(r)
      BY DEF TypeOK, CheckDone, ExistsDone, Exists
    <3>4. pc[r] # "checkDone" \/ ClaimFails(r)
      BY <3>1, <3>2, <3>3 DEF Handle, RecheckDone, LastCheckDone, ExistsDone, CreateLock,
         RecreateLock, OpenExclusive, StatLock, RemoveLock, Verify, PostAccepted,
         PostFailed, FindReport, StartEvidence, FinishEvidence, StartReport, FinishReport,
         SaveFails, Complete, ConfirmDone, CompleteFails, Release, ReleaseFails, Reply
    <3>5. ~ ClaimFails(r)
      BY DEF TypeOK, ClaimFails
    <3>6. QED BY <3>4, <3>5
  <2>2. CASE ~ \E s \in Request : Handle(s)
    BY <2>2 DEF TypeOK, Next, Receive, Crash, AgeLock
  <2>3. QED BY <2>1, <2>2
<1> QED
  BY <1>1, <1>2, <1>3, TypeCorrectness, PTL DEF Spec, NoClaimOnceDelivered

(* The only request about a ticket writes its files alone.                    *)
LEMMA SequentialWrite ==
  ASSUME TypeOK, OneAtATime, SequentialInbox, NEW r \in Request, Saves(r)
  PROVE  SequentialInbox'
<1> DEFINE t == ticket[r]
<1>1. /\ UNCHANGED <<relay, ticket, done>>
      /\ misread \subseteq misread'
      /\ \A s \in Request \ {r} : pc'[s] = pc[s]
      /\ \A u \in Ticket \ {t} : evidence'[u] = evidence[u] /\ report'[u] = report[u]
      /\ pc'[r] # "post" /\ pc[r] # "idle" /\ t \in Ticket
      /\ pc[r] \in Posting /\ pc'[r] \in (Posting \ {"post", "findReport"}) \cup {"complete", "release"}
  BY DEF TypeOK, Saves, FindReport, Exists, Misreads, StartEvidence, FinishEvidence,
     StartReport, FinishReport, SaveFails, Truncated
<1>2. \A s \in Request \ {r} : ticket[s] = t => pc[s] = "idle"
  BY <1>1 DEF OneAtATime
<1>3. ASSUME relay = "local", t \notin misread'
      PROVE  /\ pc'[r] \in {"startEvidence", "finishEvidence", "startReport"} => report'[t] = Absent
             /\ pc'[r] = "finishEvidence" => evidence'[t] = CutBy(r)
             /\ pc'[r] \in {"startReport", "finishReport"} => evidence'[t] = Whole
             /\ pc'[r] \in {"finishReport", "complete"} => report'[t] # Absent
             /\ report'[t] # Absent => evidence'[t] = Whole
             /\ t \in done => report'[t] # Absent
  <2>1. t \notin misread
    BY <1>1, <1>3
  <2>2. CASE FindReport(r)
    <3>1. /\ evidence' = evidence /\ report' = report
          /\ \/ report[t] # Absent /\ pc'[r] = "complete"
             \/ report[t] = Absent /\ pc'[r] = "startEvidence"
      BY <1>1, <1>3, <2>2 DEF TypeOK, FindReport, Exists, Misreads
    <3>2. QED BY <1>1, <1>3, <2>1, <3>1 DEF SequentialInbox
  <2>3. CASE StartEvidence(r)
    <3>1. report[t] = Absent
      BY <1>3, <2>1, <2>3 DEF StartEvidence, SequentialInbox
    <3>2. pc'[r] = "finishEvidence" /\ report' = report /\ evidence'[t] = CutBy(r)
      BY <1>1, <2>3 DEF StartEvidence, Truncated, TypeOK
    <3>3. QED BY <1>1, <1>3, <2>1, <3>1, <3>2 DEF SequentialInbox
  <2>4. CASE FinishEvidence(r)
    <3>1. report[t] = Absent /\ evidence[t] = CutBy(r)
      BY <1>3, <2>1, <2>4 DEF FinishEvidence, SequentialInbox
    <3>2. pc'[r] = "startReport" /\ report' = report /\ evidence'[t] = Whole
      BY <1>1, <2>4, <3>1, WriteIsWhole DEF FinishEvidence, TypeOK
    <3>3. QED BY <1>1, <1>3, <2>1, <3>1, <3>2 DEF SequentialInbox
  <2>5. CASE StartReport(r)
    <3>1. evidence[t] = Whole
      BY <1>3, <2>1, <2>5 DEF StartReport, SequentialInbox
    <3>2. pc'[r] = "finishReport" /\ evidence' = evidence /\ report'[t] = CutBy(r)
      BY <1>1, <2>5 DEF StartReport, Truncated, TypeOK
    <3>3. QED BY <3>1, <3>2, FilesDiffer
  <2>6. CASE FinishReport(r)
    <3>1. evidence[t] = Whole /\ report[t] # Absent
      BY <1>3, <2>1, <2>6 DEF FinishReport, SequentialInbox
    <3>2. \A f \in Written(report, r) : f # Absent
      BY <3>1, FilesDiffer DEF Written
    <3>3. pc'[r] = "complete" /\ evidence' = evidence /\ report'[t] # Absent
      BY <1>1, <2>6, <3>2 DEF FinishReport, TypeOK
    <3>4. QED BY <3>1, <3>3
  <2>7. CASE SaveFails(r)
    <3>1. pc'[r] = "release" /\ evidence' = evidence /\ report' = report
      BY <2>7 DEF SaveFails, TypeOK
    <3>2. QED BY <1>1, <1>3, <2>1, <3>1 DEF SequentialInbox
  <2>8. QED BY <2>2, <2>3, <2>4, <2>5, <2>6, <2>7 DEF Saves
<1>4. ASSUME relay = "local", NEW u \in Ticket \ misread'
      PROVE  (/\ report[u] # Absent => evidence[u] = Whole
              /\ u \in done => report[u] # Absent)'
  <2>1. CASE u = t
    BY <1>1, <1>3, <1>4, <2>1
  <2>2. CASE u # t
    BY <1>1, <1>4, <2>2 DEF SequentialInbox
  <2>3. QED BY <2>1, <2>2
<1> DEFINE InOrder(s) ==
      LET u == ticket[s] IN
      /\ pc[s] # "post"
      /\ pc[s] \in {"startEvidence", "finishEvidence", "startReport"} => report[u] = Absent
      /\ pc[s] = "finishEvidence" => evidence[u] = CutBy(s)
      /\ pc[s] \in {"startReport", "finishReport"} => evidence[u] = Whole
      /\ pc[s] \in {"finishReport", "complete"} => report[u] # Absent
<1>5. ASSUME relay = "local", NEW s \in Request, ticket[s] \notin misread'
      PROVE  InOrder(s)'
  <2>1. CASE s = r
    BY <1>1, <1>3, <1>5, <2>1
  <2>2. CASE s # r /\ ticket[s] = t
    BY <1>1, <1>2, <2>2
  <2>3. CASE s # r /\ ticket[s] # t
    <3>1. InOrder(s)
      BY <1>1, <1>5 DEF SequentialInbox
    <3>2. ticket[s] \in Ticket \ {t}
      BY <2>3 DEF TypeOK
    <3>3. QED BY <1>1, <2>3, <3>1, <3>2 DEF CutBy
  <2>4. QED BY <2>1, <2>2, <2>3
<1>6. QED BY <1>1, <1>4, <1>5 DEF SequentialInbox

(* Every step keeps the local inbox while the requests about a ticket follow  *)
(* each other.                                                                *)
LEMMA SequentialInboxStep ==
  ASSUME TypeOK, OneAtATime, SequentialInbox, [Next]_vars
  PROVE  SequentialInbox'
<1>1. ASSUME NEW r \in Request, Saves(r) PROVE SequentialInbox'
  BY <1>1, SequentialWrite
<1>2. ASSUME NEW r \in Request, Complete(r) PROVE SequentialInbox'
  <2>1. /\ UNCHANGED <<relay, ticket, evidence, report, misread>>
        /\ done' \subseteq done \cup {ticket[r]}
        /\ \A s \in Request \ {r} : pc'[s] = pc[s]
        /\ pc[r] = "complete" /\ pc'[r] \in {"reply", "confirmDone"}
    BY <1>2 DEF TypeOK, Complete
  <2>2. QED BY <2>1 DEF SequentialInbox, CutBy
<1>3. ASSUME NEW r \in Request,
             \/ \E t \in Ticket : Receive(r, t)
             \/ Checks(r) \/ CreateLock(r) \/ RecreateLock(r) \/ StatLock(r)
             \/ RemoveLock(r) \/ ClaimFails(r) \/ Posts(r) \/ ConfirmDone(r)
             \/ CompleteFails(r) \/ Release(r) \/ ReleaseFails(r) \/ Reply(r)
      PROVE  SequentialInbox'
  <2>1. /\ UNCHANGED <<relay, evidence, report, done>>
        /\ misread \subseteq misread'
        /\ \A s \in Request \ {r} : pc'[s] = pc[s] /\ ticket'[s] = ticket[s]
        /\ \/ pc'[r] \notin (Posting \ {"post", "findReport"}) \cup {"complete"}
           \/ pc'[r] = "complete" /\ pc[r] = "post" /\ ticket' = ticket
        /\ pc'[r] = "post" => relay = "email"
    <3>1. CASE \E t \in Ticket : Receive(r, t)
      BY <3>1 DEF TypeOK, Receive
    <3>2. CASE Checks(r) \/ StatLock(r) \/ RemoveLock(r) \/ ClaimFails(r)
      BY <3>2 DEF TypeOK, Checks, CheckDone, RecheckDone, LastCheckDone, ExistsDone,
         Exists, Misreads, StatLock, RemoveLock, ClaimFails
    <3>3. CASE CreateLock(r) \/ RecreateLock(r)
      BY <3>3 DEF TypeOK, CreateLock, RecreateLock, OpenExclusive
    <3>4. CASE Posts(r)
      BY <3>4 DEF TypeOK, Posts, Verify, Deliver, PostAccepted, PostFailed
    <3>5. CASE ConfirmDone(r) \/ CompleteFails(r) \/ Release(r) \/ ReleaseFails(r) \/ Reply(r)
      BY <3>5 DEF TypeOK, ConfirmDone, Exists, Misreads, CompleteFails, Release,
         ReleaseFails, Reply
    <3>6. QED BY <1>3, <3>1, <3>2, <3>3, <3>4, <3>5
  <2>2. QED BY <2>1 DEF SequentialInbox, CutBy
<1>4. CASE Crash
  BY <1>4 DEF Crash, TypeOK, SequentialInbox
<1>5. ASSUME NEW t \in Ticket, AgeLock(t) PROVE SequentialInbox'
  BY <1>5 DEF AgeLock, SequentialInbox, CutBy
<1>6. CASE UNCHANGED vars
  BY <1>6 DEF vars, SequentialInbox, CutBy
<1>7. QED
  BY <1>1, <1>2, <1>3, <1>4, <1>5, <1>6 DEF Next, Handle, Checks, Posts, Saves

(* As long as the requests about a ticket follow each other, its report.json  *)
(* is found only beside whole evidence and every recorded delivery has one,   *)
(* also after crashes and failed writes.                                      *)
THEOREM SequentialInboxInOrder == Spec /\ []OneAtATime => []InboxInOrder
<1>1. Init => SequentialInbox
  BY DEF Init, SequentialInbox
<1>2. TypeOK /\ OneAtATime /\ SequentialInbox /\ [Next]_vars => SequentialInbox'
  BY SequentialInboxStep
<1>3. SequentialInbox => InboxInOrder
  BY DEF SequentialInbox, InboxInOrder
<1>4. QED BY <1>1, <1>2, <1>3, TypeCorrectness, PTL DEF Spec

(* In particular with a single slot for requests, the instance that TLC       *)
(* explores.                                                                  *)
THEOREM OneSlotSendsOnce ==
  ASSUME \A r, s \in Request : r = s
  PROVE  Spec => NoClaimOnceDelivered /\ []InboxInOrder
<1>1. OneAtATime
  BY DEF OneAtATime
<1> QED
  BY <1>1, SequentialRetriesSendOnce, SequentialInboxInOrder, PTL
===============================================================================
