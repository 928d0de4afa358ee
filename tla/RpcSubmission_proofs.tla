------------------------ MODULE RpcSubmission_proofs ------------------------
(***************************************************************************)
(* Safety of the submission loop for every number of attempts and          *)
(* identifiers, and for every behaviour of node, chain and indexer.        *)
(***************************************************************************)
EXTENDS RpcSubmission, TLAPS

(* Copies come from attempts, and an attempt still to be made has sent none;
   a round that waits has an attempt left. *)
AttemptsBoundCopies ==
  /\ copies \leq attempt
  /\ pc = "submit" => copies < attempt
  /\ pc = "waiting" => attempt < MaxAttempts

(* What the indexer has seen is in a block. *)
IndexedIsFinal ==
  /\ indexed => chain \in Verdicts
  /\ before = "indexed" => indexed

(* A lookup that goes on, or has ended without a verdict, found nothing. *)
NothingFound ==
  (pc \in {"lookup", "waiting"} \/ outcome = "gaveUp") =>
    ~(before = "indexed" /\ answered)

(* An outcome is told once, at the end. *)
ToldAtTheEnd == outcome # "pending" => pc = "done"

(* A lookup follows a failure. *)
LookupHasACause == pc = "lookup" => error # "none"

IInv ==
  /\ TypeOK
  /\ AttemptsBoundCopies
  /\ IndexedIsFinal
  /\ NothingFound
  /\ ToldAtTheEnd
  /\ LookupHasACause
  /\ VerdictsAreReal
  /\ GivesUpForCause

(* Initially the invariant holds. *)
LEMMA InitIInv == Init => IInv
<1> SUFFICES ASSUME Init PROVE IInv
  OBVIOUS
<1>1. TypeOK
  <2>1. 1 \in 1 .. MaxAttempts /\ 0 \in 0 .. MaxAttempts /\ 0 \in 0 .. Identifiers
    BY LimitsAssumption
  <2> QED
    BY <2>1, Zenon DEF Init, TypeOK, Outcomes, Verdicts, Progress
<1>2. AttemptsBoundCopies
  BY DEF Init, AttemptsBoundCopies
<1>3. IndexedIsFinal /\ NothingFound
  BY DEF Init, IndexedIsFinal, NothingFound
<1>4. ToldAtTheEnd /\ LookupHasACause /\ VerdictsAreReal /\ GivesUpForCause
  BY DEF Init, ToldAtTheEnd, LookupHasACause, VerdictsAreReal, GivesUpForCause, Verdicts
<1> QED
  BY <1>1, <1>2, <1>3, <1>4 DEF IInv

(* The loop's steps. *)
LEMMA LoopKeepsIInv == IInv /\ Loop => IInv'
<1> SUFFICES ASSUME IInv, Loop PROVE IInv'
  OBVIOUS
<1> USE LimitsAssumption
    DEF IInv, TypeOK, AttemptsBoundCopies, IndexedIsFinal, NothingFound,
        ToldAtTheEnd, LookupHasACause, VerdictsAreReal, GivesUpForCause, Outcomes, Verdicts, Progress
<1>1. CASE Submit
  BY <1>1 DEF Submit, history
<1>2. CASE WatcherReports
  BY <1>2 DEF WatcherReports, world, history
<1>3. ASSUME NEW kind \in {"transient", "permanent"}, WatcherFails(kind)
      PROVE  IInv'
  <2>1. /\ Reached \in {"absent", "accepted", "indexed"}
        /\ Reached = "indexed" => indexed
    BY DEF Reached
  <2>2. answered' \in BOOLEAN /\ ~answered'
    BY <1>3, Zenon DEF WatcherFails
  <2>3. TypeOK'
    BY <1>3, <2>1, <2>2 DEF WatcherFails, world
  <2> QED
    BY <1>3, <2>1, <2>2, <2>3 DEF WatcherFails, world
<1>4. CASE IndexerAnswers
  <2>1. CASE indexed
    <3>1. Found = chain /\ Found # "unknown"
      BY <2>1 DEF Found
    <3> QED
      BY <1>4, <2>1, <3>1 DEF IndexerAnswers, world
  <2>2. CASE ~indexed
    BY <1>4, <2>2 DEF IndexerAnswers, Found, world
  <2> QED
    BY <2>1, <2>2
<1>5. CASE IndexerFails
  BY <1>5 DEF IndexerFails, world, history
<1>6. CASE GiveUp
  <2>1. error = "permanent" \/ attempt = MaxAttempts
    BY <1>6 DEF GiveUp, MayRetry
  <2> QED
    BY <1>6, <2>1 DEF GiveUp, world, history
<1>7. CASE Wait
  BY <1>7 DEF Wait, MayRetry, world, history
<1>8. CASE Retry
  BY <1>8 DEF Retry, world, history
<1> QED
  BY <1>1, <1>2, <1>3, <1>4, <1>5, <1>6, <1>7, <1>8 DEF Loop

(* The steps of node, chain and indexer. *)
LEMMA WorldKeepsIInv == IInv /\ World => IInv'
<1> SUFFICES ASSUME IInv, World PROVE IInv'
  OBVIOUS
<1> USE LimitsAssumption
    DEF IInv, TypeOK, AttemptsBoundCopies, IndexedIsFinal, NothingFound,
        ToldAtTheEnd, LookupHasACause, VerdictsAreReal, GivesUpForCause, Outcomes, Verdicts, Progress,
        loop, history
<1>1. CASE NodeTakes
  BY <1>1 DEF NodeTakes
<1>2. CASE CopyGoes
  BY <1>2 DEF CopyGoes
<1>3. CASE NodeDrops
  BY <1>3 DEF NodeDrops
<1>4. ASSUME NEW result \in Verdicts, BlockIncludes(result)
      PROVE  IInv'
  BY <1>4 DEF BlockIncludes
<1>5. CASE IndexerCatchesUp
  BY <1>5 DEF IndexerCatchesUp
<1> QED
  BY <1>1, <1>2, <1>3, <1>4, <1>5 DEF World

(* So the invariant holds always. *)
THEOREM Invariance == Spec => []IInv
<1>1. IInv /\ UNCHANGED vars => IInv'
  BY DEF vars, IInv, TypeOK, AttemptsBoundCopies, IndexedIsFinal, NothingFound,
         ToldAtTheEnd, LookupHasACause, VerdictsAreReal, GivesUpForCause
<1>2. IInv /\ [Next]_vars => IInv'
  BY <1>1, LoopKeepsIInv, WorldKeepsIInv DEF Next
<1> QED
  BY <1>2, InitIInv, PTL DEF Spec

(* Every variable keeps its type; in particular there are never more than
   MaxAttempts attempts, nor more copies than attempts. *)
THEOREM TypeCorrectness == Spec => []TypeOK
<1>1. IInv => TypeOK
  BY DEF IInv
<1> QED
  BY <1>1, Invariance, PTL

(* A verdict that reaches the caller is the chain's. *)
THEOREM VerdictsAreTrue == Spec => []VerdictsAreReal
<1>1. IInv => VerdictsAreReal
  BY DEF IInv
<1> QED
  BY <1>1, Invariance, PTL

(* The loop gives up only for a cause. *)
THEOREM NoEarlyEnd == Spec => []GivesUpForCause
<1>1. IInv => GivesUpForCause
  BY DEF IInv
<1> QED
  BY <1>1, Invariance, PTL

(* Nothing is sent again that the indexer was known to have. *)
THEOREM ResendsAreJustified == Spec => NoBlindResend
<1>1. IInv => ((pc = "waiting" /\ pc' = "submit") => ~(before = "indexed" /\ answered))
  BY DEF IInv, NothingFound
<1>2. IInv /\ [Next]_vars =>
        [(pc = "waiting" /\ pc' = "submit") => ~(before = "indexed" /\ answered)]_vars
  BY <1>1
<1> QED
  BY <1>2, Invariance, PTL DEF Spec, NoBlindResend

-----------------------------------------------------------------------------
(* When the comment on submitWithRpcRecovery is right. *)

(* The lookup sees what the watcher's failure left: it does not begin between
   acceptance and the indexer's block, and one that begins after the block
   gets an answer before the loop goes on. *)
LookupsSee == pc = "waiting" => before # "accepted" /\ (before = "indexed" => answered)

(* Then the loop sends again only what had not been accepted. *)
SentAfterAbsent == pc = "submit" => before = "absent"

(* One step. *)
LEMMA SentAfterAbsentStep ==
  IInv /\ LookupsSee /\ SentAfterAbsent /\ [Next]_vars => SentAfterAbsent'
<1> SUFFICES ASSUME IInv, LookupsSee, SentAfterAbsent, [Next]_vars PROVE SentAfterAbsent'
  OBVIOUS
<1>1. CASE Retry
  BY <1>1 DEF Retry, history, IInv, TypeOK, Progress, NothingFound, LookupsSee, SentAfterAbsent
<1>2. CASE Loop /\ ~Retry
  BY <1>2 DEF Loop, Submit, WatcherReports, WatcherFails, IndexerAnswers, IndexerFails, GiveUp,
       Wait, SentAfterAbsent
<1>3. CASE World \/ UNCHANGED vars
  BY <1>3 DEF World, NodeTakes, CopyGoes, NodeDrops, BlockIncludes, IndexerCatchesUp, loop,
       history, vars, SentAfterAbsent
<1> QED
  BY <1>1, <1>2, <1>3 DEF Next

(* "The indexer lookup prevents a duplicate submission" (the comment on
   submitWithRpcRecovery) holds where the lookups see: the two gaps of
   LookupsSee are all that the run rpc_duplicate can be about. *)
THEOREM SeeingLookupsPreventDuplicates == Spec /\ []LookupsSee => NoDuplicateSubmission
<1>1. Init => SentAfterAbsent
  BY DEF Init, SentAfterAbsent
<1>2. SentAfterAbsent /\ [Next]_vars =>
        [(pc = "submit" /\ pc' = "watching") => before = "absent" \/ chain = "absent"]_vars
  BY DEF SentAfterAbsent
<1> QED
  BY <1>1, <1>2, SentAfterAbsentStep, Invariance, PTL DEF Spec, NoDuplicateSubmission

-----------------------------------------------------------------------------
(* How long the loop can run. *)

(* The steps that are left of this attempt, and of those after it. *)
PerAttempt == Identifiers + 4
LeftOfAttempt ==
  CASE pc = "submit"   -> Identifiers + 4
    [] pc = "watching" -> Identifiers + 3
    [] pc = "lookup"   -> Identifiers - asked + 2
    [] pc = "waiting"  -> 1
    [] pc = "done"     -> 0
StepsLeft == (MaxAttempts - attempt) * PerAttempt + LeftOfAttempt

(* A product with one factor less. *)
LEMMA OneFactorLess ==
  ASSUME NEW n \in Nat \ {0}, NEW k \in Nat
  PROVE  n * k \in Nat /\ (n - 1) * k = n * k - k
OBVIOUS

(* Each step the loop takes uses one up, and nothing in the world adds any. *)
LoopAdvances ==
  [][ /\ Loop => StepsLeft' < StepsLeft
      /\ World => StepsLeft' = StepsLeft ]_vars

(* What is left is a number. *)
LEMMA StepsLeftTyped ==
  ASSUME TypeOK
  PROVE  /\ StepsLeft \in Nat /\ LeftOfAttempt \in Nat
         /\ (MaxAttempts - attempt) * PerAttempt \in Nat
<1>1. LeftOfAttempt \in Nat
  BY LimitsAssumption DEF TypeOK, LeftOfAttempt
<1>2. MaxAttempts - attempt \in Nat /\ PerAttempt \in Nat
  BY LimitsAssumption DEF TypeOK, PerAttempt
<1>3. (MaxAttempts - attempt) * PerAttempt \in Nat
  BY <1>2
<1> QED
  BY <1>1, <1>3 DEF StepsLeft

(* The loop's steps. *)
LEMMA LoopUsesSteps ==
  ASSUME IInv, IInv', Loop
  PROVE  StepsLeft' < StepsLeft
<1> DEFINE later == (MaxAttempts - attempt) * PerAttempt
<1>1. TypeOK /\ TypeOK'
  BY DEF IInv
<1>2. /\ later \in Nat /\ LeftOfAttempt \in Nat /\ LeftOfAttempt' \in Nat
      /\ StepsLeft = later + LeftOfAttempt
      /\ StepsLeft' = later' + LeftOfAttempt'
  <2>1. LeftOfAttempt' \in Nat
    BY <1>1, LimitsAssumption DEF TypeOK, LeftOfAttempt
  <2> QED
    BY <1>1, <2>1, StepsLeftTyped DEF StepsLeft
<1>3. CASE ~Retry
  <2>1. attempt' = attempt
    BY <1>3 DEF Loop, Submit, WatcherReports, WatcherFails, IndexerAnswers, IndexerFails, GiveUp,
         Wait
  <2>2. LeftOfAttempt' < LeftOfAttempt
    BY <1>1, <1>3, LimitsAssumption
       DEF Loop, Submit, WatcherReports, WatcherFails, IndexerAnswers, IndexerFails, GiveUp, Wait,
           LeftOfAttempt, TypeOK
  <2>3. later' = later
    BY <2>1 DEF PerAttempt
  <2>4. StepsLeft' = later + LeftOfAttempt'
    BY <1>2, <2>3
  <2>5. \A n, l, m \in Nat : m < l => n + m < n + l
    OBVIOUS
  <2> QED
    BY <1>2, <2>2, <2>4, <2>5
<1>4. CASE Retry
  <2>1. /\ attempt' = attempt + 1 /\ attempt < MaxAttempts
        /\ LeftOfAttempt = 1 /\ LeftOfAttempt' = PerAttempt
    BY <1>4 DEF Retry, IInv, AttemptsBoundCopies, LeftOfAttempt, PerAttempt
  <2>2. MaxAttempts - attempt \in Nat \ {0} /\ PerAttempt \in Nat
    BY <1>1, <2>1, LimitsAssumption DEF TypeOK, PerAttempt
  <2>3. later' = (MaxAttempts - attempt - 1) * PerAttempt
    <3>1. MaxAttempts - (attempt + 1) = MaxAttempts - attempt - 1
      BY <1>1, LimitsAssumption DEF TypeOK
    <3> QED
      BY <2>1, <3>1 DEF PerAttempt
  <2>4. later' = later - PerAttempt
    BY <2>2, <2>3, OneFactorLess
  <2> HIDE DEF later
  <2> QED
    BY <1>2, <2>1, <2>2, <2>4
<1> QED
  BY <1>3, <1>4

(* The safety half of AlwaysAnswered, for every number of attempts and
   identifiers: the loop takes at most MaxAttempts * (Identifiers + 4) steps,
   whatever node, chain and indexer do.  (At every place but the end one of
   its steps is possible; that it is taken is fairness.) *)
THEOREM LoopIsBounded ==
  Spec => /\ StepsLeft = MaxAttempts * PerAttempt
          /\ [](StepsLeft \in Nat)
          /\ LoopAdvances
<1>1. Init => StepsLeft = MaxAttempts * PerAttempt
  <2> SUFFICES ASSUME Init PROVE StepsLeft = MaxAttempts * PerAttempt
    OBVIOUS
  <2>1. StepsLeft = (MaxAttempts - 1) * PerAttempt + PerAttempt
    BY DEF Init, StepsLeft, LeftOfAttempt, PerAttempt
  <2>2. PerAttempt \in Nat
    BY LimitsAssumption DEF PerAttempt
  <2>3. /\ MaxAttempts * PerAttempt \in Nat
        /\ (MaxAttempts - 1) * PerAttempt = MaxAttempts * PerAttempt - PerAttempt
    BY <2>2, LimitsAssumption, OneFactorLess
  <2> QED
    BY <2>1, <2>2, <2>3
<1>2. IInv => StepsLeft \in Nat
  BY StepsLeftTyped DEF IInv
<1>3. IInv /\ IInv' /\ [Next]_vars =>
        [ /\ Loop => StepsLeft' < StepsLeft
          /\ World => StepsLeft' = StepsLeft ]_vars
  <2>1. World => UNCHANGED <<pc, attempt, asked>>
    BY DEF World, NodeTakes, CopyGoes, NodeDrops, BlockIncludes, IndexerCatchesUp, loop
  <2>2. World => StepsLeft' = StepsLeft
    BY <2>1 DEF StepsLeft, LeftOfAttempt, PerAttempt
  <2> QED
    BY <2>2, LoopUsesSteps
<1> QED
  BY <1>1, <1>2, <1>3, Invariance, PTL DEF Spec, LoopAdvances
=============================================================================
