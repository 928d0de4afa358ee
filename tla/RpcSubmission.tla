--------------------------- MODULE RpcSubmission ---------------------------
(***************************************************************************)
(* submitWithRpcRecovery (apps/midnight-cli/src/submission.ts): one        *)
(* finalized transaction is handed to the wallet's submission client; when *)
(* the client fails, the indexer is asked for each of the transaction's    *)
(* identifiers, and the transaction is sent again only if the answer is    *)
(* inconclusive, the error looks transient and an attempt is left.         *)
(*                                                                         *)
(* The node, the chain, the indexer and the SDK's watcher are not in the   *)
(* repository.  They are modelled by the little the loop relies on: a copy *)
(* may get lost, the node takes a transaction at most once, a block and    *)
(* the indexer follow at their own pace, and the watcher may fail at any   *)
(* time, whatever became of its copy.                                      *)
(***************************************************************************)
EXTENDS Naturals

CONSTANTS
  MaxAttempts,     \* GHOSTWHISTLE_SUBMISSION_ATTEMPTS, by default 3
  Identifiers      \* how many identifiers the transaction has

ASSUME LimitsAssumption ==
  /\ MaxAttempts \in Nat \ {0}
  /\ Identifiers \in Nat

VARIABLES
  pc,          \* where the loop is
  attempt,     \* the loop's counter
  error,       \* what isTransientError makes of lastError
  asked,       \* identifiers already looked up after this failure
  outcome,     \* what the caller is told
  copies,      \* copies on the way to the node
  chain,       \* the transaction at the node
  indexed,     \* the indexer has seen the block
  before,      \* history: how far the transaction was when the lookup began
  answered     \* history: the indexer answered a request of this lookup

loop == <<pc, attempt, error, asked, outcome>>
world == <<copies, chain, indexed>>
history == <<before, answered>>
vars == <<pc, attempt, error, asked, outcome, copies, chain, indexed, before, answered>>

(* IndexedTransactionStatus, without 'unknown'. *)
Verdicts == {"success", "partial", "failure"}
Outcomes == {"pending", "watched", "gaveUp"} \cup Verdicts

(* How far the transaction has come, seen from outside. *)
Progress == {"absent", "accepted", "indexed"}
Reached ==
  CASE indexed -> "indexed"
    [] ~indexed /\ chain # "absent" -> "accepted"
    [] OTHER -> "absent"

TypeOK ==
  /\ pc \in {"submit", "watching", "lookup", "waiting", "done"}
  /\ attempt \in 1 .. MaxAttempts
  /\ error \in {"none", "transient", "permanent"}
  /\ asked \in 0 .. Identifiers
  /\ outcome \in Outcomes
  /\ copies \in 0 .. MaxAttempts
  /\ chain \in {"absent", "pooled"} \cup Verdicts
  /\ indexed \in BOOLEAN
  /\ before \in Progress
  /\ answered \in BOOLEAN

Init ==
  /\ pc = "submit"
  /\ attempt = 1
  /\ error = "none"
  /\ asked = 0
  /\ outcome = "pending"
  /\ copies = 0
  /\ chain = "absent"
  /\ indexed = FALSE
  /\ before = "absent"
  /\ answered = FALSE

-----------------------------------------------------------------------------
(* The loop. *)

(* wallet.submitTransaction(transaction): a copy leaves for the node. *)
Submit ==
  /\ pc = "submit"
  /\ pc' = "watching"
  /\ copies' = copies + 1
  /\ UNCHANGED <<attempt, error, asked, outcome, chain, indexed, history>>

(* The watcher reports that the node has the transaction. *)
WatcherReports ==
  /\ pc = "watching"
  /\ chain # "absent"
  /\ pc' = "done"
  /\ outcome' = "watched"
  /\ UNCHANGED <<attempt, error, asked, world, history>>

(* The watcher fails: a lost connection or a timeout, which isTransientError
   lets pass, or a refusal by the node, which it does not.  The node also
   refuses a copy of what it already has, so a refusal says nothing about an
   earlier copy.  The lookup begins. *)
WatcherFails(kind) ==
  /\ pc = "watching"
  /\ pc' = "lookup"
  /\ error' = kind
  /\ asked' = 0
  /\ before' = Reached
  /\ answered' = FALSE
  /\ UNCHANGED <<attempt, outcome, world>>

(* What the indexer answers for an identifier: the verdict if it has the
   block, otherwise 'unknown'. *)
\* Mutants of Found: what the indexer lacks has failed; PARTIAL_SUCCESS forgotten.
FoundOrFailed == IF indexed THEN chain ELSE "failure"
FoundNotPartial == IF indexed /\ chain # "partial" THEN chain ELSE "unknown"

Found == IF indexed THEN chain ELSE "unknown"

(* An answer for the next identifier; a verdict ends the loop. *)
IndexerAnswers ==
  /\ pc = "lookup"
  /\ asked < Identifiers
  /\ asked' = asked + 1
  /\ answered' = TRUE
  /\ IF Found = "unknown"
       THEN UNCHANGED <<pc, outcome>>
       ELSE pc' = "done" /\ outcome' = Found
  /\ UNCHANGED <<attempt, error, world, before>>

(* The request fails, times out after 5 s or is answered with an error
   status: inconclusive, on to the next identifier. *)
IndexerFails ==
  /\ pc = "lookup"
  /\ asked < Identifiers
  /\ asked' = asked + 1
  /\ UNCHANGED <<pc, attempt, error, outcome, world, history>>

(* No identifier was conclusive.  The loop breaks on a refusal and on the
   last attempt, otherwise it waits before the next one. *)
\* Mutants of MayRetry: the limit off by one, in both directions.
MayRetryOnceMore == error = "transient" /\ attempt <= MaxAttempts
MayRetryOnceLess == error = "transient" /\ attempt + 1 < MaxAttempts

MayRetry == error = "transient" /\ attempt < MaxAttempts

GiveUp ==
  /\ pc = "lookup"
  /\ asked = Identifiers
  /\ ~MayRetry
  /\ pc' = "done"
  /\ outcome' = "gaveUp"
  /\ UNCHANGED <<attempt, error, asked, world, history>>

Wait ==
  /\ pc = "lookup"
  /\ asked = Identifiers
  /\ MayRetry
  /\ pc' = "waiting"
  /\ UNCHANGED <<attempt, error, asked, outcome, world, history>>

\* Mutant of Retry: the attempt is not counted.
RetryUncounted ==
  /\ pc = "waiting"
  /\ pc' = "submit"
  /\ UNCHANGED <<attempt, error, asked, outcome, world, history>>

(* The delay is over: the next round of the loop. *)
Retry ==
  /\ pc = "waiting"
  /\ pc' = "submit"
  /\ attempt' = attempt + 1
  /\ UNCHANGED <<error, asked, outcome, world, history>>

-----------------------------------------------------------------------------
(* The world. *)

(* A copy arrives and the node takes the transaction into its pool. *)
NodeTakes ==
  /\ copies > 0
  /\ chain = "absent"
  /\ copies' = copies - 1
  /\ chain' = "pooled"
  /\ UNCHANGED <<loop, indexed, history>>

(* A copy is lost, or refused: as invalid, or as one the node already has. *)
CopyGoes ==
  /\ copies > 0
  /\ copies' = copies - 1
  /\ UNCHANGED <<loop, chain, indexed, history>>

(* The pool drops the transaction; a later copy may be taken again. *)
NodeDrops ==
  /\ chain = "pooled"
  /\ chain' = "absent"
  /\ UNCHANGED <<loop, copies, indexed, history>>

(* A block includes the transaction, with one of the results. *)
BlockIncludes(result) ==
  /\ chain = "pooled"
  /\ chain' = result
  /\ UNCHANGED <<loop, copies, indexed, history>>

(* The indexer reaches that block. *)
IndexerCatchesUp ==
  /\ chain \in Verdicts
  /\ ~indexed
  /\ indexed' = TRUE
  /\ UNCHANGED <<loop, copies, chain, history>>

World ==
  \/ NodeTakes
  \/ CopyGoes
  \/ NodeDrops
  \/ \E result \in Verdicts : BlockIncludes(result)
  \/ IndexerCatchesUp

Loop ==
  \/ Submit
  \/ WatcherReports
  \/ \E kind \in {"transient", "permanent"} : WatcherFails(kind)
  \/ IndexerAnswers
  \/ IndexerFails
  \/ GiveUp
  \/ Wait
  \/ Retry

Next == Loop \/ World

Spec == Init /\ [][Next]_vars

(* The event loop runs what can run; the SDK settles the promise of
   submitTransaction one way or the other, and the indexer request has a
   timeout.  Nothing is assumed of the node, the chain or the indexer. *)
FairSpec == Spec /\ WF_vars(Loop)

-----------------------------------------------------------------------------
(* Properties. *)

(* What the caller is told is true: a verdict is the chain's, and the
   transaction reached the node before anything but a failure was reported.
   (The pool may drop a watched transaction later.)  The checks that return
   or throw inside the loop. *)
VerdictsAreReal == outcome \in Verdicts => indexed /\ chain = outcome

(* The lookup does its work where it can: a transaction is not submitted
   again if the indexer had its block before the lookup began and answered
   even one request of it.  A failed request for one identifier must not hide
   the answer for another. *)
NoBlindResend ==
  [][ (pc = "waiting" /\ pc' = "submit") => ~(before = "indexed" /\ answered) ]_vars

(* The loop does not stop early: it gives up after a refusal or after all its
   attempts, and reports a transaction as lost only if this lookup found
   nothing. *)
GivesUpForCause ==
  outcome = "gaveUp" =>
    /\ error = "permanent" \/ attempt = MaxAttempts
    /\ ~(before = "indexed" /\ answered)

(* The caller is always answered, whatever node, chain and indexer do. *)
AlwaysAnswered == <>(pc = "done")

(* "If the RPC watcher disconnects after acceptance, the indexer lookup
   prevents a duplicate submission" (the comment on submitWithRpcRecovery):
   what the node had accepted when the watcher failed, and has still, is not
   submitted again. *)
NoDuplicateSubmission ==
  [][ (pc = "submit" /\ pc' = "watching") =>
        before = "absent" \/ chain = "absent" ]_vars

=============================================================================
