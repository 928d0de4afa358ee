---------------------------- MODULE ReportDelivery ----------------------------
(***************************************************************************)
(* POST /api/report/deliver of the issuer server with its file-backed      *)
(* delivery store and the relay the server was started with: the e-mail    *)
(* gateway, or the local relay, which keeps the report in an inbox         *)
(* directory of its own, in files that it writes in place.                 *)
(*                                                                         *)
(* The server is one Node process; every await is a point where other      *)
(* requests run.  An action is the code between two awaits, so each file   *)
(* operation is a step of its own, and any file operation may fail.        *)
(* Shared between the requests are two files per ticket in the store,      *)
(* <ticket>.lock and <ticket>.done, and in the inbox report.json and the   *)
(* evidence (one file stands for all attachments).  Two requests with one  *)
(* ticket carry the same report: the ticket is bound to it.  The process   *)
(* may crash at any point: the requests are gone, the files stay.          *)
(***************************************************************************)
EXTENDS Naturals

CONSTANTS Ticket,     \* tickets of accepted reports
          Request,    \* slots for concurrent HTTP requests
          NoLock,     \* the lock file does not exist
          Nobody,     \* the lock file's creator is no longer running
          MaxFaults   \* bound on crashes and file operations that fail

ASSUME DeliveryAssumption ==
  /\ Nobody \notin Request
  /\ NoLock \notin [creator : Request \cup {Nobody}, stale : BOOLEAN]
  /\ MaxFaults \in Nat

VARIABLES pc,       \* where each request is in the handler
          ticket,   \* the ticket each request is about
          lock,     \* the lock file of each ticket
          done,     \* tickets whose .done file exists
          relay,    \* the relay: "email" or "local"
          evidence, \* the local relay's files of each ticket: the evidence,
          report,   \*   and report.json
          mailed,   \* tickets whose report the mail provider accepted, or
                    \* whose report.json was created
          told,     \* tickets a browser got a 200 for
          faults,   \* faults so far
          troubled, \* history: tickets that saw a failed delivery, or whose
                    \* lock grew older than staleLockMs (30 minutes)
          misread   \* history: tickets a file of which was there and was
                    \* taken to be absent, because access() failed

inbox   == <<relay, evidence, report>>
history == <<troubled, misread>>
vars == <<pc, ticket, lock, done, inbox, mailed, told, faults, history>>

Lock == [creator : Request \cup {Nobody}, stale : BOOLEAN]

\* A file that is cut has been truncated by a request since it was whole.
File == [state : {"absent", "cut", "whole"}, by : Request \cup {Nobody}]
Absent   == [state |-> "absent", by |-> Nobody]
Whole    == [state |-> "whole", by |-> Nobody]
CutBy(r) == [state |-> "cut", by |-> r]

\* The claim was granted and has not been completed or released.
Posting == {"post", "findReport", "startEvidence", "finishEvidence",
            "startReport", "finishReport"}
Holding == {"verify", "complete", "confirmDone", "release"} \cup Posting
Claiming == {"checkDone", "createLock", "recheckDone", "statLock",
             "removeLock", "lastCheckDone", "recreateLock"}

TypeOK ==
  /\ pc \in [Request -> {"idle", "reply"} \cup Claiming \cup Holding]
  /\ ticket \in [Request -> Ticket]
  /\ lock \in [Ticket -> Lock \cup {NoLock}]
  /\ done \subseteq Ticket
  /\ relay \in {"email", "local"}
  /\ evidence \in [Ticket -> File] /\ report \in [Ticket -> File]
  /\ mailed \subseteq Ticket
  /\ told \subseteq Ticket
  /\ faults \in 0..MaxFaults
  /\ troubled \subseteq Ticket
  /\ misread \subseteq Ticket

Init ==
  /\ pc = [r \in Request |-> "idle"]
  /\ ticket \in [Request -> Ticket]
  /\ lock = [t \in Ticket |-> NoLock]
  /\ relay \in {"email", "local"}
  /\ evidence = [t \in Ticket |-> Absent] /\ report = [t \in Ticket |-> Absent]
  /\ done = {} /\ mailed = {} /\ told = {} /\ troubled = {} /\ misread = {}
  /\ faults = 0

------------------------------------------------------------------------------
At(r, label)    == pc[r] = label
Goto(r, label)  == pc' = [pc EXCEPT ![r] = label]
Troubles(r)     == troubled' = troubled \cup {ticket[r]}
Fault           == faults < MaxFaults /\ faults' = faults + 1
files == <<lock, done>>

\* A browser sends (or re-sends) the report of ticket t; the body was parsed
\* and the rate limiter let it pass.
Receive(r, t) ==
  /\ At(r, "idle")
  /\ ticket' = [ticket EXCEPT ![r] = t]
  /\ Goto(r, "checkDone")
  /\ UNCHANGED <<files, inbox, mailed, told, faults, history>>

(* claim() *)

\* Mutant of ExistsDone: the check looks for the wrong file and never finds it.
ExistsDoneNever(r, here, next) ==
  /\ At(r, here)
  /\ Goto(r, next)
  /\ UNCHANGED <<ticket, files, inbox, mailed, told, faults, history>>

\* exists(): any error of access() counts as "no such file".
Misreads(r) ==
  /\ Fault
  /\ misread' = misread \cup {ticket[r]}
Exists(r, there, yes, no) ==
  \/ there /\ Goto(r, yes) /\ UNCHANGED <<faults, misread>>
  \/ ~ there /\ Goto(r, no) /\ UNCHANGED <<faults, misread>>
  \/ there /\ Goto(r, no) /\ Misreads(r)

\* One of claim()'s three exists(done) checks: 200 "duplicate" if the file is
\* there, else on to the next file operation.
ExistsDone(r, here, next) ==
  /\ At(r, here)
  /\ Exists(r, ticket[r] \in done, "reply", next)
  /\ UNCHANGED <<ticket, files, inbox, mailed, told, troubled>>

CheckDone(r)     == ExistsDone(r, "checkDone", "createLock")
RecheckDone(r)   == ExistsDone(r, "recheckDone", "statLock")
LastCheckDone(r) == ExistsDone(r, "lastCheckDone", "recreateLock")

\* Mutant of OpenExclusive: open(path, 'w').
OpenShared(r, here, taken) ==
  /\ At(r, here)
  /\ lock' = [lock EXCEPT ![ticket[r]] = [creator |-> r, stale |-> FALSE]]
  /\ Goto(r, "verify")
  /\ UNCHANGED <<ticket, done, inbox, mailed, told, faults, history>>

\* createLock(): open(path, 'wx') is atomic; a write that fails afterwards
\* rejects the claim (500) and leaves the file behind.
OpenExclusive(r, here, taken) ==
  /\ At(r, here)
  /\ \/ /\ lock[ticket[r]] # NoLock
        /\ Goto(r, taken)
        /\ UNCHANGED <<lock, faults>>
     \/ /\ lock[ticket[r]] = NoLock
        /\ lock' = [lock EXCEPT ![ticket[r]] = [creator |-> r, stale |-> FALSE]]
        /\ Goto(r, "verify")
        /\ UNCHANGED faults
     \/ /\ lock[ticket[r]] = NoLock
        /\ lock' = [lock EXCEPT ![ticket[r]] = [creator |-> Nobody, stale |-> FALSE]]
        /\ Goto(r, "idle")
        /\ Fault
  /\ UNCHANGED <<ticket, done, inbox, mailed, told, history>>

CreateLock(r)   == OpenExclusive(r, "createLock", "recheckDone")
RecreateLock(r) == OpenExclusive(r, "recreateLock", "idle")  \* 409

\* Mutant of StatLock: a lock that is there is never stale.
StatLockNeverStale(r) ==
  /\ At(r, "statLock")
  /\ Goto(r, IF lock[ticket[r]] = NoLock THEN "removeLock" ELSE "idle")
  /\ UNCHANGED <<ticket, files, inbox, mailed, told, faults, history>>

\* isStale(): a lock that is gone counts as stale; a fresh one is a 409.
StatLock(r) ==
  /\ At(r, "statLock")
  /\ LET l == lock[ticket[r]] IN
       Goto(r, IF l = NoLock \/ l.stale THEN "removeLock" ELSE "idle")
  /\ UNCHANGED <<ticket, files, inbox, mailed, told, faults, history>>

\* rm(lock, { force: true }): removes whatever lock is there now.
RemoveLock(r) ==
  /\ At(r, "removeLock")
  /\ lock' = [lock EXCEPT ![ticket[r]] = NoLock]
  /\ Goto(r, "lastCheckDone")
  /\ UNCHANGED <<ticket, done, inbox, mailed, told, faults, history>>

\* Any other error of mkdir(), open(), stat() or rm() rejects the claim: 500.
ClaimFails(r) ==
  /\ pc[r] \in Claiming
  /\ Fault
  /\ Goto(r, "idle")
  /\ UNCHANGED <<ticket, files, inbox, mailed, told, history>>

(* relay.deliver() *)

\* What each relay goes on to do with a message that was verified.
Deliver == IF relay = "email" THEN "post" ELSE "findReport"

\* Mutant of Verify: a refusal returns without releasing the claim.
VerifyKeepsLock(r) ==
  /\ At(r, "verify")
  /\ \/ Goto(r, Deliver) /\ UNCHANGED troubled
     \/ Goto(r, "idle") /\ Troubles(r)
  /\ UNCHANGED <<ticket, files, inbox, mailed, told, faults, misread>>

\* The ticket verifier refuses the message or cannot reach the indexer, or
\* lets it pass.
Verify(r) ==
  /\ At(r, "verify")
  /\ \/ Goto(r, Deliver) /\ UNCHANGED troubled
     \/ Goto(r, "release") /\ Troubles(r)
  /\ UNCHANGED <<ticket, files, inbox, mailed, told, faults, misread>>

\* The provider accepts the mail and says so.
PostAccepted(r) ==
  /\ At(r, "post")
  /\ mailed' = mailed \cup {ticket[r]}
  /\ Goto(r, "complete")
  /\ UNCHANGED <<ticket, files, inbox, told, faults, history>>

\* Mutant of PostFailed: the provider's error is not looked at.
PostFailedUnnoticed(r) ==
  /\ At(r, "post")
  /\ mailed' \in {mailed, mailed \cup {ticket[r]}}
  /\ Goto(r, "complete")
  /\ Troubles(r)
  /\ UNCHANGED <<ticket, files, inbox, told, faults, misread>>

\* The post fails; after a timeout the provider may have the mail all the same.
PostFailed(r) ==
  /\ At(r, "post")
  /\ mailed' \in {mailed, mailed \cup {ticket[r]}}
  /\ Goto(r, "release")
  /\ Troubles(r)
  /\ UNCHANGED <<ticket, files, inbox, told, faults, misread>>

(* relay.deliver() of the local relay *)

\* Mutant of FindReport: it looks for the report in another directory.
FindReportNever(r) ==
  /\ At(r, "findReport")
  /\ Goto(r, "startEvidence")
  /\ UNCHANGED <<ticket, files, inbox, mailed, told, faults, history>>

\* exists(report.json): the report was saved before.
FindReport(r) ==
  /\ At(r, "findReport")
  /\ Exists(r, report[ticket[r]] # Absent, "complete", "startEvidence")
  /\ UNCHANGED <<ticket, files, inbox, mailed, told, troubled>>

\* writeFile() first truncates the file, then writes what it has to write.
\* Whatever others wrote before the last truncation is gone; since all write
\* the same bytes, nothing else can be wrong with the file.
Truncated(file, r) == [file EXCEPT ![ticket[r]] = CutBy(r)]
Written(file, r)   == IF file[ticket[r]].by = r THEN {Whole} ELSE {file[ticket[r]], Whole}

\* Mutant of StartEvidence: the evidence is not waited for.
StartEvidenceUnawaited(r) ==
  /\ At(r, "startEvidence")
  /\ evidence' = Truncated(evidence, r)
  /\ Goto(r, "startReport")
  /\ UNCHANGED <<ticket, files, relay, report, mailed, told, faults, history>>

StartEvidence(r) ==
  /\ At(r, "startEvidence")
  /\ evidence' = Truncated(evidence, r)
  /\ Goto(r, "finishEvidence")
  /\ UNCHANGED <<ticket, files, relay, report, mailed, told, faults, history>>

FinishEvidence(r) ==
  /\ At(r, "finishEvidence")
  /\ \E f \in Written(evidence, r) : evidence' = [evidence EXCEPT ![ticket[r]] = f]
  /\ Goto(r, "startReport")
  /\ UNCHANGED <<ticket, files, relay, report, mailed, told, faults, history>>

StartReport(r) ==
  /\ At(r, "startReport")
  /\ report' = Truncated(report, r)
  /\ mailed' = mailed \cup {ticket[r]}
  /\ Goto(r, "finishReport")
  /\ UNCHANGED <<ticket, files, relay, evidence, told, faults, history>>

FinishReport(r) ==
  /\ At(r, "finishReport")
  /\ \E f \in Written(report, r) : report' = [report EXCEPT ![ticket[r]] = f]
  /\ Goto(r, "complete")
  /\ UNCHANGED <<ticket, files, relay, evidence, mailed, told, faults, history>>

\* mkdir() or writeFile() fails; a file it has truncated stays as it is.
SaveFails(r) ==
  /\ pc[r] \in Posting \ {"post", "findReport"}
  /\ Fault
  /\ Troubles(r)
  /\ Goto(r, "release")
  /\ UNCHANGED <<ticket, files, inbox, mailed, told, misread>>

(* complete() and release() *)

\* Mutant of Complete: the receipt is named after the request.
CompleteByRequest(r) ==
  /\ At(r, "complete")
  /\ lock' = [lock EXCEPT ![ticket[r]] = NoLock]
  /\ done' = done \cup {r}
  /\ Goto(r, "reply")
  /\ UNCHANGED <<ticket, inbox, mailed, told, faults, history>>

\* rename(lock, done), of whatever lock is there now.
Complete(r) ==
  /\ At(r, "complete")
  /\ \/ /\ lock[ticket[r]] # NoLock
        /\ lock' = [lock EXCEPT ![ticket[r]] = NoLock]
        /\ done' = done \cup {ticket[r]}
        /\ Goto(r, "reply")
     \/ /\ lock[ticket[r]] = NoLock
        /\ Goto(r, "confirmDone")
        /\ UNCHANGED files
  /\ UNCHANGED <<ticket, inbox, mailed, told, faults, history>>

\* rename failed with ENOENT: fine if somebody else completed the ticket.
ConfirmDone(r) ==
  /\ At(r, "confirmDone")
  /\ Exists(r, ticket[r] \in done, "reply", "release")
  /\ UNCHANGED <<ticket, files, inbox, mailed, told, troubled>>

\* rename failed otherwise.
CompleteFails(r) ==
  /\ At(r, "complete")
  /\ Fault
  /\ Troubles(r)
  /\ Goto(r, "release")
  /\ UNCHANGED <<ticket, files, inbox, mailed, told, misread>>

\* The handler's catch: rm(lock, { force: true }), then 500.
Release(r) ==
  /\ At(r, "release")
  /\ lock' = [lock EXCEPT ![ticket[r]] = NoLock]
  /\ Goto(r, "idle")
  /\ UNCHANGED <<ticket, done, inbox, mailed, told, faults, history>>

\* rm() fails: 500 as well, and the lock stays with nobody to release it.
ReleaseFails(r) ==
  /\ At(r, "release")
  /\ Fault
  /\ lock' = [lock EXCEPT ![ticket[r]] =
                IF @ # NoLock /\ @.creator = r THEN [@ EXCEPT !.creator = Nobody] ELSE @]
  /\ Goto(r, "idle")
  /\ UNCHANGED <<ticket, done, inbox, mailed, told, history>>

\* The 200 answer, duplicate or not, reaches the browser.
Reply(r) ==
  /\ At(r, "reply")
  /\ told' = told \cup {ticket[r]}
  /\ Goto(r, "idle")
  /\ UNCHANGED <<ticket, files, inbox, mailed, faults, history>>

(* The environment. *)

\* The process dies and is restarted.
Crash ==
  /\ Fault
  /\ \E r \in Request : ~ At(r, "idle")
  /\ pc' = [r \in Request |-> "idle"]
  /\ lock' = [t \in Ticket |->
                IF lock[t] = NoLock THEN NoLock
                                    ELSE [lock[t] EXCEPT !.creator = Nobody]]
  /\ UNCHANGED <<ticket, done, inbox, mailed, told, history>>

\* Time passes: a lock becomes older than staleLockMs.
AgeLock(t) ==
  /\ lock[t] # NoLock
  /\ ~ lock[t].stale
  /\ lock' = [lock EXCEPT ![t].stale = TRUE]
  /\ troubled' = troubled \cup {t}
  /\ UNCHANGED <<pc, ticket, done, inbox, mailed, told, faults, misread>>

\* Everything a request does on its own once it was received.
Handle(r) ==
  \/ CheckDone(r) \/ CreateLock(r) \/ RecheckDone(r) \/ StatLock(r)
  \/ RemoveLock(r) \/ LastCheckDone(r) \/ RecreateLock(r) \/ ClaimFails(r)
  \/ Verify(r) \/ PostAccepted(r) \/ PostFailed(r)
  \/ FindReport(r) \/ StartEvidence(r) \/ FinishEvidence(r)
  \/ StartReport(r) \/ FinishReport(r) \/ SaveFails(r)
  \/ Complete(r) \/ ConfirmDone(r) \/ CompleteFails(r)
  \/ Release(r) \/ ReleaseFails(r) \/ Reply(r)

Next ==
  \/ \E r \in Request, t \in Ticket : Receive(r, t)
  \/ \E r \in Request : Handle(r)
  \/ Crash
  \/ \E t \in Ticket : AgeLock(t)

Spec == Init /\ [][Next]_vars

------------------------------------------------------------------------------
(* Fairness: Node runs every pending callback; clocks advance; the browser *)
(* keeps retrying a report it was not told is delivered; the verifier and  *)
(* the provider do not fail for ever.                                      *)
Fairness ==
  /\ \A r \in Request : WF_vars(Handle(r))
  /\ \A t \in Ticket : WF_vars(AgeLock(t))
  /\ \A t \in Ticket :
       SF_vars(t \notin told /\ \E r \in Request : Receive(r, t))
  /\ \A r \in Request : SF_vars(At(r, "verify") /\ Verify(r) /\ pc'[r] = Deliver)
  /\ \A r \in Request : SF_vars(PostAccepted(r))

FairSpec == Spec /\ Fairness

------------------------------------------------------------------------------
(* Properties. *)

Holds(r, t) == pc[r] \in Holding /\ ticket[r] = t

\* "Claimed atomically by ticket": never two requests that both believe an
\* undelivered ticket is theirs to deliver, for any number of concurrent
\* requests, crashes and failed lock writes.  The store keeps this until a
\* delivery of the ticket fails or its lock grows stale: from then on two
\* requests may both find the lock removable, and the second removes the
\* lock that the first has just created.
ExclusiveUntilDelivered ==
  \A r, s \in Request : \A t \in Ticket \ (done \cup troubled) :
    Holds(r, t) /\ Holds(s, t) => r = s

\* "Persisted: browser retries do not send a report twice": a ticket whose
\* delivery is recorded is not handed out to be sent again.  It holds of
\* retries that follow each other, as long as access() does not fail on a file
\* that is there; not of concurrent ones: claim() looks for the .done file
\* before it creates the lock that complete() renames away.
NoClaimOnceDelivered ==
  [][\A r \in Request :
       pc[r] \in Claiming /\ pc'[r] = "verify" => ticket[r] \notin done \ misread]_vars

\* No lock outlives its request, except by a crash or a failed write or rm:
\* the creator of a lock file is still working on that ticket, or died.  (A
\* lock nobody works on blocks the report for staleLockMs.)
NoLeakedLock ==
  \A t \in Ticket :
    \/ lock[t] = NoLock
    \/ lock[t].creator = Nobody
    \/ Holds(lock[t].creator, t)

\* The local relay writes the evidence before report.json and tells the server
\* when both are closed: report.json never stands beside evidence that is not
\* whole, and a delivery on record has a whole report.json, for any number of
\* concurrent requests and crashes, also in the middle of the writing.  A
\* ticket is exempt once a delivery of it failed or its lock grew stale, as
\* two requests may then write at once, each truncating what the other wrote
\* (local-report-relay.ts:28), and once access() failed on a file of it.
InboxIsWhole ==
  relay = "local" =>
    \A t \in Ticket \ (troubled \cup misread) :
      /\ report[t] # Absent => evidence[t] = Whole
      /\ t \in done => report[t] = Whole

\* When the requests about a ticket follow each other the first half survives
\* crashes and failed writes too: a report.json is found only beside whole
\* evidence, and every delivery on record has one.  The report.json itself may
\* be cut short: the next delivery takes it for delivered.
InboxInOrder ==
  relay = "local" =>
    \A t \in Ticket \ misread :
      /\ report[t] # Absent => evidence[t] = Whole
      /\ t \in done => report[t] # Absent

\* "Delivered" is durable and true: recorded before it is told, mailed before
\* it is recorded, whatever the interleaving, the crashes and the takeovers.
Promise == INSTANCE AtLeastOnceDelivery WITH Tickets <- Ticket, delivered <- done
KeepsPromise == Promise!Spec

\* A report somebody tries to deliver is eventually acknowledged, also when
\* a crash left its lock behind.
EventuallyDelivered ==
  \A t \in Ticket : (\E r \in Request : ticket[r] = t /\ ~ At(r, "idle")) ~> (t \in told)
===============================================================================
