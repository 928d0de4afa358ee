------------------------------ MODULE OtpIssuance ------------------------------
(***************************************************************************)
(* Work-e-mail qualification at the issuer: POST /api/internal/request     *)
(* creates a one-time-password challenge and mails its code, POST          *)
(* /api/internal/verify judges a candidate code and, if it is right,       *)
(* registers the challenge's credential commitment on the ledger.          *)
(*                                                                         *)
(* Challenges are files of a FileOtpStore, whose operations run one after  *)
(* the other (serial()), so a store operation is one step; between store   *)
(* operations, mails and ledger calls the handlers interleave.  The        *)
(* process may crash at any point, also in the middle of rewriting a       *)
(* challenge file, and file operations may fail.                           *)
(*                                                                         *)
(* There is a clock.  Of the limiter, whose file and calls SlidingWindow   *)
(* models, this module has what it decides: a mailbox is charged at most   *)
(* MaxEvents times in any WindowMs.  A charge and the drawing of the code  *)
(* that follows it, one file write apart, read the same clock.  The limit  *)
(* per address can do no more than refuse requests, which need not arrive  *)
(* here anyway.  The server runs without exposeDevelopmentOtp, as outside  *)
(* of local demos.                                                         *)
(***************************************************************************)
EXTENDS Naturals, FiniteSets

CONSTANTS Email,        \* work mailboxes
          Commitment,   \* credential commitments made by browsers
          Id,           \* challenge ids (UUIDs, never drawn twice)
          Requester,    \* slots for /api/internal/request handlers
          Verifier,     \* slots for /api/internal/verify handlers
          None,         \* no file, no code, no value
          Torn,         \* a file cut short by a crash or a failed write
          MaxEvents,    \* requests per mailbox and window
          WindowMs,     \* the limiter's window
          MaxAttempts,  \* candidates per challenge
          TtlMs,        \* life of a challenge
          MaxTime,      \* bound on the clock
          MaxCrashes,   \* bound on crashes
          MaxFailures   \* bound on file operations that fail

ASSUME OtpAssumption ==
  /\ MaxEvents \in Nat /\ MaxAttempts \in Nat
  /\ MaxTime \in Nat /\ MaxCrashes \in Nat /\ MaxFailures \in Nat
  /\ None \notin Id /\ Torn # None
  /\ {None, Torn} \cap [attempts : 0..MaxAttempts] = {}
  /\ None \notin [email : Email, commitment : Commitment, at : 0..MaxTime]

\* Ten minutes and five: a challenge does not outlive the window of its charge.
ASSUME TimesAssumption == WindowMs \in Nat /\ TtlMs \in Nat /\ TtlMs <= WindowMs

VARIABLES
  now,         \* the clock
  owner,       \* mailbox and commitment each drawn id was created for, and when
  file,        \* the challenge file of each id
  inbox,       \* ids whose code reached its mailbox
  registered,  \* commitments on the ledger
  request,     \* the state of each request handler
  verify,      \* the state of each verify handler
  crashes,
  failures,
  judged,      \* history: wrong candidates each id has answered for
  heard,       \* history: when the wrong candidates of each id arrived
  verified     \* history: ids whose code was accepted

store    == <<file, owner>>
history  == <<judged, heard, verified>>
handlers == <<request, verify>>
faults   == <<crashes, failures>>
vars == <<now, store, inbox, registered, handlers, faults, history>>

Owner == [email : Email, commitment : Commitment, at : 0..MaxTime]
File  == [attempts : 0..MaxAttempts]

Idle == [pc |-> "idle"]
RequestState ==
  {Idle} \cup [pc : {"put", "send", "delete"}, id : Id]
VerifyState ==
  {Idle} \cup [pc : {"attempt"}, id : Id, right : BOOLEAN, at : 0..MaxTime]
         \cup [pc : {"issue"}, id : Id]

TypeOK ==
  /\ now \in 0..MaxTime
  /\ owner \in [Id -> Owner \cup {None}]
  /\ file \in [Id -> File \cup {None, Torn}]
  /\ inbox \subseteq Id
  /\ registered \subseteq Commitment
  /\ request \in [Requester -> RequestState]
  /\ verify \in [Verifier -> VerifyState]
  /\ crashes \in 0..MaxCrashes /\ failures \in 0..MaxFailures
  /\ judged \in [Id -> Nat]
  /\ heard \in [Id -> SUBSET (0..MaxTime)]
  /\ verified \subseteq Id

Init ==
  /\ now = 0
  /\ owner = [i \in Id |-> None]
  /\ file = [i \in Id |-> None]
  /\ inbox = {} /\ registered = {}
  /\ request = [r \in Requester |-> Idle]
  /\ verify = [v \in Verifier |-> Idle]
  /\ crashes = 0 /\ failures = 0
  /\ judged = [i \in Id |-> 0]
  /\ heard = [i \in Id |-> {}]
  /\ verified = {}

MailboxOf(id) == owner[id].email
ExpiresAt(id) == owner[id].at + TtlMs
ChallengesOf(e) == {id \in Id : owner[id] # None /\ MailboxOf(id) = e}

------------------------------------------------------------------------------
(* POST /api/internal/request *)

RequestAt(r, label) == request[r].pc = label
RequestTo(r, label) == request' = [request EXCEPT ![r].pc = label]
RequestEnds(r)      == request' = [request EXCEPT ![r] = Idle]

\* The events of a mailbox that the limiter still counts: younger than a
\* window.  Each is that of a challenge, for which it was charged.
Recent(e) == {id \in ChallengesOf(e) : owner[id].at + WindowMs > now}

\* otp.request() draws an id and a code.
Draw(r, email, commitment) ==
  \E id \in Id :
    /\ owner[id] = None
    /\ owner' = [owner EXCEPT ![id] = [email |-> email, commitment |-> commitment, at |-> now]]
    /\ request' = [request EXCEPT ![r] = [pc |-> "put", id |-> id]]

\* The per-mailbox limiter lets the request pass and charges it.  (A request
\* over the limit is a 400 and changes nothing.)
Request(r, email, commitment) ==
  /\ RequestAt(r, "idle")
  /\ Cardinality(Recent(email)) < MaxEvents
  /\ Draw(r, email, commitment)
  /\ UNCHANGED <<now, file, inbox, registered, verify, faults, history>>

\* store.put(): a temporary file renamed into place.
Put(r) ==
  /\ RequestAt(r, "put")
  /\ file' = [file EXCEPT ![request[r].id] = [attempts |-> 0]]
  /\ RequestTo(r, "send")
  /\ UNCHANGED <<now, owner, inbox, registered, verify, faults, history>>

\* delivery.send() mails the code; then 201.
Sent(r) ==
  /\ RequestAt(r, "send")
  /\ inbox' = inbox \cup {request[r].id}
  /\ RequestEnds(r)
  /\ UNCHANGED <<now, store, registered, verify, faults, history>>

\* The mail fails; after a timeout the code may have arrived all the same.
SendFailed(r) ==
  /\ RequestAt(r, "send")
  /\ inbox' \in {inbox, inbox \cup {request[r].id}}
  /\ RequestTo(r, "delete")
  /\ UNCHANGED <<now, store, registered, verify, faults, history>>

\* store.delete() of a challenge whose code could not be mailed; then 500.
Delete(r) ==
  /\ RequestAt(r, "delete")
  /\ file' = [file EXCEPT ![request[r].id] = None]
  /\ RequestEnds(r)
  /\ UNCHANGED <<now, owner, inbox, registered, verify, faults, history>>

\* put() or delete() fails: 500, with no file, or with the file still there.
StoreFails(r) ==
  /\ RequestAt(r, "put") \/ RequestAt(r, "delete")
  /\ failures < MaxFailures
  /\ failures' = failures + 1
  /\ RequestEnds(r)
  /\ UNCHANGED <<now, store, inbox, registered, verify, crashes, history>>

------------------------------------------------------------------------------
(* POST /api/internal/verify *)

VerifyAt(v, label) == verify[v].pc = label
VerifyEnds(v)      == verify' = [verify EXCEPT ![v] = Idle]

\* A candidate arrives.  verify() reads the clock now, before the candidate
\* is hashed and waits its turn at the store.  A candidate is right only if
\* its code was mailed (how often one may guess, GuessesPerMailbox bounds).
\* One for an id that nobody drew finds no file and changes nothing.
Verify(v, id, right) ==
  /\ VerifyAt(v, "idle")
  /\ owner[id] # None
  /\ right => id \in inbox
  /\ verify' = [verify EXCEPT ![v] = [pc |-> "attempt", id |-> id, right |-> right,
                                      at |-> now]]
  /\ UNCHANGED <<now, store, inbox, registered, request, faults, history>>

Readable(id) == file[id] \notin {None, Torn}

\* The challenge had expired when verify() read the clock.
Late(v) == ExpiresAt(verify[v].id) <= verify[v].at

\* Mutant of Judges: the limit is off by one.
JudgesOneMore(v) ==
  /\ VerifyAt(v, "attempt")
  /\ Readable(verify[v].id)
  /\ ~ Late(v)
  /\ file[verify[v].id].attempts <= MaxAttempts

\* store.attempt(), by its results: a candidate is judged if the file can be
\* read, verify() was not late, and this attempt is within the limit.
Judges(v) ==
  /\ VerifyAt(v, "attempt")
  /\ Readable(verify[v].id)
  /\ ~ Late(v)
  /\ file[verify[v].id].attempts + 1 <= MaxAttempts

Counted(id) == [file EXCEPT ![id].attempts = @ + 1]
Removed(id) == [file EXCEPT ![id] = None]

\* Mutant of AttemptRefused: the refused attempt is written down instead of
\* the file removed.
AttemptRefusedRecorded(v) ==
  /\ VerifyAt(v, "attempt") /\ ~ Judges(v)
  /\ file' = [file EXCEPT ![verify[v].id] = [attempts |-> MaxAttempts]]
  /\ VerifyEnds(v)
  /\ UNCHANGED history

AttemptRefused(v) ==
  /\ VerifyAt(v, "attempt") /\ ~ Judges(v)
  /\ file' = Removed(verify[v].id)
  /\ VerifyEnds(v)
  /\ UNCHANGED history

\* The answer is that the code is incorrect.
Answered(v) ==
  /\ judged' = [judged EXCEPT ![verify[v].id] = @ + 1]
  /\ heard' = [heard EXCEPT ![verify[v].id] = @ \cup {verify[v].at}]

\* Mutant of AttemptWrong: the raised counter is not written back.
AttemptWrongUncounted(v) ==
  /\ Judges(v) /\ ~ verify[v].right
  /\ Answered(v)
  /\ VerifyEnds(v)
  /\ UNCHANGED <<file, verified>>

AttemptWrong(v) ==
  /\ Judges(v) /\ ~ verify[v].right
  /\ file' = Counted(verify[v].id)
  /\ Answered(v)
  /\ VerifyEnds(v)
  /\ UNCHANGED verified

\* Mutants of AttemptRight: the challenge stays; the hash is not compared.
AttemptRightKept(v) ==
  /\ Judges(v) /\ verify[v].right
  /\ verified' = verified \cup {verify[v].id}
  /\ verify' = [verify EXCEPT ![v] = [pc |-> "issue", id |-> verify[v].id]]
  /\ UNCHANGED <<file, judged, heard>>
AttemptRightUnchecked(v) ==
  /\ Judges(v)
  /\ file' = Removed(verify[v].id)
  /\ verified' = verified \cup {verify[v].id}
  /\ verify' = [verify EXCEPT ![v] = [pc |-> "issue", id |-> verify[v].id]]
  /\ UNCHANGED <<judged, heard>>

AttemptRight(v) ==
  /\ Judges(v) /\ verify[v].right
  /\ file' = Removed(verify[v].id)
  /\ verified' = verified \cup {verify[v].id}
  /\ verify' = [verify EXCEPT ![v] = [pc |-> "issue", id |-> verify[v].id]]
  /\ UNCHANGED <<judged, heard>>

Attempt(v) ==
  /\ AttemptRefused(v) \/ AttemptWrong(v) \/ AttemptRight(v)
  /\ UNCHANGED <<now, owner, inbox, registered, request, faults>>

\* A file operation of store.attempt() fails.  A file that cannot be read is
\* removed, and the answer is "not found"; if it cannot be removed or written
\* the answer is a 500, and a write that fails can leave the file as it was,
\* written, or cut.  None of these answers is a verdict on the candidate.
AttemptFails(v) ==
  /\ VerifyAt(v, "attempt")
  /\ failures < MaxFailures
  /\ failures' = failures + 1
  /\ \/ file' \in {file, Removed(verify[v].id)}
     \/ /\ Judges(v) /\ ~ verify[v].right
        /\ file' \in {Counted(verify[v].id), [file EXCEPT ![verify[v].id] = Torn]}
  /\ VerifyEnds(v)
  /\ UNCHANGED <<now, owner, inbox, registered, request, crashes, history>>

\* registry.issueCredential(): the ledger refuses a commitment it has; the
\* call may also fail on the way, before or after the ledger took it.
Issue(v) ==
  /\ VerifyAt(v, "issue")
  /\ registered' \in {registered,
                      registered \cup {owner[verify[v].id].commitment}}
  /\ VerifyEnds(v)
  /\ UNCHANGED <<now, store, inbox, request, faults, history>>

------------------------------------------------------------------------------
(* The environment. *)

Tick ==
  /\ now < MaxTime
  /\ now' = now + 1
  /\ UNCHANGED <<store, inbox, registered, handlers, faults, history>>

\* What a crash can leave in the challenge files: all as they were, or with
\* the one store operation under way done but not answered, or, if a wrong
\* candidate was being counted (a writeFile in place), that file torn.
CrashedFiles ==
  {file}
  \cup {[file EXCEPT ![request[r].id] = [attempts |-> 0]] :
          r \in {q \in Requester : RequestAt(q, "put")}}
  \cup {Removed(request[r].id) : r \in {q \in Requester : RequestAt(q, "delete")}}
  \cup {Removed(verify[v].id) :
          v \in {w \in Verifier : /\ VerifyAt(w, "attempt")
                                  /\ ~ Judges(w) \/ verify[w].right}}
  \cup UNION {{Counted(verify[v].id), [file EXCEPT ![verify[v].id] = Torn]} :
                v \in {w \in Verifier : Judges(w) /\ ~ verify[w].right}}

\* The process dies and restarts: the handlers are gone, the challenge files
\* and the limiter's file stay.
Crash ==
  /\ crashes < MaxCrashes
  /\ crashes' = crashes + 1
  /\ file' \in CrashedFiles
  /\ request' = [r \in Requester |-> Idle]
  /\ verify' = [v \in Verifier |-> Idle]
  /\ UNCHANGED <<now, owner, inbox, registered, failures, history>>

Next ==
  \/ \E r \in Requester, e \in Email, c \in Commitment : Request(r, e, c)
  \/ \E r \in Requester :
       \/ Put(r) \/ Sent(r) \/ SendFailed(r) \/ Delete(r) \/ StoreFails(r)
  \/ \E v \in Verifier, id \in Id, right \in BOOLEAN : Verify(v, id, right)
  \/ \E v \in Verifier : Attempt(v) \/ AttemptFails(v) \/ Issue(v)
  \/ Tick
  \/ Crash

Spec == Init /\ [][Next]_vars

------------------------------------------------------------------------------
(* Properties. *)

\* "OTP guessing: ... durable attempt limits": no interleaving of
\* candidates, no crash and no failed write gets more than MaxAttempts
\* candidates of a challenge answered as incorrect.
GuessesPerChallenge == \A id \in Id : judged[id] <= MaxAttempts

\* The challenges of a mailbox at which somebody guessed in the window that
\* begins at t, and the guesses at them, numbered per challenge.
GuessedAt(e, t) ==
  {id \in ChallengesOf(e) : \E at \in heard[id] : t <= at /\ at < t + WindowMs}
Guesses(e, t) == UNION {{id} \X (1..judged[id]) : id \in GuessedAt(e, t)}

\* Together with the limiter: whoever guesses at a mailbox is told at most
\* 2 * MaxEvents * MaxAttempts times in any window that a code is incorrect,
\* over all its challenges.  Twice, for the challenges drawn just before the
\* window, which live on into it, and those drawn within it.
GuessesPerMailbox ==
  \A e \in Email, t \in 0..now : Cardinality(Guesses(e, t)) <= 2 * (MaxEvents * MaxAttempts)

\* "One-time challenge deletion": an accepted code never leads to a second
\* credential: its file is gone and one handler at most acts on it.
AcceptedOnce ==
  /\ \A id \in verified : file[id] = None
  /\ \A v, w \in Verifier :
       VerifyAt(v, "issue") /\ VerifyAt(w, "issue") /\ verify[v].id = verify[w].id
         => v = w

\* Control of the mailbox stands behind every credential on the ledger: it
\* is the commitment of a challenge whose mailed code was presented.
RegisteredWasProven ==
  registered \subseteq
    {owner[id].commitment : id \in {i \in verified \cap inbox : owner[i] # None}}

\* A challenge that was used up, expired or failed to be mailed does not
\* come back: once its file is removed it stays removed.
NoReopening ==
  [][\A id \in Id :
       owner[id] # None /\ file[id] = None /\ file'[id] # None =>
         \E r \in Requester : RequestAt(r, "put") /\ request[r].id = id]_vars

\* The life of each challenge, for all that requests, candidates, failed
\* mails and crashes do to its file, is that of a one-time challenge.
PhaseOf(id) ==
  CASE Readable(id) -> "open"
    [] ~ Readable(id) /\ (owner[id] = None \/ \E r \in Requester :
                             RequestAt(r, "put") /\ request[r].id = id) -> "new"
    [] OTHER -> "closed"
Challenge(id) == INSTANCE OneTimeChallenge
                   WITH phase <- PhaseOf(id), wrong <- judged[id], accepted <- id \in verified
ChallengesAreOneTime ==
  /\ \A id \in Id : Challenge(id)!Init
  /\ [][\A id \in Id : Challenge(id)!Next \/ UNCHANGED Challenge(id)!vars]_vars

\* "Restarting the single issuer process does not invalidate an in-progress
\* challenge": one that is not being used up or withdrawn at that moment can
\* still be read.  (It cannot, if a wrong candidate was being counted.)
RestartKeepsChallenges ==
  [][crashes' # crashes =>
       \A id \in Id : Readable(id) /\ file'[id] # None => Readable(id)']_vars
===============================================================================
