--------------------------- MODULE BrowserSession ---------------------------
(***************************************************************************)
(* The reporter's page (apps/web/src/App.tsx with lib/midnight.ts,         *)
(* lib/issuer-api.ts, lib/evidence.ts and lib/receipt-storage.ts): one tab *)
(* in which asynchronous handlers overlap.                                 *)
(*                                                                         *)
(* A handler is a closure over the render it was started in.  It runs      *)
(* until its first await, lives on as a call while it waits, and when its  *)
(* answer comes it writes into whatever form is on the screen by then.     *)
(* Buttons are enabled as the render enables them.                         *)
(*                                                                         *)
(* The wallet, the issuer and the ledger are outside: they may accept, and *)
(* may fail with or without having done their work.  Messages, progress    *)
(* texts and fields left blank (nothing but a message follows) are left    *)
(* out; a report is a draft and a set of files.                            *)
(***************************************************************************)
EXTENDS Naturals, FiniteSets, Sequences

CONSTANTS
  Calls,        \* slots for handlers that wait
  Sponsored,    \* network.sponsorUrl is set: the sponsor submits, or the wallet
  Files,        \* files the reporter may choose
  MaxFiles,     \* evidenceLimits.maxFiles
  MaxTickets,   \* bound: submissions that get as far as a fresh salt
  Refused       \* bound: tickets whose receipt localStorage may refuse (0: a demo's)

ASSUME PageAssumption ==
  /\ Sponsored \in BOOLEAN
  /\ IsFiniteSet(Files)
  /\ MaxFiles \in Nat
  /\ MaxTickets \in Nat
  /\ Refused \subseteq 0 .. MaxTickets

VARIABLES
  demo,         \* network.demoMode of this build
  page,         \* the home page, the wallet gate over it, or the report form
  form,         \* the React state of the form
  busy,         \* qualifying, preparingEvidence, retryingDelivery
  directory,    \* publicDestinations ("listed") and publicDestinationsLoading
  connection,   \* liveConnection: what the page shows; "off" is idle or error
  authorization,\* activeSponsorAuthorization: its ticket, 0 for undefined
  stored,       \* the receipt in localStorage
  call,         \* the handlers that wait
  prepared,     \* the report of each ticket, in the order of the salts
  accepted,     \* tickets the ledger has
  mailed,       \* tickets whose report reached the mailbox
  strayed,      \* history: the form was left while a submission or retry ran
  unsaved       \* history: localStorage refused the receipt that is on the form

screen == <<page, form, busy, directory, connection>>
world == <<prepared, accepted, mailed>>
history == <<strayed, unsaved>>
vars == <<demo, page, form, busy, directory, connection, authorization,
          stored, call, prepared, accepted, mailed, strayed, unsaved>>

None == "none"
Routes == {"internal", "security", "public"}    \* mode and whitehatChannel
Drafts == {"sample", "mine"}      \* the sample of the mode, or edited
Reports == [draft : Drafts, files : SUBSET Files]
Tickets == 1 .. MaxTickets

Receipts == [ticket : 0 .. MaxTickets, source : {None, "live", "demo"},
             delivered : BOOLEAN]
NoReceipt == [ticket |-> 0, source |-> None, delivered |-> FALSE]

Forms == [route : Routes, step : {"qualify", "compose", "prove", "receipt"},
          otp : BOOLEAN, qualification : Routes \cup {None},
          destination : Routes \cup {None}, draft : Drafts,
          evidence : SUBSET Files, receipt : Receipts,
          live : 0 .. MaxTickets]

Kinds == {"idle", "connect", "qualify", "verify", "evidence", "submit", "retry"}
Stages == {None, "connect", "session", "otp", "answer", "sleep", "reading",
           "ledger", "deliver"}
CallStates == [kind : Kinds, at : Stages, route : Routes \cup {None},
               report : Reports, ticket : 0 .. MaxTickets]

TypeOK ==
  /\ demo \in BOOLEAN
  /\ page \in {"home", "gate", "report"}
  /\ form \in Forms
  /\ busy \in SUBSET {"qualifying", "preparing", "retrying"}
  /\ directory \in SUBSET {"listed", "loading"}
  /\ connection \in {"off", "connecting", "connected"}
  /\ authorization \in 0 .. MaxTickets
  /\ stored \in Receipts
  /\ call \in [Calls -> CallStates]
  /\ prepared \in Seq(Reports)
  /\ Len(prepared) <= MaxTickets
  /\ accepted \in SUBSET Tickets
  /\ mailed \in SUBSET Tickets
  /\ strayed \in BOOLEAN
  /\ unsaved \in BOOLEAN

(* What changeMode leaves of the form, and what a fresh page shows. *)
FreshForm(r) ==
  [route |-> r, step |-> "qualify", otp |-> FALSE, qualification |-> None,
   destination |-> None, draft |-> "sample", evidence |-> {}, receipt |-> NoReceipt,
   live |-> 0]

NoReport == [draft |-> "sample", files |-> {}]
Idle == [kind |-> "idle", at |-> None, route |-> None, report |-> NoReport,
         ticket |-> 0]

Init ==
  /\ demo \in BOOLEAN
  /\ page = "home"
  /\ form = FreshForm("internal")
  /\ busy = {}
  /\ directory = IF demo THEN {"listed"} ELSE {}
  /\ connection = "off"
  /\ authorization = 0
  /\ stored = NoReceipt
  /\ call = [c \in Calls |-> Idle]
  /\ prepared = <<>>
  /\ accepted = {}
  /\ mailed = {}
  /\ strayed = FALSE
  /\ unsaved = FALSE

-----------------------------------------------------------------------------
(* Helpers. *)

On(step) == page = "report" /\ form.step = step

Start(c, kind, at, r, report, ticket) ==
  /\ call[c] = Idle
  /\ call' = [call EXCEPT ![c] = [kind |-> kind, at |-> at, route |-> r,
                                  report |-> report, ticket |-> ticket]]

At(c, kinds, at) == call[c].kind \in kinds /\ call[c].at = at
Advance(c, at) == call' = [call EXCEPT ![c].at = at]
End(c) == call' = [call EXCEPT ![c] = Idle]

(* The effect that loads the public directory runs whenever the form with the
   public channel comes up, and again when the language changes. *)
Reload(p, r) ==
  directory' = IF p = "report" /\ r = "public" /\ ~demo
                 THEN directory \cup {"loading"} ELSE directory

InFlight == \E c \in Calls : call[c].kind \in {"submit", "retry"}

-----------------------------------------------------------------------------
(* Moving around. *)

requestReportAccess ==
  /\ page = "home"
  /\ LET gated == ~demo /\ connection # "connected" IN
       /\ page' = IF gated THEN "gate" ELSE "report"
       /\ Reload(page', form.route)
  /\ UNCHANGED <<demo, form, busy, connection, authorization, stored, call, world, history>>

openHome ==
  /\ page = "report"
  /\ page' = "home"
  /\ UNCHANGED <<demo, form, busy, directory, connection, authorization, stored, call, world, history>>

closeGate ==
  /\ page = "gate"
  /\ connection # "connecting"
  /\ page' = "home"
  /\ UNCHANGED <<demo, form, busy, directory, connection, authorization, stored, call, world, history>>

(* The sample is translated only while the reporter has not begun to write. *)
\* Mutant of changeLanguage: the draft is replaced whatever the step.
changeLanguageAnywhere ==
  /\ form' = [form EXCEPT !.draft = "sample"]
  /\ Reload(page, form.route)
  /\ UNCHANGED <<demo, page, busy, connection, authorization, stored, call, world, history>>

changeLanguage ==
  /\ form' = IF form.step = "qualify"
               THEN [form EXCEPT !.draft = "sample"] ELSE form
  /\ Reload(page, form.route)
  /\ UNCHANGED <<demo, page, busy, connection, authorization, stored, call, world, history>>

(* The tabs are always there, also while a handler waits: its flag and its
   answer are not cancelled. *)
changeMode(r) ==
  /\ page = "report"
  /\ r \in {"internal", "security"}
  /\ form' = FreshForm(r)
  /\ stored' = NoReceipt
  /\ directory' = IF demo THEN directory ELSE directory \ {"listed"}
  /\ strayed' = InFlight
  /\ unsaved' = FALSE
  /\ UNCHANGED <<demo, page, busy, connection, authorization, call, world>>

selectChannel(r) ==
  /\ On("qualify")
  /\ ~form.otp
  /\ form.route # "internal"
  /\ r \in {"security", "public"} \ {form.route}
  /\ form' = [form EXCEPT !.route = r]
  /\ Reload(page, r)
  /\ UNCHANGED <<demo, page, busy, connection, authorization, stored, call, world, history>>

(* The answer is dropped if the channel is no longer on the screen. *)
DirectoryAnswered ==
  /\ page = "report" /\ form.route = "public"
  /\ "loading" \in directory
  /\ directory' \in {{}, {"listed"}, directory \ {"loading"}}
  /\ UNCHANGED <<demo, page, form, busy, connection, authorization, stored, call, world, history>>

\* Mutant of startAgain: the retry of the old report survives.
startAgainKeepsLive ==
  /\ On("receipt")
  /\ form' = [FreshForm(form.route) EXCEPT !.draft = form.draft, !.live = form.live]
  /\ stored' = NoReceipt
  /\ strayed' = InFlight
  /\ unsaved' = FALSE
  /\ UNCHANGED <<demo, page, busy, directory, connection, authorization, call, world>>

startAgain ==
  /\ On("receipt")
  /\ form' = [FreshForm(form.route) EXCEPT !.draft = form.draft]
  /\ stored' = NoReceipt
  /\ strayed' = InFlight
  /\ unsaved' = FALSE
  /\ UNCHANGED <<demo, page, busy, directory, connection, authorization, call, world>>

(* The reporter reloads the page: all that lives is localStorage.  Of that,
   loadPublicReceipt drops a receipt it cannot read, as when Date.parse does
   not understand the date that was written in the page's language. *)
ReloadPage ==
  /\ stored' \in {stored, NoReceipt}
  /\ form' = [FreshForm("internal") EXCEPT
                !.receipt = stored',
                !.step = IF stored' = NoReceipt THEN "qualify" ELSE "receipt"]
  /\ page' = IF stored' = NoReceipt THEN "home" ELSE "report"
  /\ busy' = {}
  /\ directory' = IF demo THEN {"listed"} ELSE {}
  /\ connection' = "off"
  /\ authorization' = 0
  /\ call' = [c \in Calls |-> Idle]
  /\ unsaved' = FALSE
  /\ UNCHANGED <<demo, world, strayed>>

-----------------------------------------------------------------------------
(* The wallet session.  Handlers share one connectionPromise; one that fails
   clears it, and the next to need it connects again by itself, so that it
   decides nothing the page shows but liveConnection. *)

connectFromWalletGate(c) ==
  /\ page = "gate"
  /\ connection # "connecting"
  /\ Start(c, "connect", "connect", None, NoReport, 0)
  /\ connection' = "connecting"
  /\ UNCHANGED <<demo, page, form, busy, directory, authorization, stored, world, history>>

(* connectDeployment returns true: to the form, or on with the qualification. *)
Connected(c) ==
  /\ At(c, {"connect", "qualify"}, "connect")
  /\ connection' = "connected"
  /\ IF call[c].kind = "connect"
       THEN End(c) /\ page' = "report" /\ Reload(page', form.route)
       ELSE /\ Advance(c, IF call[c].route = "internal" THEN "session" ELSE "answer")
            /\ UNCHANGED <<page, directory>>
  /\ UNCHANGED <<demo, form, busy, authorization, stored, world, history>>

(* The wallet refuses, or 150 seconds are over. *)
NotConnected(c) ==
  /\ At(c, {"connect", "qualify"}, "connect")
  /\ connection' = "off"
  /\ busy' = IF call[c].kind = "qualify" THEN busy \ {"qualifying"} ELSE busy
  /\ End(c)
  /\ UNCHANGED <<demo, page, form, directory, authorization, stored, world, history>>

-----------------------------------------------------------------------------
(* Qualification. *)

CanQualify == form.route = "public" => directory = {"listed"}

(* "Start report", "Check destination", "Verify selected destination". *)
qualify(c) ==
  /\ On("qualify") /\ ~form.otp
  /\ "qualifying" \notin busy
  /\ CanQualify
  /\ IF demo
       THEN /\ Start(c, "qualify", "sleep", form.route, NoReport, 0)
            /\ UNCHANGED <<busy, connection>>
       ELSE /\ busy' = busy \cup {"qualifying"}
            /\ IF connection # "connected"
                 THEN /\ Start(c, "qualify", "connect", form.route, NoReport, 0)
                      /\ connection' = "connecting"
                 ELSE /\ Start(c, "qualify",
                               IF form.route = "internal" THEN "session" ELSE "answer",
                               form.route, NoReport, 0)
                      /\ UNCHANGED connection
  /\ UNCHANGED <<demo, page, form, directory, authorization, stored, world, history>>

(* createLiveInternalEnrollment is done; the code is requested. *)
Enrolled(c) ==
  /\ At(c, {"qualify"}, "session")
  /\ Advance(c, "otp")
  /\ UNCHANGED <<demo, screen, authorization, stored, world, history>>

(* The code is on its way; a development build has it in the answer and goes
   straight on to the verification. *)
OtpRequested(c) ==
  /\ At(c, {"qualify"}, "otp")
  /\ \/ /\ form' = [form EXCEPT !.otp = TRUE]
        /\ busy' = busy \ {"qualifying"}
        /\ End(c)
     \/ Advance(c, "answer") /\ UNCHANGED <<form, busy>>
  /\ UNCHANGED <<demo, page, directory, connection, authorization, stored, world, history>>

verifyOtpAndIssueCredential(c) ==
  /\ On("qualify") /\ form.otp
  /\ "qualifying" \notin busy
  /\ Start(c, "verify", "answer", "internal", NoReport, 0)
  /\ busy' = busy \cup {"qualifying"}
  /\ UNCHANGED <<demo, page, form, directory, connection, authorization, stored, world, history>>

(* "Use a different email": also while the code is being verified. *)
differentEmail ==
  /\ On("qualify") /\ form.otp
  /\ form' = [form EXCEPT !.otp = FALSE]
  /\ UNCHANGED <<demo, page, busy, directory, connection, authorization, stored, call, world, history>>

(* The issuer answers: the destination goes into the form on the screen,
   whatever mode that is in by now. *)
\* Mutant of Qualified: the destination, without the qualification.
QualifiedDestinationOnly(c) ==
  /\ At(c, {"qualify", "verify"}, "answer")
  /\ form' = [form EXCEPT !.destination = call[c].route, !.otp = FALSE, !.step = "compose"]
  /\ busy' = busy \ {"qualifying"}
  /\ End(c)
  /\ UNCHANGED <<demo, page, directory, connection, authorization, stored, world, history>>

Qualified(c) ==
  /\ At(c, {"qualify", "verify"}, "answer")
  /\ form' = [form EXCEPT !.qualification = call[c].route,
                          !.destination = call[c].route,
                          !.otp = @ /\ call[c].route # "internal",
                          !.step = "compose"]
  /\ busy' = busy \ {"qualifying"}
  /\ End(c)
  /\ UNCHANGED <<demo, page, directory, connection, authorization, stored, world, history>>

(* The demo only pretends to ask. *)
DemoQualified(c) ==
  /\ At(c, {"qualify"}, "sleep")
  /\ form' = [form EXCEPT !.destination = call[c].route, !.step = "compose"]
  /\ End(c)
  /\ UNCHANGED <<demo, page, busy, directory, connection, authorization, stored, world, history>>

(* An error answer of the issuer, or no session. *)
NotQualified(c) ==
  /\ call[c].kind \in {"qualify", "verify"}
  /\ call[c].at \in {"session", "otp", "answer"}
  /\ busy' = busy \ {"qualifying"}
  /\ End(c)
  /\ UNCHANGED <<demo, page, form, directory, connection, authorization, stored, world, history>>

-----------------------------------------------------------------------------
(* Writing the report. *)

updateDraft ==
  /\ On("compose")
  /\ form.draft # "mine"
  /\ form' = [form EXCEPT !.draft = "mine"]
  /\ UNCHANGED <<demo, page, busy, directory, connection, authorization, stored, call, world, history>>

(* The new files are read; they will be appended to the list of this render. *)
handleEvidenceFiles(c, selected) ==
  /\ On("compose")
  /\ "preparing" \notin busy
  /\ selected # {} /\ selected \cap form.evidence = {}
  /\ Cardinality(form.evidence) + Cardinality(selected) <= MaxFiles
  /\ Start(c, "evidence", "reading", None,
           [draft |-> "sample", files |-> form.evidence \cup selected], 0)
  /\ busy' = busy \cup {"preparing"}
  /\ UNCHANGED <<demo, page, form, directory, connection, authorization, stored, world, history>>

(* The list of that render with the new files replaces the list on the
   screen: files removed meanwhile, or of another mode, come back. *)
EvidenceRead(c) ==
  /\ At(c, {"evidence"}, "reading")
  /\ form' = [form EXCEPT !.evidence = call[c].report.files]
  /\ busy' = busy \ {"preparing"}
  /\ End(c)
  /\ UNCHANGED <<demo, page, directory, connection, authorization, stored, world, history>>

(* prepareEvidenceFile: a type that is not allowed, an empty or a large file. *)
EvidenceRefused(c) ==
  /\ At(c, {"evidence"}, "reading")
  /\ busy' = busy \ {"preparing"}
  /\ End(c)
  /\ UNCHANGED <<demo, page, form, directory, connection, authorization, stored, world, history>>

removeFile(f) ==
  /\ On("compose")
  /\ f \in form.evidence
  /\ form' = [form EXCEPT !.evidence = @ \ {f}]
  /\ UNCHANGED <<demo, page, busy, directory, connection, authorization, stored, call, world, history>>

-----------------------------------------------------------------------------
(* Submitting: submitReport and submitLiveReport. *)

CurrentReport == [draft |-> form.draft, files |-> form.evidence]

submitReport(c) ==
  /\ On("compose")
  /\ "preparing" \notin busy
  /\ demo \/ form.qualification # None
  /\ Start(c, "submit", IF demo THEN "sleep" ELSE "session",
           None, CurrentReport, 0)
  /\ form' = [form EXCEPT !.step = "prove", !.otp = FALSE]
  /\ UNCHANGED <<demo, page, busy, directory, connection, authorization, stored, world, history>>

(* Moderation has let the report pass and the session is there.
   prepareSubmission: a fresh salt, the commitment, its proof of work; then
   the one authorization the wallet provider will read. *)
\* Mutant of Prepared: the authorization is numbered before the ticket is.
PreparedLate(c) ==
  /\ At(c, {"submit"}, "session")
  /\ Len(prepared) < MaxTickets
  /\ prepared' = Append(prepared, call[c].report)
  /\ authorization' = Len(prepared') + 1
  /\ call' = [call EXCEPT ![c].at = "ledger", ![c].ticket = Len(prepared')]
  /\ UNCHANGED <<demo, screen, stored, accepted, mailed, history>>

Prepared(c) ==
  /\ At(c, {"submit"}, "session")
  /\ Len(prepared) < MaxTickets
  /\ prepared' = Append(prepared, call[c].report)
  /\ authorization' = Len(prepared')
  /\ call' = [call EXCEPT ![c].at = "ledger", ![c].ticket = Len(prepared')]
  /\ UNCHANGED <<demo, screen, stored, accepted, mailed, history>>

(* The transaction is sent, and the ledger accepts the ticket.  With a sponsor
   submitTx throws if there is no authorization (an overlapping submission has
   cleared it), and takes whichever there is. *)
CanSend == Sponsored => authorization # 0

LedgerAccepts(c) ==
  /\ At(c, {"submit"}, "ledger")
  /\ CanSend
  /\ accepted' = accepted \cup {call[c].ticket}
  /\ Advance(c, "deliver")
  /\ UNCHANGED <<demo, screen, authorization, stored, prepared, mailed, history>>

(* What the delivery endpoint may do with a report for this ticket: it mails
   only the report the ticket was made for. *)
Deliverable(c) ==
  call[c].ticket \in accepted /\ prepared[call[c].ticket] = call[c].report

ReceiptOf(c, delivered) ==
  [ticket |-> call[c].ticket, source |-> IF demo THEN "demo" ELSE "live",
   delivered |-> delivered]

(* completeReceipt: to the screen and to localStorage. *)
Completes(c, delivered) ==
  /\ form' = [form EXCEPT !.step = "receipt", !.receipt = ReceiptOf(c, delivered),
                          !.live = call[c].ticket]
  /\ stored' = ReceiptOf(c, delivered)
  /\ authorization' = 0
  /\ unsaved' = FALSE
  /\ End(c)
  /\ UNCHANGED <<demo, page, busy, directory, connection, prepared, accepted, strayed>>

(* localStorage refuses the receipt (it is full): that error comes after the
   receipt was put on the form, and is taken for a failed submission. *)
NotSaved(c, delivered) ==
  /\ call[c].ticket \in Refused
  /\ form' = [form EXCEPT !.step = "compose", !.receipt = ReceiptOf(c, delivered),
                          !.live = call[c].ticket]
  /\ authorization' = 0
  /\ unsaved' = TRUE
  /\ End(c)
  /\ UNCHANGED <<demo, page, busy, directory, connection, stored, prepared, accepted, strayed>>

Receipted(c, delivered) == Completes(c, delivered) \/ NotSaved(c, delivered)

Delivered(c) ==
  /\ At(c, {"submit"}, "deliver")
  /\ Deliverable(c)
  /\ mailed' = mailed \cup {call[c].ticket}
  /\ Receipted(c, TRUE)

(* No answer, or an error, whether or not the report was mailed: the receipt
   says 'failed'. *)
\* Mutant of NotDelivered: the failure is swallowed.
NotDeliveredHidden(c) ==
  /\ At(c, {"submit"}, "deliver")
  /\ mailed' \in {mailed, IF Deliverable(c) THEN mailed \cup {call[c].ticket} ELSE mailed}
  /\ Receipted(c, TRUE)

NotDelivered(c) ==
  /\ At(c, {"submit"}, "deliver")
  /\ mailed' \in {mailed, IF Deliverable(c) THEN mailed \cup {call[c].ticket} ELSE mailed}
  /\ Receipted(c, FALSE)

(* The demo sleeps and shows a local receipt. *)
DemoCompleted(c) ==
  /\ At(c, {"submit"}, "sleep")
  /\ UNCHANGED mailed
  /\ Receipted(c, FALSE)

(* Moderation rejects, the wallet or the ledger refuses, or the answer to an
   accepted transaction is lost: back to the draft.  The authorization is
   cleared if the submission got as far as setting one. *)
Authorized(c) == call[c].at = "ledger"
MayBeAccepted(c) == Authorized(c) /\ CanSend

\* Mutants of NotSubmitted: the authorization is cleared only on success; an
\* expired wallet session leaves the form where it was.
NotSubmittedUncleared(c) ==
  /\ call[c].kind = "submit"
  /\ call[c].at \in {"sleep", "session", "ledger"}
  /\ form' = [form EXCEPT !.step = "compose"]
  /\ connection' \in {connection, "off"}
  /\ accepted' \in {accepted, IF MayBeAccepted(c) THEN accepted \cup {call[c].ticket} ELSE accepted}
  /\ End(c)
  /\ UNCHANGED <<demo, page, busy, directory, authorization, stored, prepared, mailed, history>>
NotSubmittedStuck(c) ==
  /\ call[c].kind = "submit"
  /\ call[c].at \in {"sleep", "session", "ledger"}
  /\ connection' \in {connection, "off"}
  /\ form' = IF connection' = "off" THEN form ELSE [form EXCEPT !.step = "compose"]
  /\ authorization' = IF Authorized(c) THEN 0 ELSE authorization
  /\ accepted' \in {accepted, IF MayBeAccepted(c) THEN accepted \cup {call[c].ticket} ELSE accepted}
  /\ End(c)
  /\ UNCHANGED <<demo, page, busy, directory, stored, prepared, mailed, history>>

NotSubmitted(c) ==
  /\ call[c].kind = "submit"
  /\ call[c].at \in {"sleep", "session", "ledger"}
  /\ form' = [form EXCEPT !.step = "compose"]
  /\ connection' \in {connection, "off"}
  /\ authorization' = IF Authorized(c) THEN 0 ELSE authorization
  /\ accepted' \in {accepted, IF MayBeAccepted(c) THEN accepted \cup {call[c].ticket} ELSE accepted}
  /\ End(c)
  /\ UNCHANGED <<demo, page, busy, directory, stored, prepared, mailed, history>>

-----------------------------------------------------------------------------
(* Retrying the delivery. *)

CanRetry ==
  /\ On("receipt")
  /\ form.receipt.source = "live" /\ ~form.receipt.delivered
  /\ form.live # 0
  /\ "retrying" \notin busy

(* "Retry report delivery": the report is taken from the form again. *)
retryDelivery(c) ==
  /\ CanRetry
  /\ Start(c, "retry", "deliver", None, CurrentReport, form.live)
  /\ busy' = busy \cup {"retrying"}
  /\ UNCHANGED <<demo, page, form, directory, connection, authorization, stored, world, history>>

(* The answer goes to whatever receipt is on the screen by now.  (That this
   receipt, which differs by a word from the one in its place, is refused by
   localStorage is left out.) *)
RetryEnds(c, delivered) ==
  /\ At(c, {"retry"}, "deliver")
  /\ IF form.receipt = NoReceipt
       THEN UNCHANGED <<form, stored, unsaved>>
       ELSE /\ form' = [form EXCEPT !.receipt.delivered = delivered]
            /\ stored' = form'.receipt
            /\ unsaved' = FALSE
  /\ busy' = busy \ {"retrying"}
  /\ End(c)
  /\ UNCHANGED <<demo, page, directory, connection, authorization, prepared, accepted, strayed>>

RetryDelivered(c) ==
  /\ Deliverable(c)
  /\ mailed' = mailed \cup {call[c].ticket}
  /\ RetryEnds(c, TRUE)

RetryFailed(c) ==
  /\ At(c, {"retry"}, "deliver")
  /\ mailed' \in {mailed, IF Deliverable(c) THEN mailed \cup {call[c].ticket} ELSE mailed}
  /\ RetryEnds(c, FALSE)

-----------------------------------------------------------------------------

Navigate ==
  \/ requestReportAccess \/ openHome \/ closeGate \/ changeLanguage \/ ReloadPage
  \/ \E r \in Routes : changeMode(r) \/ selectChannel(r)
  \/ DirectoryAnswered \/ startAgain \/ differentEmail \/ updateDraft
  \/ \E f \in Files : removeFile(f)

Press(c) ==
  \/ connectFromWalletGate(c) \/ qualify(c) \/ verifyOtpAndIssueCredential(c)
  \/ \E selected \in SUBSET Files : handleEvidenceFiles(c, selected)
  \/ submitReport(c) \/ retryDelivery(c)

(* One more await of a handler is over. *)
Answer(c) ==
  \/ Connected(c) \/ NotConnected(c)
  \/ Enrolled(c) \/ OtpRequested(c) \/ Qualified(c) \/ DemoQualified(c) \/ NotQualified(c)
  \/ EvidenceRead(c) \/ EvidenceRefused(c)
  \/ Prepared(c) \/ LedgerAccepts(c)
  \/ Delivered(c) \/ NotDelivered(c) \/ DemoCompleted(c) \/ NotSubmitted(c)
  \/ RetryDelivered(c) \/ RetryFailed(c)

Next ==
  \/ Navigate
  \/ \E c \in Calls : Press(c) \/ Answer(c)

Spec == Init /\ [][Next]_vars

-----------------------------------------------------------------------------
(* Properties. *)

(* The flags that disable buttons and the spinner of the prove step are up
   exactly as long as a handler is there to take them down: none is left
   behind by an error path, and none goes down under a running handler. *)
BusyMeansRunning ==
  /\ "qualifying" \in busy <=>
       ~demo /\ \E c \in Calls : call[c].kind \in {"qualify", "verify"}
  /\ "preparing" \in busy <=> \E c \in Calls : call[c].kind = "evidence"
  /\ "retrying" \in busy <=> \E c \in Calls : call[c].kind = "retry"
  /\ form.step = "prove" => \E c \in Calls : call[c].kind = "submit"

(* The receipt on the form, the receipt in localStorage and the receipt the
   retry button works on are one: whatever was submitted, retried, left and
   reloaded in between.  A receipt that localStorage refused is not there,
   but is not shown either. *)
OneReceipt ==
  /\ stored = form.receipt \/ (unsaved /\ form.step # "receipt")
  /\ form.step = "receipt" => form.receipt # NoReceipt
  /\ form.live # 0 => form.receipt # NoReceipt /\ form.receipt.ticket = form.live

(* The destination the page locks and shows is the one it is qualified for,
   also when an answer arrives after the mode was changed. *)
DestinationIsQualified == ~demo => form.destination = form.qualification

(* activeSponsorAuthorization is set only while a submission is under way: no
   path out of a submission leaves it for the next transaction. *)
NoLeakedAuthorization ==
  authorization # 0 =>
    \E c \in Calls : call[c].kind = "submit" /\ call[c].ticket # 0

(* A receipt that says the report was delivered is true, and a live receipt
   stands for an accepted ticket, as long as the form was not left while a
   submission or a retry was running. *)
ReceiptIsTrue ==
  form.receipt.source = "live" =>
    /\ form.receipt.ticket \in accepted
    /\ form.receipt.delivered /\ ~strayed => form.receipt.ticket \in mailed

(* "Delivery can be retried without a new transaction" (App.tsx:1387): under
   the same condition, the report a retry would post is the one the ticket
   was made for, or the issuer would refuse it for ever. *)
RetryCanSucceed ==
  CanRetry /\ ~strayed => CurrentReport = prepared[form.live]

=============================================================================
