----------------------- MODULE BrowserSession_proofs -----------------------
(***************************************************************************)
(* Safety of the reporter's page for every number of overlapping handlers, *)
(* files and tickets: what is proved is that each answer, whenever it      *)
(* comes, leaves form, flags, receipt and authorization in agreement.      *)
(***************************************************************************)
EXTENDS BrowserSession, TLAPS

-----------------------------------------------------------------------------
(* The inductive invariant. *)

Submitting(c) == call[c].kind = "submit"
Retrying(c) == call[c].kind = "retry"

(* How far a submission is tells what its ticket is: none yet, the one that
   was prepared for its report, the one the ledger has. *)
TicketsKnown ==
  \A c \in Calls :
    /\ Submitting(c) => call[c].at \in {"sleep", "session", "ledger", "deliver"}
    /\ Submitting(c) /\ call[c].at \in {"sleep", "session"} => call[c].ticket = 0
    /\ Submitting(c) /\ call[c].at \in {"ledger", "deliver"} =>
         /\ call[c].ticket \in 1 .. Len(prepared)
         /\ prepared[call[c].ticket] = call[c].report
    /\ Submitting(c) /\ call[c].at = "deliver" => call[c].ticket \in accepted
    /\ Retrying(c) => call[c].at = "deliver" /\ call[c].ticket # 0

Qualifying(c) == call[c].kind \in {"qualify", "verify"}
Choosing(c) == call[c].kind = "evidence"

(* Buttons that are disabled keep their handlers apart. *)
AtMostOne ==
  /\ ~demo => \A c, d \in Calls : Qualifying(c) /\ Qualifying(d) => c = d
  /\ \A c, d \in Calls : Choosing(c) /\ Choosing(d) => c = d
  /\ \A c, d \in Calls : Retrying(c) /\ Retrying(d) => c = d

(* A receipt that is there came from somewhere. *)
KnownSource ==
  /\ form.receipt # NoReceipt => form.receipt.source # None
  /\ stored # NoReceipt => stored.source # None

(* Only the demo sleeps. *)
SleepsInDemo ==
  /\ \A c \in Calls : Submitting(c) \/ Qualifying(c) => (call[c].at = "sleep" => demo)
  /\ demo => ~ form.otp /\ \A c \in Calls : Qualifying(c) => call[c].at = "sleep"

(* In a demo build nothing is sent. *)
DemoPretends ==
  demo =>
    /\ form.receipt.source # "live" /\ stored.source # "live" /\ form.live = 0
    /\ \A c \in Calls : Submitting(c) => call[c].at = "sleep"

(* While the form has not been left under a running submission or retry, the
   step tells what runs. *)
OnCourse ==
  ~ demo /\ ~ strayed =>
    /\ form.step # "qualify" => \A c \in Calls : ~ Qualifying(c)
    /\ \A c \in Calls : Submitting(c) => form.step = "prove" /\ call[c].report = CurrentReport
    /\ \A c, d \in Calls : Submitting(c) /\ Submitting(d) => c = d
    /\ \A c \in Calls :
         Retrying(c) => /\ form.step = "receipt" /\ form.live = call[c].ticket
                        /\ call[c].report = CurrentReport
    /\ form.step \in {"prove", "receipt"} => \A c \in Calls : ~ Choosing(c)

(* The stored receipt is as true as the one on the form: it may be an older
   one, and is what a reload shows. *)
StoredIsTrue ==
  stored.source = "live" =>
    /\ stored.ticket \in accepted
    /\ stored.delivered /\ ~strayed => stored.ticket \in mailed

(* Nothing edits the report under a receipt that is shown. *)
RetryMatches ==
  form.step = "receipt" /\ form.live # 0 /\ ~strayed => CurrentReport = prepared[form.live]

-----------------------------------------------------------------------------
(* How the slots of the handlers change. *)
LEMMA Ended ==
  ASSUME TypeOK, NEW c \in Calls, End(c)
  PROVE  /\ call' \in [Calls -> CallStates]
         /\ call'[c] = Idle
         /\ \A d \in Calls \ {c} : call'[d] = call[d]
<1>1. Idle \in CallStates
  <2>1. 0 \in 0 .. MaxTickets
    BY PageAssumption
  <2> QED
    BY <2>1 DEF Idle, CallStates, Kinds, Stages, NoReport, Reports, Drafts
<1> QED
  BY <1>1 DEF End, TypeOK

(* A handler that goes on changes only where it waits. *)
LEMMA Advanced ==
  ASSUME TypeOK, NEW c \in Calls, NEW at \in Stages, Advance(c, at)
  PROVE  /\ call' \in [Calls -> CallStates]
         /\ call'[c] = [call[c] EXCEPT !.at = at]
         /\ \A d \in Calls \ {c} : call'[d] = call[d]
<1>1. [call[c] EXCEPT !.at = at] \in CallStates
  BY DEF TypeOK, CallStates
<1> QED
  BY <1>1 DEF Advance, TypeOK

(* A handler that starts takes a free slot and touches no other. *)
LEMMA Started ==
  ASSUME TypeOK, NEW c \in Calls, NEW kind \in Kinds, NEW at \in Stages,
         NEW r \in Routes \cup {None}, NEW report \in Reports, NEW ticket \in 0 .. MaxTickets,
         Start(c, kind, at, r, report, ticket)
  PROVE  /\ call[c] = Idle
         /\ call' \in [Calls -> CallStates]
         /\ call'[c] = [kind |-> kind, at |-> at, route |-> r, report |-> report, ticket |-> ticket]
         /\ \A d \in Calls \ {c} : call'[d] = call[d]
<1>1. [kind |-> kind, at |-> at, route |-> r, report |-> report, ticket |-> ticket] \in CallStates
  BY DEF CallStates
<1> QED
  BY <1>1 DEF Start, TypeOK

(* What is in the form and in a slot. *)
LEMMA FormFields ==
  ASSUME TypeOK
  PROVE  /\ form.route \in Routes /\ form.qualification \in Routes \cup {None}
         /\ form.step \in {"qualify", "compose", "prove", "receipt"}
         /\ form.otp \in BOOLEAN
         /\ form.destination \in Routes \cup {None} /\ form.draft \in Drafts
         /\ form.evidence \in SUBSET Files /\ form.receipt \in Receipts
         /\ form.live \in 0 .. MaxTickets
         /\ CurrentReport \in Reports
  BY DEF TypeOK, Forms, CurrentReport, Reports

(* The fields of a well-typed call. *)
LEMMA CallFields ==
  ASSUME TypeOK, NEW c \in Calls
  PROVE  /\ call[c].kind \in Kinds /\ call[c].at \in Stages
         /\ call[c].route \in Routes \cup {None} /\ call[c].report \in Reports
         /\ call[c].report.files \in SUBSET Files
         /\ call[c].ticket \in 0 .. MaxTickets
  BY DEF TypeOK, CallStates, Reports

(* The empty receipt, the empty report and the fresh form are well-typed. *)
LEMMA Defaults ==
  /\ NoReceipt \in Receipts
  /\ NoReport \in Reports
  /\ None \notin Routes
  /\ \A r \in Routes : FreshForm(r) \in Forms
<1>1. 0 \in 0 .. MaxTickets
  BY PageAssumption
<1>2. NoReceipt \in Receipts /\ NoReport \in Reports /\ None \notin Routes
  BY <1>1 DEF NoReceipt, Receipts, NoReport, Reports, Drafts, None, Routes
<1> QED
  BY <1>1, <1>2 DEF FreshForm, Forms, Drafts

(* A receipt of a handler, and its completion. *)
LEMMA CompletesType ==
  ASSUME TypeOK, NEW c \in Calls, NEW delivered \in BOOLEAN, Receipted(c, delivered),
         mailed' \in SUBSET Tickets
  PROVE  TypeOK'
<1>1. ReceiptOf(c, delivered) \in Receipts
  BY CallFields DEF ReceiptOf, Receipts
<1>2. form' \in Forms
  <2>1. form \in Forms /\ call[c].ticket \in 0 .. MaxTickets
    BY CallFields DEF TypeOK
  <2>2. \A st \in {"compose", "receipt"} :
          [form EXCEPT !.step = st, !.receipt = ReceiptOf(c, delivered), !.live = call[c].ticket]
            \in Forms
    BY <1>1, <2>1 DEF Forms
  <2> QED
    BY <2>2 DEF Receipted, Completes, NotSaved
<1>3. call' \in [Calls -> CallStates]
  BY Ended DEF Receipted, Completes, NotSaved
<1>4. authorization' \in 0 .. MaxTickets
  BY PageAssumption DEF Receipted, Completes, NotSaved
<1>5. CASE Completes(c, delivered)
  BY <1>1, <1>2, <1>3, <1>4, <1>5 DEF Completes, TypeOK
<1>6. CASE NotSaved(c, delivered)
  BY <1>1, <1>2, <1>3, <1>4, <1>6 DEF NotSaved, TypeOK
<1> QED
  BY <1>5, <1>6 DEF Receipted

(* The end of a retry, whichever way, keeps the types. *)
LEMMA RetryEndsType ==
  ASSUME TypeOK, NEW c \in Calls, NEW delivered \in BOOLEAN, RetryEnds(c, delivered),
         mailed' \in SUBSET Tickets
  PROVE  TypeOK'
<1>1. call' \in [Calls -> CallStates]
  BY Ended DEF RetryEnds
<1>2. [form.receipt EXCEPT !.delivered = delivered] \in Receipts
  BY FormFields DEF Receipts
<1>3. form' \in Forms /\ stored' \in Receipts
  BY <1>2 DEF RetryEnds, TypeOK, Forms
<1> QED
  BY <1>1, <1>3 DEF RetryEnds, TypeOK

(* Types. *)
LEMMA TypeStep ==
  ASSUME TypeOK, TicketsKnown, [Next]_vars
  PROVE  TypeOK'
<1>1. CASE requestReportAccess
  BY <1>1 DEF requestReportAccess, TypeOK, screen, world, history, On, Reload
<1>2. CASE openHome
  BY <1>2 DEF openHome, TypeOK, screen, world, history, On
<1>3. CASE closeGate
  BY <1>3 DEF closeGate, TypeOK, screen, world, history, On
<1>4. CASE changeLanguage
  <2>1. form' \in Forms
    BY <1>4, FormFields DEF TypeOK, Forms, changeLanguage, Drafts
  <2> QED
    BY <1>4, <2>1 DEF changeLanguage, Reload, TypeOK, screen, world, history
<1>5. CASE ReloadPage
  <2>1. stored' \in Receipts
    BY <1>5, Defaults DEF ReloadPage, TypeOK
  <2>2. FreshForm("internal") \in Forms
    BY Defaults DEF Routes
  <2>3. form' \in Forms
    BY <1>5, <2>1, <2>2 DEF ReloadPage, Forms
  <2>4. call' \in [Calls -> CallStates]
    <3>1. Idle \in CallStates
      BY PageAssumption DEF Idle, CallStates, Kinds, Stages, NoReport, Reports, Drafts
    <3> QED
      BY <1>5, <3>1 DEF ReloadPage
  <2>5. authorization' \in 0 .. MaxTickets
    BY <1>5, PageAssumption DEF ReloadPage
  <2> QED
    BY <1>5, <2>1, <2>3, <2>4, <2>5 DEF ReloadPage, TypeOK, world, history
<1>6. CASE DirectoryAnswered
  BY <1>6 DEF DirectoryAnswered, TypeOK, world, history
<1>7. CASE startAgain
  <2>1. form' \in Forms
    BY <1>7, FormFields, Defaults DEF startAgain, Forms
  <2> QED
    BY <1>7, Defaults, <2>1 DEF startAgain, InFlight, TypeOK, screen, world, history
<1>8. CASE differentEmail
  <2>1. form' \in Forms
    BY <1>8, FormFields DEF TypeOK, Forms, differentEmail
  <2> QED
    BY <1>8, <2>1 DEF differentEmail, TypeOK, screen, world, history
<1>9. CASE updateDraft
  <2>1. form' \in Forms
    BY <1>9, FormFields DEF TypeOK, Forms, Drafts, updateDraft
  <2> QED
    BY <1>9, <2>1 DEF updateDraft, TypeOK, screen, world, history
<1>10. ASSUME NEW r \in Routes, changeMode(r) PROVE TypeOK'
  <2>1. form' \in Forms
    BY <1>10, Defaults DEF changeMode, Routes
  <2> QED
    BY <1>10, Defaults, <2>1 DEF changeMode, InFlight, TypeOK, screen, world, history
<1>11. ASSUME NEW r \in Routes, selectChannel(r) PROVE TypeOK'
  <2>1. form' \in Forms
    BY <1>11, FormFields DEF TypeOK, Forms, selectChannel
  <2> QED
    BY <1>11, <2>1 DEF selectChannel, Reload, TypeOK, screen, world, history
<1>12. ASSUME NEW f \in Files, removeFile(f) PROVE TypeOK'
  <2>1. form' \in Forms
    BY <1>12, FormFields DEF TypeOK, Forms, removeFile
  <2> QED
    BY <1>12, <2>1 DEF removeFile, TypeOK, screen, world, history
<1>13. ASSUME NEW c \in Calls, NEW selected \in SUBSET Files, handleEvidenceFiles(c, selected)
       PROVE  TypeOK'
  <2>1. [draft |-> "sample", files |-> form.evidence \cup selected] \in Reports
    BY FormFields DEF Reports, Drafts
  <2>2. call' \in [Calls -> CallStates]
    BY <1>13, <2>1, PageAssumption DEF handleEvidenceFiles, Start, TypeOK, CallStates, Kinds,
       Stages
  <2> QED
    BY <1>13, <2>2 DEF handleEvidenceFiles, TypeOK, world, history
<1>14. ASSUME NEW c \in Calls, connectFromWalletGate(c) PROVE TypeOK'
  <2>1. call' \in [Calls -> CallStates]
    BY <1>14, FormFields, Defaults, PageAssumption DEF connectFromWalletGate, Start, TypeOK,
       CallStates, Kinds, Stages, Routes, CanRetry
  <2> QED
    BY <1>14, <2>1 DEF connectFromWalletGate, TypeOK, world, history
<1>15. ASSUME NEW c \in Calls, qualify(c) PROVE TypeOK'
  <2>1. call' \in [Calls -> CallStates]
    BY <1>15, FormFields, Defaults, PageAssumption DEF qualify, Start, TypeOK, CallStates,
       Kinds, Stages, Routes, CanRetry
  <2> QED
    BY <1>15, <2>1 DEF qualify, TypeOK, world, history
<1>16. ASSUME NEW c \in Calls, verifyOtpAndIssueCredential(c) PROVE TypeOK'
  <2>1. call' \in [Calls -> CallStates]
    BY <1>16, FormFields, Defaults, PageAssumption DEF verifyOtpAndIssueCredential, Start,
       TypeOK, CallStates, Kinds, Stages, Routes, CanRetry
  <2> QED
    BY <1>16, <2>1 DEF verifyOtpAndIssueCredential, TypeOK, world, history
<1>17. ASSUME NEW c \in Calls, submitReport(c) PROVE TypeOK'
  <2>1. call' \in [Calls -> CallStates]
    BY <1>17, FormFields, Defaults, PageAssumption DEF submitReport, Start, TypeOK, CallStates,
       Kinds, Stages, Routes, CanRetry
  <2>2. form' \in Forms
    BY <1>17, FormFields DEF TypeOK, Forms, submitReport
  <2> QED
    BY <1>17, <2>1, <2>2 DEF submitReport, TypeOK, world, history
<1>18. ASSUME NEW c \in Calls, retryDelivery(c) PROVE TypeOK'
  <2>1. call' \in [Calls -> CallStates]
    BY <1>18, FormFields, Defaults, PageAssumption DEF retryDelivery, Start, TypeOK,
       CallStates, Kinds, Stages, Routes, CanRetry
  <2> QED
    BY <1>18, <2>1 DEF retryDelivery, TypeOK, world, history
<1>19. ASSUME NEW c \in Calls, Connected(c) PROVE TypeOK'
  <2>1. call' \in [Calls -> CallStates]
    BY <1>19, Ended, Advanced DEF Connected, Stages, Reload
  <2> QED
    BY <1>19, <2>1 DEF Connected, TypeOK, screen, world, history, Reload
<1>20. ASSUME NEW c \in Calls, NotConnected(c) PROVE TypeOK'
  <2>1. call' \in [Calls -> CallStates]
    BY <1>20, Ended, Advanced DEF NotConnected, Stages
  <2> QED
    BY <1>20, <2>1 DEF NotConnected, TypeOK, screen, world, history
<1>21. ASSUME NEW c \in Calls, Enrolled(c) PROVE TypeOK'
  <2>1. call' \in [Calls -> CallStates]
    BY <1>21, Ended, Advanced DEF Enrolled, Stages
  <2> QED
    BY <1>21, <2>1 DEF Enrolled, TypeOK, screen, world, history
<1>22. ASSUME NEW c \in Calls, OtpRequested(c) PROVE TypeOK'
  <2>1. call' \in [Calls -> CallStates]
    BY <1>22, Ended, Advanced DEF OtpRequested, Stages
  <2>2. form' \in Forms
    BY <1>22, FormFields, CallFields DEF TypeOK, Forms, OtpRequested
  <2> QED
    BY <1>22, <2>1, <2>2 DEF OtpRequested, TypeOK, screen, world, history
<1>23. ASSUME NEW c \in Calls, Qualified(c) PROVE TypeOK'
  <2>1. call' \in [Calls -> CallStates]
    BY <1>23, Ended, Advanced DEF Qualified, Stages
  <2>2. form' \in Forms
    BY <1>23, FormFields, CallFields DEF TypeOK, Forms, Qualified, At, Idle
  <2> QED
    BY <1>23, <2>1, <2>2 DEF Qualified, TypeOK, screen, world, history
<1>24. ASSUME NEW c \in Calls, DemoQualified(c) PROVE TypeOK'
  <2>1. call' \in [Calls -> CallStates]
    BY <1>24, Ended, Advanced DEF DemoQualified, Stages
  <2>2. form' \in Forms
    BY <1>24, FormFields, CallFields DEF TypeOK, Forms, DemoQualified, At
  <2> QED
    BY <1>24, <2>1, <2>2 DEF DemoQualified, TypeOK, screen, world, history
<1>25. ASSUME NEW c \in Calls, NotQualified(c) PROVE TypeOK'
  <2>1. call' \in [Calls -> CallStates]
    BY <1>25, Ended, Advanced DEF NotQualified, Stages
  <2> QED
    BY <1>25, <2>1 DEF NotQualified, TypeOK, screen, world, history
<1>26. ASSUME NEW c \in Calls, EvidenceRead(c) PROVE TypeOK'
  <2>1. call' \in [Calls -> CallStates]
    BY <1>26, Ended, Advanced DEF EvidenceRead, Stages
  <2>2. form' \in Forms
    BY <1>26, FormFields, CallFields DEF TypeOK, Forms, EvidenceRead
  <2> QED
    BY <1>26, <2>1, <2>2 DEF EvidenceRead, TypeOK, screen, world, history
<1>27. ASSUME NEW c \in Calls, EvidenceRefused(c) PROVE TypeOK'
  <2>1. call' \in [Calls -> CallStates]
    BY <1>27, Ended, Advanced DEF EvidenceRefused, Stages
  <2> QED
    BY <1>27, <2>1 DEF EvidenceRefused, TypeOK, screen, world, history
<1>28. ASSUME NEW c \in Calls, Prepared(c) PROVE TypeOK'
  <2>1. Len(prepared') \in Tickets /\ Len(prepared') = Len(prepared) + 1 /\ prepared' \in Seq(Reports)
    <3>1. call[c].report \in Reports
      BY CallFields
    <3>2. /\ prepared \in Seq(Reports)
          /\ prepared' = Append(prepared, call[c].report)
          /\ Len(prepared) < MaxTickets
      BY <1>28 DEF Prepared, TypeOK
    <3> QED
      BY <3>1, <3>2, PageAssumption DEF Tickets
  <2>2. [call[c] EXCEPT !.at = "ledger", !.ticket = Len(prepared')] \in CallStates
    <3>1. call[c] \in CallStates /\ Len(prepared') \in 0 .. MaxTickets
      BY <2>1 DEF TypeOK, Tickets
    <3>2. \A n \in 0 .. MaxTickets : [call[c] EXCEPT !.at = "ledger", !.ticket = n] \in CallStates
      BY <3>1 DEF CallStates, Stages
    <3> QED
      BY <3>1, <3>2
  <2>3. call' \in [Calls -> CallStates]
    BY <1>28, <2>2 DEF Prepared, TypeOK
  <2> QED
    BY <1>28, <2>1, <2>3 DEF Prepared, TypeOK, screen, history, Tickets
<1>29. ASSUME NEW c \in Calls, LedgerAccepts(c) PROVE TypeOK'
  <2>1. call' \in [Calls -> CallStates]
    BY <1>29, Advanced DEF LedgerAccepts, Stages
  <2>2. call[c].ticket \in Tickets
    BY <1>29, CallFields DEF LedgerAccepts, TicketsKnown, Tickets, Submitting, At
  <2> QED
    BY <1>29, <2>1, <2>2 DEF LedgerAccepts, TypeOK, screen, history
<1>30. ASSUME NEW c \in Calls, Delivered(c) PROVE TypeOK'
  <2>1. call[c].ticket \in 0 .. MaxTickets
    BY CallFields
  <2>2. mailed' \in SUBSET Tickets
    BY <1>30, <2>1 DEF Delivered, Deliverable, TypeOK
  <2> QED
    BY <1>30, <2>2, CompletesType DEF Delivered
<1>31. ASSUME NEW c \in Calls, NotDelivered(c) PROVE TypeOK'
  <2>1. call[c].ticket \in 0 .. MaxTickets
    BY CallFields
  <2>2. mailed' \in SUBSET Tickets
    BY <1>31, <2>1 DEF NotDelivered, Deliverable, TypeOK
  <2> QED
    BY <1>31, <2>2, CompletesType DEF NotDelivered
<1>32. ASSUME NEW c \in Calls, DemoCompleted(c) PROVE TypeOK'
  <2>1. call[c].ticket \in 0 .. MaxTickets
    BY CallFields
  <2>2. mailed' \in SUBSET Tickets
    BY <1>32, <2>1 DEF DemoCompleted, Deliverable, TypeOK
  <2> QED
    BY <1>32, <2>2, CompletesType DEF DemoCompleted
<1>33. ASSUME NEW c \in Calls, NotSubmitted(c) PROVE TypeOK'
  <2>1. call' \in [Calls -> CallStates]
    BY <1>33, Ended DEF NotSubmitted
  <2>2. form' \in Forms
    BY <1>33, FormFields DEF NotSubmitted, TypeOK, Forms
  <2>3. Authorized(c) => call[c].ticket \in Tickets
    BY <1>33, CallFields DEF NotSubmitted, Authorized, TicketsKnown, Submitting, Tickets
  <2>4. accepted' \in SUBSET Tickets
    BY <1>33, <2>3 DEF NotSubmitted, MayBeAccepted, CanSend, TypeOK
  <2>5. authorization' \in 0 .. MaxTickets
    BY <1>33, PageAssumption DEF NotSubmitted, TypeOK
  <2> QED
    BY <1>33, <2>1, <2>2, <2>4, <2>5 DEF NotSubmitted, TypeOK, history
<1>34. ASSUME NEW c \in Calls, RetryDelivered(c) PROVE TypeOK'
  <2>1. mailed' \in SUBSET Tickets
    BY <1>34, CallFields DEF RetryDelivered, Deliverable, TypeOK, Tickets
  <2> QED
    BY <1>34, <2>1, RetryEndsType DEF RetryDelivered
<1>35. ASSUME NEW c \in Calls, RetryFailed(c) PROVE TypeOK'
  <2>1. mailed' \in SUBSET Tickets
    BY <1>35, CallFields DEF RetryFailed, Deliverable, TypeOK, Tickets
  <2> QED
    BY <1>35, <2>1, RetryEndsType DEF RetryFailed
<1>36. CASE UNCHANGED vars
  BY <1>36 DEF vars, TypeOK
<1> QED
  BY <1>1, <1>2, <1>3, <1>4, <1>5, <1>6, <1>7, <1>8, <1>9, <1>10, <1>11, <1>12, <1>13, <1>14,
       <1>15, <1>16, <1>17, <1>18, <1>19, <1>20, <1>21, <1>22, <1>23, <1>24, <1>25, <1>26,
       <1>27, <1>28, <1>29, <1>30, <1>31, <1>32, <1>33, <1>34, <1>35, <1>36
     DEF Next, Navigate, Press, Answer

(* The end of a submission that has a receipt, saved or not: what the two have
   in common. *)
ReceiptedEffect(c, delivered) ==
  /\ form'.receipt = ReceiptOf(c, delivered) /\ form'.live = call[c].ticket
  /\ form'.step \in {"compose", "receipt"}
  /\ form'.otp = form.otp /\ form'.qualification = form.qualification
  /\ form'.destination = form.destination
  /\ form'.draft = form.draft /\ form'.evidence = form.evidence
  /\ stored' \in {stored, ReceiptOf(c, delivered)}
  /\ stored' = form'.receipt \/ (unsaved' /\ form'.step # "receipt")
  /\ authorization' = 0
  /\ call'[c] = Idle
  /\ \A d \in Calls \ {c} : call'[d] = call[d]
  /\ UNCHANGED <<demo, busy, prepared, accepted, strayed>>

(* Saved or not, a receipt has the effect named above. *)
LEMMA Receipting ==
  ASSUME TypeOK, NEW c \in Calls, NEW delivered \in BOOLEAN, Receipted(c, delivered)
  PROVE  ReceiptedEffect(c, delivered)
<1>1. call'[c] = Idle /\ \A d \in Calls \ {c} : call'[d] = call[d]
  BY Ended DEF Receipted, Completes, NotSaved
<1>2. form \in Forms
  BY DEF TypeOK
<1>3. CASE Completes(c, delivered)
  <2>1. form' = [form EXCEPT !.step = "receipt", !.receipt = ReceiptOf(c, delivered),
                             !.live = call[c].ticket]
    BY <1>3 DEF Completes
  <2>2. /\ form'.receipt = ReceiptOf(c, delivered) /\ form'.live = call[c].ticket
        /\ form'.step = "receipt"
        /\ form'.otp = form.otp /\ form'.qualification = form.qualification
        /\ form'.destination = form.destination
        /\ form'.draft = form.draft /\ form'.evidence = form.evidence
    BY <1>2, <2>1 DEF Forms
  <2> QED
    BY <1>1, <1>3, <2>2 DEF Completes, ReceiptedEffect
<1>4. CASE NotSaved(c, delivered)
  <2>1. form' = [form EXCEPT !.step = "compose", !.receipt = ReceiptOf(c, delivered),
                             !.live = call[c].ticket]
    BY <1>4 DEF NotSaved
  <2>2. /\ form'.receipt = ReceiptOf(c, delivered) /\ form'.live = call[c].ticket
        /\ form'.step = "compose"
        /\ form'.otp = form.otp /\ form'.qualification = form.qualification
        /\ form'.destination = form.destination
        /\ form'.draft = form.draft /\ form'.evidence = form.evidence
    BY <1>2, <2>1 DEF Forms
  <2> QED
    BY <1>1, <1>4, <2>2 DEF NotSaved, ReceiptedEffect
<1> QED
  BY <1>3, <1>4 DEF Receipted

(* The start of a qualification has several branches; this is what they have
   in common. *)
QualifyEffect(c) ==
  /\ call[c] = Idle
  /\ call' \in [Calls -> CallStates]
  /\ call'[c].kind = "qualify" /\ call'[c].ticket = 0
  /\ call'[c].at = "sleep" <=> demo
  /\ \A d \in Calls \ {c} : call'[d] = call[d]
  /\ busy' = IF demo THEN busy ELSE busy \cup {"qualifying"}
  /\ "qualifying" \notin busy /\ form.step = "qualify"
  /\ UNCHANGED <<demo, page, form, authorization, stored, prepared, accepted, mailed, strayed,
                 unsaved>>

(* Each way qualify() may go, with or without a wallet, has the effect named
   above. *)
LEMMA QualifyStarts ==
  ASSUME TypeOK, NEW c \in Calls, qualify(c)
  PROVE  QualifyEffect(c)
<1>1. call' \in [Calls -> CallStates]
  BY FormFields, Defaults, PageAssumption DEF qualify, Start, TypeOK, CallStates, Kinds,
       Stages, Routes
<1>2. CASE demo
  BY <1>1, <1>2 DEF QualifyEffect, qualify, Start, On, TypeOK, world, history
<1>3. CASE ~ demo
  <2>1. \E at \in {"connect", "session", "answer"} : Start(c, "qualify", at, form.route, NoReport, 0)
    BY <1>3 DEF qualify
  <2> QED
    BY <1>1, <1>3, <2>1 DEF QualifyEffect, qualify, Start, On, TypeOK, world, history
<1> QED
  BY <1>2, <1>3

(* The flags: whoever starts was alone, whoever ends takes its flag along. *)
LEMMA FlagsStep ==
  ASSUME TypeOK, SleepsInDemo, AtMostOne, BusyMeansRunning, [Next]_vars
  PROVE  (AtMostOne /\ BusyMeansRunning)'
<1> USE DEF SleepsInDemo, AtMostOne, BusyMeansRunning, Qualifying, Choosing, Retrying,
            Submitting, Idle, NoReport, FreshForm, NoReceipt
<1>1. CASE requestReportAccess \/ openHome \/ closeGate \/ DirectoryAnswered
  BY <1>1 DEF requestReportAccess, openHome, closeGate, DirectoryAnswered, Reload, world, history,
       TypeOK, CallStates, Forms
<1>2. CASE changeLanguage \/ differentEmail \/ updateDraft
  BY <1>2 DEF changeLanguage, differentEmail, updateDraft, Reload, world, history, On, TypeOK,
       CallStates, Forms
<1>3. CASE startAgain
  BY <1>3 DEF startAgain, On, InFlight, world, history, TypeOK, CallStates, Forms
<1>4. CASE ReloadPage
  BY <1>4 DEF ReloadPage, world, history, TypeOK, CallStates, Forms
<1>5. ASSUME NEW r \in Routes, changeMode(r) PROVE (AtMostOne /\ BusyMeansRunning)'
  BY <1>5 DEF changeMode, InFlight, world, history, TypeOK, CallStates, Forms
<1>6. ASSUME NEW r \in Routes, selectChannel(r) PROVE (AtMostOne /\ BusyMeansRunning)'
  BY <1>6 DEF selectChannel, On, Reload, world, history, TypeOK, CallStates, Forms
<1>7. ASSUME NEW f \in Files, removeFile(f) PROVE (AtMostOne /\ BusyMeansRunning)'
  BY <1>7 DEF removeFile, On, world, history, TypeOK, CallStates, Forms
<1>8. ASSUME NEW c \in Calls, connectFromWalletGate(c) PROVE (AtMostOne /\ BusyMeansRunning)'
  BY <1>8 DEF connectFromWalletGate, Start, world, history, TypeOK, CallStates, Forms
<1>9. ASSUME NEW c \in Calls, qualify(c) PROVE (AtMostOne /\ BusyMeansRunning)'
  <2>1. QualifyEffect(c)
    BY <1>9, QualifyStarts
  <2> QED
    BY <2>1 DEF QualifyEffect, TypeOK
<1>10. ASSUME NEW c \in Calls, verifyOtpAndIssueCredential(c)
       PROVE  (AtMostOne /\ BusyMeansRunning)'
  <2>1. /\ call[c] = Idle /\ call'[c].kind = "verify"
        /\ \A d \in Calls \ {c} : call'[d] = call[d]
        /\ form.step = "qualify" /\ "qualifying" \notin busy
    BY <1>10 DEF verifyOtpAndIssueCredential, Start, On, TypeOK, CallStates
  <2>2. ~ demo
    BY <1>10 DEF verifyOtpAndIssueCredential
  <2> QED
    BY <1>10, <2>1, <2>2 DEF verifyOtpAndIssueCredential, world, history
<1>11. ASSUME NEW c \in Calls, NEW selected \in SUBSET Files, handleEvidenceFiles(c, selected)
       PROVE  (AtMostOne /\ BusyMeansRunning)'
  BY <1>11 DEF handleEvidenceFiles, On, Start, world, history, TypeOK, CallStates, Forms
<1>12. ASSUME NEW c \in Calls, submitReport(c) PROVE (AtMostOne /\ BusyMeansRunning)'
  BY <1>12 DEF submitReport, On, Start, CurrentReport, world, history, TypeOK, CallStates, Forms
<1>13. ASSUME NEW c \in Calls, retryDelivery(c) PROVE (AtMostOne /\ BusyMeansRunning)'
  BY <1>13 DEF retryDelivery, CanRetry, Start, CurrentReport, world, history, On, TypeOK, CallStates,
       Forms
<1>14. ASSUME NEW c \in Calls, Connected(c) PROVE (AtMostOne /\ BusyMeansRunning)'
  <2>1. CASE call[c].kind = "connect"
    <3>1. call'[c] = Idle /\ \A d \in Calls \ {c} : call'[d] = call[d]
      BY <1>14, <2>1, Ended DEF Connected
    <3> QED
      BY <1>14, <2>1, <3>1 DEF Connected, world, history
  <2>2. CASE call[c].kind # "connect"
    <3>1. PICK at \in {"session", "answer"} : Advance(c, at)
      BY <1>14, <2>2 DEF Connected
    <3> QED
      BY <1>14, <2>2, <3>1 DEF Connected, At, End, Reload, Advance, world, history, TypeOK,
           CallStates, Forms
  <2> QED
    BY <2>1, <2>2
<1>15. ASSUME NEW c \in Calls, NotConnected(c) PROVE (AtMostOne /\ BusyMeansRunning)'
  BY <1>15 DEF NotConnected, At, End, world, history, TypeOK, CallStates, Forms
<1>16. ASSUME NEW c \in Calls, Enrolled(c) PROVE (AtMostOne /\ BusyMeansRunning)'
  BY <1>16 DEF Enrolled, At, Advance, screen, world, history, TypeOK, CallStates, Forms
<1>17. ASSUME NEW c \in Calls, OtpRequested(c) PROVE (AtMostOne /\ BusyMeansRunning)'
  <2>1. ~ demo /\ Qualifying(c)
    BY <1>17 DEF OtpRequested, At
  <2>2. CASE End(c)
    <3>1. call'[c] = Idle /\ \A d \in Calls \ {c} : call'[d] = call[d]
      BY <2>2, Ended
    <3>2. busy' = busy \ {"qualifying"} /\ form'.step = form.step
      BY <1>17, <2>2, <3>1 DEF OtpRequested, Advance, At, TypeOK, Forms, CallStates, None
    <3> QED
      BY <1>17, <2>1, <3>1, <3>2 DEF OtpRequested, world, history
  <2>3. CASE Advance(c, "answer") /\ UNCHANGED <<form, busy>>
    BY <1>17, <2>3 DEF OtpRequested, Advance, world, history, TypeOK, CallStates
  <2> QED
    BY <1>17, <2>2, <2>3 DEF OtpRequested
<1>18. ASSUME NEW c \in Calls, Qualified(c) PROVE (AtMostOne /\ BusyMeansRunning)'
  BY <1>18 DEF Qualified, At, End, world, history, TypeOK, CallStates, Forms
<1>19. ASSUME NEW c \in Calls, DemoQualified(c) PROVE (AtMostOne /\ BusyMeansRunning)'
  BY <1>19 DEF DemoQualified, At, End, world, history, TypeOK, CallStates, Forms
<1>20. ASSUME NEW c \in Calls, NotQualified(c) PROVE (AtMostOne /\ BusyMeansRunning)'
  BY <1>20 DEF NotQualified, End, world, history, TypeOK, CallStates, Forms
<1>21. ASSUME NEW c \in Calls, EvidenceRead(c) PROVE (AtMostOne /\ BusyMeansRunning)'
  BY <1>21 DEF EvidenceRead, At, End, world, history, TypeOK, CallStates, Forms
<1>22. ASSUME NEW c \in Calls, EvidenceRefused(c) PROVE (AtMostOne /\ BusyMeansRunning)'
  BY <1>22 DEF EvidenceRefused, At, End, world, history, TypeOK, CallStates, Forms
<1>23. ASSUME NEW c \in Calls, Prepared(c) PROVE (AtMostOne /\ BusyMeansRunning)'
  <2>1. \A d \in Calls : call'[d].kind = call[d].kind
    BY <1>23 DEF Prepared, TypeOK, CallStates
  <2>2. UNCHANGED <<demo, busy, form>>
    BY <1>23 DEF Prepared, screen
  <2>3. AtMostOne'
    BY <2>1, <2>2
  <2>4. BusyMeansRunning'
    BY <2>1, <2>2
  <2> QED
    BY <2>3, <2>4
<1>24. ASSUME NEW c \in Calls, LedgerAccepts(c) PROVE (AtMostOne /\ BusyMeansRunning)'
  BY <1>24 DEF LedgerAccepts, CanSend, At, Advance, screen, history, TypeOK, CallStates, Forms
<1>25. ASSUME NEW c \in Calls, Delivered(c) PROVE (AtMostOne /\ BusyMeansRunning)'
  <2>1. ReceiptedEffect(c, TRUE)
    BY <1>25, Receipting DEF Delivered
  <2> QED
    BY <1>25, <2>1 DEF Delivered, At, Deliverable, ReceiptedEffect, ReceiptOf
<1>26. ASSUME NEW c \in Calls, NotDelivered(c) PROVE (AtMostOne /\ BusyMeansRunning)'
  <2>1. ReceiptedEffect(c, FALSE)
    BY <1>26, Receipting DEF NotDelivered
  <2> QED
    BY <1>26, <2>1 DEF NotDelivered, At, Deliverable, ReceiptedEffect, ReceiptOf
<1>27. ASSUME NEW c \in Calls, DemoCompleted(c) PROVE (AtMostOne /\ BusyMeansRunning)'
  <2>1. ReceiptedEffect(c, FALSE)
    BY <1>27, Receipting DEF DemoCompleted
  <2> QED
    BY <1>27, <2>1 DEF DemoCompleted, At, Deliverable, ReceiptedEffect, ReceiptOf
<1>28. ASSUME NEW c \in Calls, NotSubmitted(c) PROVE (AtMostOne /\ BusyMeansRunning)'
  BY <1>28 DEF NotSubmitted, Authorized, MayBeAccepted, CanSend, End, history, TypeOK, CallStates, Forms
<1>29. ASSUME NEW c \in Calls, RetryDelivered(c) PROVE (AtMostOne /\ BusyMeansRunning)'
  BY <1>29 DEF RetryDelivered, Deliverable, RetryEnds, At, End, TypeOK, CallStates, Forms
<1>30. ASSUME NEW c \in Calls, RetryFailed(c) PROVE (AtMostOne /\ BusyMeansRunning)'
  BY <1>30 DEF RetryFailed, At, Deliverable, RetryEnds, End, TypeOK, CallStates, Forms
<1>31. CASE UNCHANGED vars
  BY <1>31 DEF vars, world, screen
<1> QED
  BY <1>1, <1>2, <1>3, <1>4, <1>5, <1>6, <1>7, <1>8, <1>9, <1>10, <1>11, <1>12, <1>13, <1>14,
       <1>15, <1>16, <1>17, <1>18, <1>19, <1>20, <1>21, <1>22, <1>23, <1>24, <1>25, <1>26,
       <1>27, <1>28, <1>29, <1>30, <1>31 DEF Next, Navigate, Press, Answer

(* The receipt is written to the screen and to localStorage together. *)
LEMMA ReceiptStep ==
  ASSUME TypeOK, KnownSource, OneReceipt, [Next]_vars
  PROVE  (KnownSource /\ OneReceipt)'
<1> USE DEF KnownSource, OneReceipt, NoReceipt, None, FreshForm, Receipts
<1>1. CASE requestReportAccess \/ openHome \/ closeGate \/ DirectoryAnswered
  BY <1>1 DEF requestReportAccess, openHome, closeGate, DirectoryAnswered, Reload, world, history,
       TypeOK, CallStates, Forms
<1>2. CASE changeLanguage \/ differentEmail \/ updateDraft
  BY <1>2 DEF changeLanguage, differentEmail, updateDraft, Reload, world, history, On, TypeOK,
       CallStates, Forms
<1>3. CASE startAgain
  BY <1>3 DEF startAgain, On, InFlight, world, history, TypeOK, CallStates, Forms
<1>4. CASE ReloadPage
  BY <1>4 DEF ReloadPage, world, history, TypeOK, CallStates, Forms
<1>5. ASSUME NEW r \in Routes, changeMode(r) PROVE (KnownSource /\ OneReceipt)'
  BY <1>5 DEF changeMode, InFlight, world, history, TypeOK, CallStates, Forms
<1>6. ASSUME NEW r \in Routes, selectChannel(r) PROVE (KnownSource /\ OneReceipt)'
  BY <1>6 DEF selectChannel, On, Reload, world, history, TypeOK, CallStates, Forms
<1>7. ASSUME NEW f \in Files, removeFile(f) PROVE (KnownSource /\ OneReceipt)'
  BY <1>7 DEF removeFile, On, world, history, TypeOK, CallStates, Forms
<1>8. ASSUME NEW c \in Calls, connectFromWalletGate(c) PROVE (KnownSource /\ OneReceipt)'
  BY <1>8 DEF connectFromWalletGate, Start, world, history, TypeOK, CallStates, Forms
<1>9. ASSUME NEW c \in Calls, qualify(c) PROVE (KnownSource /\ OneReceipt)'
  BY <1>9 DEF qualify, On, CanQualify, Start, world, history, TypeOK, CallStates, Forms
<1>10. ASSUME NEW c \in Calls, verifyOtpAndIssueCredential(c)
       PROVE  (KnownSource /\ OneReceipt)'
  BY <1>10 DEF verifyOtpAndIssueCredential, On, Start, world, history, TypeOK, CallStates, Forms
<1>11. ASSUME NEW c \in Calls, NEW selected \in SUBSET Files, handleEvidenceFiles(c, selected)
       PROVE  (KnownSource /\ OneReceipt)'
  BY <1>11 DEF handleEvidenceFiles, On, Start, world, history, TypeOK, CallStates, Forms
<1>12. ASSUME NEW c \in Calls, submitReport(c) PROVE (KnownSource /\ OneReceipt)'
  BY <1>12 DEF submitReport, On, Start, CurrentReport, world, history, TypeOK, CallStates, Forms
<1>13. ASSUME NEW c \in Calls, retryDelivery(c) PROVE (KnownSource /\ OneReceipt)'
  BY <1>13 DEF retryDelivery, CanRetry, Start, CurrentReport, world, history, On, TypeOK, CallStates,
       Forms
<1>14. ASSUME NEW c \in Calls, Connected(c) PROVE (KnownSource /\ OneReceipt)'
  BY <1>14 DEF Connected, At, End, Reload, Advance, world, history, TypeOK, CallStates, Forms
<1>15. ASSUME NEW c \in Calls, NotConnected(c) PROVE (KnownSource /\ OneReceipt)'
  BY <1>15 DEF NotConnected, At, End, world, history, TypeOK, CallStates, Forms
<1>16. ASSUME NEW c \in Calls, Enrolled(c) PROVE (KnownSource /\ OneReceipt)'
  BY <1>16 DEF Enrolled, At, Advance, screen, world, history, TypeOK, CallStates, Forms
<1>17. ASSUME NEW c \in Calls, OtpRequested(c) PROVE (KnownSource /\ OneReceipt)'
  BY <1>17 DEF OtpRequested, At, End, Advance, world, history, TypeOK, CallStates, Forms
<1>18. ASSUME NEW c \in Calls, Qualified(c) PROVE (KnownSource /\ OneReceipt)'
  BY <1>18 DEF Qualified, At, End, world, history, TypeOK, CallStates, Forms
<1>19. ASSUME NEW c \in Calls, DemoQualified(c) PROVE (KnownSource /\ OneReceipt)'
  BY <1>19 DEF DemoQualified, At, End, world, history, TypeOK, CallStates, Forms
<1>20. ASSUME NEW c \in Calls, NotQualified(c) PROVE (KnownSource /\ OneReceipt)'
  BY <1>20 DEF NotQualified, End, world, history, TypeOK, CallStates, Forms
<1>21. ASSUME NEW c \in Calls, EvidenceRead(c) PROVE (KnownSource /\ OneReceipt)'
  BY <1>21 DEF EvidenceRead, At, End, world, history, TypeOK, CallStates, Forms
<1>22. ASSUME NEW c \in Calls, EvidenceRefused(c) PROVE (KnownSource /\ OneReceipt)'
  BY <1>22 DEF EvidenceRefused, At, End, world, history, TypeOK, CallStates, Forms
<1>23. ASSUME NEW c \in Calls, Prepared(c) PROVE (KnownSource /\ OneReceipt)'
  BY <1>23 DEF Prepared, At, screen, history, TypeOK, CallStates, Forms
<1>24. ASSUME NEW c \in Calls, LedgerAccepts(c) PROVE (KnownSource /\ OneReceipt)'
  BY <1>24 DEF LedgerAccepts, CanSend, At, Advance, screen, history, TypeOK, CallStates, Forms
<1>25. ASSUME NEW c \in Calls, Delivered(c) PROVE (KnownSource /\ OneReceipt)'
  <2>1. ReceiptedEffect(c, TRUE)
    BY <1>25, Receipting DEF Delivered
  <2> QED
    BY <1>25, <2>1 DEF Delivered, At, Deliverable, ReceiptedEffect, ReceiptOf
<1>26. ASSUME NEW c \in Calls, NotDelivered(c) PROVE (KnownSource /\ OneReceipt)'
  <2>1. ReceiptedEffect(c, FALSE)
    BY <1>26, Receipting DEF NotDelivered
  <2> QED
    BY <1>26, <2>1 DEF NotDelivered, At, Deliverable, ReceiptedEffect, ReceiptOf
<1>27. ASSUME NEW c \in Calls, DemoCompleted(c) PROVE (KnownSource /\ OneReceipt)'
  <2>1. ReceiptedEffect(c, FALSE)
    BY <1>27, Receipting DEF DemoCompleted
  <2> QED
    BY <1>27, <2>1 DEF DemoCompleted, At, Deliverable, ReceiptedEffect, ReceiptOf
<1>28. ASSUME NEW c \in Calls, NotSubmitted(c) PROVE (KnownSource /\ OneReceipt)'
  BY <1>28 DEF NotSubmitted, Authorized, MayBeAccepted, CanSend, End, history, TypeOK, CallStates, Forms
<1>29. ASSUME NEW c \in Calls, RetryDelivered(c) PROVE (KnownSource /\ OneReceipt)'
  <2>1. CASE form.receipt = NoReceipt
    BY <1>29, <2>1 DEF RetryDelivered, RetryEnds
  <2>2. CASE form.receipt # NoReceipt
    <3>1. /\ form'.receipt.ticket = form.receipt.ticket /\ form'.receipt.source = form.receipt.source
          /\ form'.live = form.live /\ form'.step = form.step /\ stored' = form'.receipt
      BY <1>29, <2>2 DEF RetryDelivered, RetryEnds, TypeOK, Forms
    <3> QED
      BY <2>2, <3>1
  <2> QED
    BY <2>1, <2>2
<1>30. ASSUME NEW c \in Calls, RetryFailed(c) PROVE (KnownSource /\ OneReceipt)'
  <2>1. CASE form.receipt = NoReceipt
    BY <1>30, <2>1 DEF RetryFailed, RetryEnds
  <2>2. CASE form.receipt # NoReceipt
    <3>1. /\ form'.receipt.ticket = form.receipt.ticket /\ form'.receipt.source = form.receipt.source
          /\ form'.live = form.live /\ form'.step = form.step /\ stored' = form'.receipt
      BY <1>30, <2>2 DEF RetryFailed, RetryEnds, TypeOK, Forms
    <3> QED
      BY <2>2, <3>1
  <2> QED
    BY <2>1, <2>2
<1>31. CASE UNCHANGED vars
  BY <1>31 DEF vars, world, screen
<1> QED
  BY <1>1, <1>2, <1>3, <1>4, <1>5, <1>6, <1>7, <1>8, <1>9, <1>10, <1>11, <1>12, <1>13, <1>14,
       <1>15, <1>16, <1>17, <1>18, <1>19, <1>20, <1>21, <1>22, <1>23, <1>24, <1>25, <1>26,
       <1>27, <1>28, <1>29, <1>30, <1>31 DEF Next, Navigate, Press, Answer

(* An answer sets the destination with its qualification. *)
LEMMA DestinationStep ==
  ASSUME TypeOK, SleepsInDemo, DestinationIsQualified, [Next]_vars
  PROVE  (SleepsInDemo /\ DestinationIsQualified)'
<1> USE DEF SleepsInDemo, DestinationIsQualified, Qualifying, Submitting, Idle, FreshForm, NoReport
<1>1. CASE requestReportAccess \/ openHome \/ closeGate \/ DirectoryAnswered
  BY <1>1 DEF requestReportAccess, openHome, closeGate, DirectoryAnswered, Reload, world, history,
       TypeOK, CallStates, Forms
<1>2. CASE changeLanguage \/ differentEmail \/ updateDraft
  BY <1>2 DEF changeLanguage, differentEmail, updateDraft, Reload, world, history, On, TypeOK,
       CallStates, Forms
<1>3. CASE startAgain
  BY <1>3 DEF startAgain, On, InFlight, world, history, TypeOK, CallStates, Forms
<1>4. CASE ReloadPage
  BY <1>4 DEF ReloadPage, world, history, TypeOK, CallStates, Forms
<1>5. ASSUME NEW r \in Routes, changeMode(r) PROVE (SleepsInDemo /\ DestinationIsQualified)'
  BY <1>5 DEF changeMode, InFlight, world, history, TypeOK, CallStates, Forms
<1>6. ASSUME NEW r \in Routes, selectChannel(r) PROVE (SleepsInDemo /\ DestinationIsQualified)'
  BY <1>6 DEF selectChannel, On, Reload, world, history, TypeOK, CallStates, Forms
<1>7. ASSUME NEW f \in Files, removeFile(f) PROVE (SleepsInDemo /\ DestinationIsQualified)'
  BY <1>7 DEF removeFile, On, world, history, TypeOK, CallStates, Forms
<1>8. ASSUME NEW c \in Calls, connectFromWalletGate(c)
      PROVE  (SleepsInDemo /\ DestinationIsQualified)'
  BY <1>8 DEF connectFromWalletGate, Start, world, history, TypeOK, CallStates, Forms
<1>9. ASSUME NEW c \in Calls, qualify(c) PROVE (SleepsInDemo /\ DestinationIsQualified)'
  <2>1. QualifyEffect(c)
    BY <1>9, QualifyStarts
  <2> QED
    BY <2>1 DEF QualifyEffect, TypeOK
<1>10. ASSUME NEW c \in Calls, verifyOtpAndIssueCredential(c)
       PROVE  (SleepsInDemo /\ DestinationIsQualified)'
  BY <1>10 DEF verifyOtpAndIssueCredential, On, Start, world, history, TypeOK, CallStates, Forms
<1>11. ASSUME NEW c \in Calls, NEW selected \in SUBSET Files, handleEvidenceFiles(c, selected)
       PROVE  (SleepsInDemo /\ DestinationIsQualified)'
  BY <1>11 DEF handleEvidenceFiles, On, Start, world, history, TypeOK, CallStates, Forms
<1>12. ASSUME NEW c \in Calls, submitReport(c) PROVE (SleepsInDemo /\ DestinationIsQualified)'
  BY <1>12 DEF submitReport, On, Start, CurrentReport, world, history, TypeOK, CallStates, Forms
<1>13. ASSUME NEW c \in Calls, retryDelivery(c) PROVE (SleepsInDemo /\ DestinationIsQualified)'
  BY <1>13 DEF retryDelivery, CanRetry, Start, CurrentReport, world, history, On, TypeOK, CallStates,
       Forms
<1>14. ASSUME NEW c \in Calls, Connected(c) PROVE (SleepsInDemo /\ DestinationIsQualified)'
  <2>1. CASE call[c].kind = "connect"
    <3>1. call'[c] = Idle /\ \A d \in Calls \ {c} : call'[d] = call[d]
      BY <1>14, <2>1, Ended DEF Connected
    <3> QED
      BY <1>14, <2>1, <3>1 DEF Connected, world, history
  <2>2. CASE call[c].kind # "connect"
    <3>1. PICK at \in {"session", "answer"} : Advance(c, at)
      BY <1>14, <2>2 DEF Connected
    <3> QED
      BY <1>14, <2>2, <3>1 DEF Connected, At, End, Reload, Advance, world, history, TypeOK,
           CallStates, Forms
  <2> QED
    BY <2>1, <2>2
<1>15. ASSUME NEW c \in Calls, NotConnected(c) PROVE (SleepsInDemo /\ DestinationIsQualified)'
  BY <1>15 DEF NotConnected, At, End, world, history, TypeOK, CallStates, Forms
<1>16. ASSUME NEW c \in Calls, Enrolled(c) PROVE (SleepsInDemo /\ DestinationIsQualified)'
  BY <1>16 DEF Enrolled, At, Advance, screen, world, history, TypeOK, CallStates, Forms
<1>17. ASSUME NEW c \in Calls, OtpRequested(c) PROVE (SleepsInDemo /\ DestinationIsQualified)'
  <2>1. CASE End(c)
    BY <1>17, <2>1 DEF OtpRequested, At, End, Advance, world, history, TypeOK, CallStates, Forms
  <2>2. CASE Advance(c, "answer") /\ UNCHANGED <<form, busy>>
    BY <1>17, <2>2 DEF OtpRequested, At, End, Advance, world, history, TypeOK, CallStates, Forms
  <2> QED
    BY <1>17, <2>1, <2>2 DEF OtpRequested
<1>18. ASSUME NEW c \in Calls, Qualified(c) PROVE (SleepsInDemo /\ DestinationIsQualified)'
  BY <1>18 DEF Qualified, At, End, world, history, TypeOK, CallStates, Forms
<1>19. ASSUME NEW c \in Calls, DemoQualified(c) PROVE (SleepsInDemo /\ DestinationIsQualified)'
  BY <1>19 DEF DemoQualified, At, End, world, history, TypeOK, CallStates, Forms
<1>20. ASSUME NEW c \in Calls, NotQualified(c) PROVE (SleepsInDemo /\ DestinationIsQualified)'
  BY <1>20 DEF NotQualified, End, world, history, TypeOK, CallStates, Forms
<1>21. ASSUME NEW c \in Calls, EvidenceRead(c) PROVE (SleepsInDemo /\ DestinationIsQualified)'
  BY <1>21 DEF EvidenceRead, At, End, world, history, TypeOK, CallStates, Forms
<1>22. ASSUME NEW c \in Calls, EvidenceRefused(c)
       PROVE  (SleepsInDemo /\ DestinationIsQualified)'
  BY <1>22 DEF EvidenceRefused, At, End, world, history, TypeOK, CallStates, Forms
<1>23. ASSUME NEW c \in Calls, Prepared(c) PROVE (SleepsInDemo /\ DestinationIsQualified)'
  BY <1>23 DEF Prepared, At, screen, history, TypeOK, CallStates, Forms
<1>24. ASSUME NEW c \in Calls, LedgerAccepts(c) PROVE (SleepsInDemo /\ DestinationIsQualified)'
  BY <1>24 DEF LedgerAccepts, CanSend, At, Advance, screen, history, TypeOK, CallStates, Forms
<1>25. ASSUME NEW c \in Calls, Delivered(c) PROVE (SleepsInDemo /\ DestinationIsQualified)'
  <2>1. ReceiptedEffect(c, TRUE)
    BY <1>25, Receipting DEF Delivered
  <2> QED
    BY <1>25, <2>1 DEF Delivered, At, Deliverable, ReceiptedEffect, ReceiptOf
<1>26. ASSUME NEW c \in Calls, NotDelivered(c) PROVE (SleepsInDemo /\ DestinationIsQualified)'
  <2>1. ReceiptedEffect(c, FALSE)
    BY <1>26, Receipting DEF NotDelivered
  <2> QED
    BY <1>26, <2>1 DEF NotDelivered, At, Deliverable, ReceiptedEffect, ReceiptOf
<1>27. ASSUME NEW c \in Calls, DemoCompleted(c) PROVE (SleepsInDemo /\ DestinationIsQualified)'
  <2>1. ReceiptedEffect(c, FALSE)
    BY <1>27, Receipting DEF DemoCompleted
  <2> QED
    BY <1>27, <2>1 DEF DemoCompleted, At, Deliverable, ReceiptedEffect, ReceiptOf
<1>28. ASSUME NEW c \in Calls, NotSubmitted(c) PROVE (SleepsInDemo /\ DestinationIsQualified)'
  BY <1>28 DEF NotSubmitted, Authorized, MayBeAccepted, CanSend, End, history, TypeOK, CallStates, Forms
<1>29. ASSUME NEW c \in Calls, RetryDelivered(c)
       PROVE  (SleepsInDemo /\ DestinationIsQualified)'
  BY <1>29 DEF RetryDelivered, Deliverable, RetryEnds, At, End, TypeOK, CallStates, Forms
<1>30. ASSUME NEW c \in Calls, RetryFailed(c) PROVE (SleepsInDemo /\ DestinationIsQualified)'
  BY <1>30 DEF RetryFailed, At, Deliverable, RetryEnds, End, TypeOK, CallStates, Forms
<1>31. CASE UNCHANGED vars
  BY <1>31 DEF vars, world, screen
<1> QED
  BY <1>1, <1>2, <1>3, <1>4, <1>5, <1>6, <1>7, <1>8, <1>9, <1>10, <1>11, <1>12, <1>13, <1>14,
       <1>15, <1>16, <1>17, <1>18, <1>19, <1>20, <1>21, <1>22, <1>23, <1>24, <1>25, <1>26,
       <1>27, <1>28, <1>29, <1>30, <1>31 DEF Next, Navigate, Press, Answer

(* Who set the authorization is still there, or has cleared it. *)
LEMMA AuthorizationStep ==
  ASSUME TypeOK, TicketsKnown, NoLeakedAuthorization, [Next]_vars
  PROVE  NoLeakedAuthorization'
<1> USE DEF NoLeakedAuthorization, TicketsKnown, Submitting, Retrying, Idle
<1>1. CASE requestReportAccess \/ openHome \/ closeGate \/ DirectoryAnswered
  BY <1>1 DEF requestReportAccess, openHome, closeGate, DirectoryAnswered, Reload, world, history,
       TypeOK, CallStates, Forms
<1>2. CASE changeLanguage \/ differentEmail \/ updateDraft
  BY <1>2 DEF changeLanguage, differentEmail, updateDraft, Reload, world, history, On, TypeOK,
       CallStates, Forms
<1>3. CASE startAgain
  BY <1>3 DEF startAgain, On, InFlight, world, history, TypeOK, CallStates, Forms
<1>4. CASE ReloadPage
  BY <1>4 DEF ReloadPage, world, history, TypeOK, CallStates, Forms
<1>5. ASSUME NEW r \in Routes, changeMode(r) PROVE NoLeakedAuthorization'
  BY <1>5 DEF changeMode, InFlight, world, history, TypeOK, CallStates, Forms
<1>6. ASSUME NEW r \in Routes, selectChannel(r) PROVE NoLeakedAuthorization'
  BY <1>6 DEF selectChannel, On, Reload, world, history, TypeOK, CallStates, Forms
<1>7. ASSUME NEW f \in Files, removeFile(f) PROVE NoLeakedAuthorization'
  BY <1>7 DEF removeFile, On, world, history, TypeOK, CallStates, Forms
<1>8. ASSUME NEW c \in Calls, connectFromWalletGate(c) PROVE NoLeakedAuthorization'
  BY <1>8 DEF connectFromWalletGate, Start, world, history, TypeOK, CallStates, Forms
<1>9. ASSUME NEW c \in Calls, qualify(c) PROVE NoLeakedAuthorization'
  <2>1. QualifyEffect(c)
    BY <1>9, QualifyStarts
  <2> QED
    BY <2>1 DEF QualifyEffect, TypeOK
<1>10. ASSUME NEW c \in Calls, verifyOtpAndIssueCredential(c) PROVE NoLeakedAuthorization'
  BY <1>10 DEF verifyOtpAndIssueCredential, On, Start, world, history, TypeOK, CallStates, Forms
<1>11. ASSUME NEW c \in Calls, NEW selected \in SUBSET Files, handleEvidenceFiles(c, selected)
       PROVE  NoLeakedAuthorization'
  BY <1>11 DEF handleEvidenceFiles, On, Start, world, history, TypeOK, CallStates, Forms
<1>12. ASSUME NEW c \in Calls, submitReport(c) PROVE NoLeakedAuthorization'
  BY <1>12 DEF submitReport, On, Start, CurrentReport, world, history, TypeOK, CallStates, Forms
<1>13. ASSUME NEW c \in Calls, retryDelivery(c) PROVE NoLeakedAuthorization'
  BY <1>13 DEF retryDelivery, CanRetry, Start, CurrentReport, world, history, On, TypeOK, CallStates,
       Forms
<1>14. ASSUME NEW c \in Calls, Connected(c) PROVE NoLeakedAuthorization'
  <2>1. CASE call[c].kind = "connect"
    <3>1. call'[c] = Idle /\ \A d \in Calls \ {c} : call'[d] = call[d]
      BY <1>14, <2>1, Ended DEF Connected
    <3> QED
      BY <1>14, <2>1, <3>1 DEF Connected, world, history
  <2>2. CASE call[c].kind # "connect"
    <3>1. PICK at \in {"session", "answer"} : Advance(c, at)
      BY <1>14, <2>2 DEF Connected
    <3> QED
      BY <1>14, <2>2, <3>1 DEF Connected, At, End, Reload, Advance, world, history, TypeOK,
           CallStates, Forms
  <2> QED
    BY <2>1, <2>2
<1>15. ASSUME NEW c \in Calls, NotConnected(c) PROVE NoLeakedAuthorization'
  BY <1>15 DEF NotConnected, At, End, world, history, TypeOK, CallStates, Forms
<1>16. ASSUME NEW c \in Calls, Enrolled(c) PROVE NoLeakedAuthorization'
  BY <1>16 DEF Enrolled, At, Advance, screen, world, history, TypeOK, CallStates, Forms
<1>17. ASSUME NEW c \in Calls, OtpRequested(c) PROVE NoLeakedAuthorization'
  <2>1. CASE End(c)
    BY <1>17, <2>1 DEF OtpRequested, At, End, Advance, world, history, TypeOK, CallStates, Forms
  <2>2. CASE Advance(c, "answer") /\ UNCHANGED <<form, busy>>
    BY <1>17, <2>2 DEF OtpRequested, At, End, Advance, world, history, TypeOK, CallStates, Forms
  <2> QED
    BY <1>17, <2>1, <2>2 DEF OtpRequested
<1>18. ASSUME NEW c \in Calls, Qualified(c) PROVE NoLeakedAuthorization'
  BY <1>18 DEF Qualified, At, End, world, history, TypeOK, CallStates, Forms
<1>19. ASSUME NEW c \in Calls, DemoQualified(c) PROVE NoLeakedAuthorization'
  BY <1>19 DEF DemoQualified, At, End, world, history, TypeOK, CallStates, Forms
<1>20. ASSUME NEW c \in Calls, NotQualified(c) PROVE NoLeakedAuthorization'
  BY <1>20 DEF NotQualified, End, world, history, TypeOK, CallStates, Forms
<1>21. ASSUME NEW c \in Calls, EvidenceRead(c) PROVE NoLeakedAuthorization'
  BY <1>21 DEF EvidenceRead, At, End, world, history, TypeOK, CallStates, Forms
<1>22. ASSUME NEW c \in Calls, EvidenceRefused(c) PROVE NoLeakedAuthorization'
  BY <1>22 DEF EvidenceRefused, At, End, world, history, TypeOK, CallStates, Forms
<1>23. ASSUME NEW c \in Calls, Prepared(c) PROVE NoLeakedAuthorization'
  BY <1>23 DEF Prepared, At, screen, history, TypeOK, CallStates, Forms
<1>24. ASSUME NEW c \in Calls, LedgerAccepts(c) PROVE NoLeakedAuthorization'
  BY <1>24 DEF LedgerAccepts, CanSend, At, Advance, screen, history, TypeOK, CallStates, Forms
<1>25. ASSUME NEW c \in Calls, Delivered(c) PROVE NoLeakedAuthorization'
  <2>1. ReceiptedEffect(c, TRUE)
    BY <1>25, Receipting DEF Delivered
  <2> QED
    BY <1>25, <2>1 DEF Delivered, At, Deliverable, ReceiptedEffect, ReceiptOf
<1>26. ASSUME NEW c \in Calls, NotDelivered(c) PROVE NoLeakedAuthorization'
  <2>1. ReceiptedEffect(c, FALSE)
    BY <1>26, Receipting DEF NotDelivered
  <2> QED
    BY <1>26, <2>1 DEF NotDelivered, At, Deliverable, ReceiptedEffect, ReceiptOf
<1>27. ASSUME NEW c \in Calls, DemoCompleted(c) PROVE NoLeakedAuthorization'
  <2>1. ReceiptedEffect(c, FALSE)
    BY <1>27, Receipting DEF DemoCompleted
  <2> QED
    BY <1>27, <2>1 DEF DemoCompleted, At, Deliverable, ReceiptedEffect, ReceiptOf
<1>28. ASSUME NEW c \in Calls, NotSubmitted(c) PROVE NoLeakedAuthorization'
  BY <1>28 DEF NotSubmitted, Authorized, MayBeAccepted, CanSend, End, history, TypeOK, CallStates, Forms
<1>29. ASSUME NEW c \in Calls, RetryDelivered(c) PROVE NoLeakedAuthorization'
  BY <1>29 DEF RetryDelivered, Deliverable, RetryEnds, At, End, TypeOK, CallStates, Forms
<1>30. ASSUME NEW c \in Calls, RetryFailed(c) PROVE NoLeakedAuthorization'
  BY <1>30 DEF RetryFailed, At, Deliverable, RetryEnds, End, TypeOK, CallStates, Forms
<1>31. CASE UNCHANGED vars
  BY <1>31 DEF vars, world, screen
<1> QED
  BY <1>1, <1>2, <1>3, <1>4, <1>5, <1>6, <1>7, <1>8, <1>9, <1>10, <1>11, <1>12, <1>13, <1>14,
       <1>15, <1>16, <1>17, <1>18, <1>19, <1>20, <1>21, <1>22, <1>23, <1>24, <1>25, <1>26,
       <1>27, <1>28, <1>29, <1>30, <1>31 DEF Next, Navigate, Press, Answer

(* The ticket of a submission. *)
LEMMA TicketsStep ==
  ASSUME TypeOK, TicketsKnown, [Next]_vars
  PROVE  TicketsKnown'
<1> USE DEF TicketsKnown, Submitting, Retrying, Idle
<1>1. CASE requestReportAccess \/ openHome \/ closeGate \/ DirectoryAnswered
  BY <1>1 DEF requestReportAccess, openHome, closeGate, DirectoryAnswered, Reload, world, history,
       TypeOK, CallStates, Forms
<1>2. CASE changeLanguage \/ differentEmail \/ updateDraft
  BY <1>2 DEF changeLanguage, differentEmail, updateDraft, Reload, world, history, On, TypeOK,
       CallStates, Forms
<1>3. CASE startAgain
  BY <1>3 DEF startAgain, On, InFlight, world, history, TypeOK, CallStates, Forms
<1>4. CASE ReloadPage
  BY <1>4 DEF ReloadPage, world, history, TypeOK, CallStates, Forms
<1>5. ASSUME NEW r \in Routes, changeMode(r) PROVE TicketsKnown'
  BY <1>5 DEF changeMode, InFlight, world, history, TypeOK, CallStates, Forms
<1>6. ASSUME NEW r \in Routes, selectChannel(r) PROVE TicketsKnown'
  BY <1>6 DEF selectChannel, On, Reload, world, history, TypeOK, CallStates, Forms
<1>7. ASSUME NEW f \in Files, removeFile(f) PROVE TicketsKnown'
  BY <1>7 DEF removeFile, On, world, history, TypeOK, CallStates, Forms
<1>8. ASSUME NEW c \in Calls, connectFromWalletGate(c) PROVE TicketsKnown'
  BY <1>8 DEF connectFromWalletGate, Start, world, history, TypeOK, CallStates, Forms
<1>9. ASSUME NEW c \in Calls, qualify(c) PROVE TicketsKnown'
  <2>1. QualifyEffect(c)
    BY <1>9, QualifyStarts
  <2> QED
    BY <2>1 DEF QualifyEffect, TypeOK
<1>10. ASSUME NEW c \in Calls, verifyOtpAndIssueCredential(c) PROVE TicketsKnown'
  BY <1>10 DEF verifyOtpAndIssueCredential, On, Start, world, history, TypeOK, CallStates, Forms
<1>11. ASSUME NEW c \in Calls, NEW selected \in SUBSET Files, handleEvidenceFiles(c, selected)
       PROVE  TicketsKnown'
  BY <1>11 DEF handleEvidenceFiles, On, Start, world, history, TypeOK, CallStates, Forms
<1>12. ASSUME NEW c \in Calls, submitReport(c) PROVE TicketsKnown'
  BY <1>12 DEF submitReport, On, Start, CurrentReport, world, history, TypeOK, CallStates, Forms
<1>13. ASSUME NEW c \in Calls, retryDelivery(c) PROVE TicketsKnown'
  BY <1>13 DEF retryDelivery, CanRetry, Start, CurrentReport, world, history, On, TypeOK, CallStates,
       Forms
<1>14. ASSUME NEW c \in Calls, Connected(c) PROVE TicketsKnown'
  <2>1. CASE call[c].kind = "connect"
    <3>1. call'[c] = Idle /\ \A d \in Calls \ {c} : call'[d] = call[d]
      BY <1>14, <2>1, Ended DEF Connected
    <3> QED
      BY <1>14, <2>1, <3>1 DEF Connected, world, history
  <2>2. CASE call[c].kind # "connect"
    <3>1. PICK at \in {"session", "answer"} : Advance(c, at)
      BY <1>14, <2>2 DEF Connected
    <3> QED
      BY <1>14, <2>2, <3>1 DEF Connected, At, End, Reload, Advance, world, history, TypeOK,
           CallStates, Forms
  <2> QED
    BY <2>1, <2>2
<1>15. ASSUME NEW c \in Calls, NotConnected(c) PROVE TicketsKnown'
  BY <1>15 DEF NotConnected, At, End, world, history, TypeOK, CallStates, Forms
<1>16. ASSUME NEW c \in Calls, Enrolled(c) PROVE TicketsKnown'
  BY <1>16 DEF Enrolled, At, Advance, screen, world, history, TypeOK, CallStates, Forms
<1>17. ASSUME NEW c \in Calls, OtpRequested(c) PROVE TicketsKnown'
  <2>1. CASE End(c)
    BY <1>17, <2>1 DEF OtpRequested, At, End, Advance, world, history, TypeOK, CallStates, Forms
  <2>2. CASE Advance(c, "answer") /\ UNCHANGED <<form, busy>>
    BY <1>17, <2>2 DEF OtpRequested, At, End, Advance, world, history, TypeOK, CallStates, Forms
  <2> QED
    BY <1>17, <2>1, <2>2 DEF OtpRequested
<1>18. ASSUME NEW c \in Calls, Qualified(c) PROVE TicketsKnown'
  BY <1>18 DEF Qualified, At, End, world, history, TypeOK, CallStates, Forms
<1>19. ASSUME NEW c \in Calls, DemoQualified(c) PROVE TicketsKnown'
  BY <1>19 DEF DemoQualified, At, End, world, history, TypeOK, CallStates, Forms
<1>20. ASSUME NEW c \in Calls, NotQualified(c) PROVE TicketsKnown'
  BY <1>20 DEF NotQualified, End, world, history, TypeOK, CallStates, Forms
<1>21. ASSUME NEW c \in Calls, EvidenceRead(c) PROVE TicketsKnown'
  BY <1>21 DEF EvidenceRead, At, End, world, history, TypeOK, CallStates, Forms
<1>22. ASSUME NEW c \in Calls, EvidenceRefused(c) PROVE TicketsKnown'
  BY <1>22 DEF EvidenceRefused, At, End, world, history, TypeOK, CallStates, Forms
<1>23. ASSUME NEW c \in Calls, Prepared(c) PROVE TicketsKnown'
  BY <1>23 DEF Prepared, At, screen, history, TypeOK, CallStates, Forms
<1>24. ASSUME NEW c \in Calls, LedgerAccepts(c) PROVE TicketsKnown'
  BY <1>24 DEF LedgerAccepts, CanSend, At, Advance, screen, history, TypeOK, CallStates, Forms
<1>25. ASSUME NEW c \in Calls, Delivered(c) PROVE TicketsKnown'
  <2>1. ReceiptedEffect(c, TRUE)
    BY <1>25, Receipting DEF Delivered
  <2> QED
    BY <1>25, <2>1 DEF Delivered, At, Deliverable, ReceiptedEffect, ReceiptOf
<1>26. ASSUME NEW c \in Calls, NotDelivered(c) PROVE TicketsKnown'
  <2>1. ReceiptedEffect(c, FALSE)
    BY <1>26, Receipting DEF NotDelivered
  <2> QED
    BY <1>26, <2>1 DEF NotDelivered, At, Deliverable, ReceiptedEffect, ReceiptOf
<1>27. ASSUME NEW c \in Calls, DemoCompleted(c) PROVE TicketsKnown'
  <2>1. ReceiptedEffect(c, FALSE)
    BY <1>27, Receipting DEF DemoCompleted
  <2> QED
    BY <1>27, <2>1 DEF DemoCompleted, At, Deliverable, ReceiptedEffect, ReceiptOf
<1>28. ASSUME NEW c \in Calls, NotSubmitted(c) PROVE TicketsKnown'
  BY <1>28 DEF NotSubmitted, Authorized, MayBeAccepted, CanSend, End, history, TypeOK, CallStates, Forms
<1>29. ASSUME NEW c \in Calls, RetryDelivered(c) PROVE TicketsKnown'
  BY <1>29 DEF RetryDelivered, Deliverable, RetryEnds, At, End, TypeOK, CallStates, Forms
<1>30. ASSUME NEW c \in Calls, RetryFailed(c) PROVE TicketsKnown'
  BY <1>30 DEF RetryFailed, At, Deliverable, RetryEnds, End, TypeOK, CallStates, Forms
<1>31. CASE UNCHANGED vars
  BY <1>31 DEF vars, world, screen
<1> QED
  BY <1>1, <1>2, <1>3, <1>4, <1>5, <1>6, <1>7, <1>8, <1>9, <1>10, <1>11, <1>12, <1>13, <1>14,
       <1>15, <1>16, <1>17, <1>18, <1>19, <1>20, <1>21, <1>22, <1>23, <1>24, <1>25, <1>26,
       <1>27, <1>28, <1>29, <1>30, <1>31 DEF Next, Navigate, Press, Answer

(* A demo build stays a demo. *)
LEMMA DemoStep ==
  ASSUME TypeOK, TicketsKnown, OneReceipt, DemoPretends, [Next]_vars
  PROVE  DemoPretends'
<1> USE DEF TicketsKnown, DemoPretends, Submitting, Retrying, Idle, NoReport, FreshForm, NoReceipt
<1>1. CASE requestReportAccess \/ openHome \/ closeGate \/ DirectoryAnswered
  BY <1>1 DEF requestReportAccess, openHome, closeGate, DirectoryAnswered, Reload, world, history,
       TypeOK, CallStates, Forms
<1>2. CASE changeLanguage \/ differentEmail \/ updateDraft
  BY <1>2 DEF changeLanguage, differentEmail, updateDraft, Reload, world, history, On, TypeOK,
       CallStates, Forms
<1>3. CASE startAgain
  <2>1. form'.live = 0 /\ form'.receipt = NoReceipt
    BY <1>3 DEF startAgain
  <2> QED
    BY <1>3, <2>1 DEF startAgain, None
<1>4. CASE ReloadPage
  <2>1. form'.live = 0 /\ form'.receipt \in {stored, NoReceipt}
    BY <1>4 DEF ReloadPage
  <2> QED
    BY <1>4, <2>1 DEF ReloadPage, None
<1>5. ASSUME NEW r \in Routes, changeMode(r) PROVE DemoPretends'
  <2>1. form'.live = 0 /\ form'.receipt = NoReceipt
    BY <1>5 DEF changeMode
  <2> QED
    BY <1>5, <2>1 DEF changeMode, None
<1>6. ASSUME NEW r \in Routes, selectChannel(r) PROVE DemoPretends'
  BY <1>6 DEF selectChannel, On, Reload, world, history, TypeOK, CallStates, Forms
<1>7. ASSUME NEW f \in Files, removeFile(f) PROVE DemoPretends'
  BY <1>7 DEF removeFile, On, world, history, TypeOK, CallStates, Forms
<1>8. ASSUME NEW c \in Calls, connectFromWalletGate(c) PROVE DemoPretends'
  BY <1>8 DEF connectFromWalletGate, Start, world, history, TypeOK, CallStates, Forms
<1>9. ASSUME NEW c \in Calls, qualify(c) PROVE DemoPretends'
  <2>1. QualifyEffect(c)
    BY <1>9, QualifyStarts
  <2> QED
    BY <2>1 DEF QualifyEffect, TypeOK
<1>10. ASSUME NEW c \in Calls, verifyOtpAndIssueCredential(c) PROVE DemoPretends'
  BY <1>10 DEF verifyOtpAndIssueCredential, On, Start, world, history, TypeOK, CallStates, Forms
<1>11. ASSUME NEW c \in Calls, NEW selected \in SUBSET Files, handleEvidenceFiles(c, selected)
       PROVE  DemoPretends'
  BY <1>11 DEF handleEvidenceFiles, On, Start, world, history, TypeOK, CallStates, Forms
<1>12. ASSUME NEW c \in Calls, submitReport(c) PROVE DemoPretends'
  BY <1>12 DEF submitReport, On, Start, CurrentReport, world, history, TypeOK, CallStates, Forms
<1>13. ASSUME NEW c \in Calls, retryDelivery(c) PROVE DemoPretends'
  BY <1>13 DEF retryDelivery, CanRetry, Start, CurrentReport, world, history, On, TypeOK, CallStates,
       Forms
<1>14. ASSUME NEW c \in Calls, Connected(c) PROVE DemoPretends'
  <2>1. CASE call[c].kind = "connect"
    <3>1. call'[c] = Idle /\ \A d \in Calls \ {c} : call'[d] = call[d]
      BY <1>14, <2>1, Ended DEF Connected
    <3> QED
      BY <1>14, <2>1, <3>1 DEF Connected, world, history
  <2>2. CASE call[c].kind # "connect"
    <3>1. PICK at \in {"session", "answer"} : Advance(c, at)
      BY <1>14, <2>2 DEF Connected
    <3> QED
      BY <1>14, <2>2, <3>1 DEF Connected, At, End, Reload, Advance, world, history, TypeOK,
           CallStates, Forms
  <2> QED
    BY <2>1, <2>2
<1>15. ASSUME NEW c \in Calls, NotConnected(c) PROVE DemoPretends'
  BY <1>15 DEF NotConnected, At, End, world, history, TypeOK, CallStates, Forms
<1>16. ASSUME NEW c \in Calls, Enrolled(c) PROVE DemoPretends'
  BY <1>16 DEF Enrolled, At, Advance, screen, world, history, TypeOK, CallStates, Forms
<1>17. ASSUME NEW c \in Calls, OtpRequested(c) PROVE DemoPretends'
  <2>1. CASE End(c)
    BY <1>17, <2>1 DEF OtpRequested, At, End, Advance, world, history, TypeOK, CallStates, Forms
  <2>2. CASE Advance(c, "answer") /\ UNCHANGED <<form, busy>>
    BY <1>17, <2>2 DEF OtpRequested, At, End, Advance, world, history, TypeOK, CallStates, Forms
  <2> QED
    BY <1>17, <2>1, <2>2 DEF OtpRequested
<1>18. ASSUME NEW c \in Calls, Qualified(c) PROVE DemoPretends'
  BY <1>18 DEF Qualified, At, End, world, history, TypeOK, CallStates, Forms
<1>19. ASSUME NEW c \in Calls, DemoQualified(c) PROVE DemoPretends'
  BY <1>19 DEF DemoQualified, At, End, world, history, TypeOK, CallStates, Forms
<1>20. ASSUME NEW c \in Calls, NotQualified(c) PROVE DemoPretends'
  BY <1>20 DEF NotQualified, End, world, history, TypeOK, CallStates, Forms
<1>21. ASSUME NEW c \in Calls, EvidenceRead(c) PROVE DemoPretends'
  BY <1>21 DEF EvidenceRead, At, End, world, history, TypeOK, CallStates, Forms
<1>22. ASSUME NEW c \in Calls, EvidenceRefused(c) PROVE DemoPretends'
  BY <1>22 DEF EvidenceRefused, At, End, world, history, TypeOK, CallStates, Forms
<1>23. ASSUME NEW c \in Calls, Prepared(c) PROVE DemoPretends'
  BY <1>23 DEF Prepared, At, screen, history, TypeOK, CallStates, Forms
<1>24. ASSUME NEW c \in Calls, LedgerAccepts(c) PROVE DemoPretends'
  BY <1>24 DEF LedgerAccepts, CanSend, At, Advance, screen, history, TypeOK, CallStates, Forms
<1>25. ASSUME NEW c \in Calls, Delivered(c) PROVE DemoPretends'
  <2>1. ReceiptedEffect(c, TRUE)
    BY <1>25, Receipting DEF Delivered
  <2> QED
    BY <1>25, <2>1 DEF Delivered, At, Deliverable, ReceiptedEffect, ReceiptOf
<1>26. ASSUME NEW c \in Calls, NotDelivered(c) PROVE DemoPretends'
  <2>1. ReceiptedEffect(c, FALSE)
    BY <1>26, Receipting DEF NotDelivered
  <2> QED
    BY <1>26, <2>1 DEF NotDelivered, At, Deliverable, ReceiptedEffect, ReceiptOf
<1>27. ASSUME NEW c \in Calls, DemoCompleted(c) PROVE DemoPretends'
  <2>1. ReceiptedEffect(c, FALSE)
    BY <1>27, Receipting DEF DemoCompleted
  <2> QED
    BY <1>27, <2>1 DEF DemoCompleted, At, Deliverable, ReceiptedEffect, ReceiptOf
<1>28. ASSUME NEW c \in Calls, NotSubmitted(c) PROVE DemoPretends'
  BY <1>28 DEF NotSubmitted, Authorized, MayBeAccepted, CanSend, End, history, TypeOK, CallStates, Forms
<1>29. ASSUME NEW c \in Calls, RetryDelivered(c) PROVE DemoPretends'
  <2>1. /\ form'.live = form.live /\ form'.receipt.source = form.receipt.source
        /\ UNCHANGED demo
    BY <1>29 DEF RetryDelivered, RetryEnds, TypeOK, Forms, Receipts
  <2>2. Retrying(c) /\ call'[c] = Idle /\ \A d \in Calls \ {c} : call'[d] = call[d]
    BY <1>29 DEF RetryDelivered, RetryEnds, At, End, TypeOK
  <2>3. stored' = stored \/ stored'.source = form'.receipt.source
    BY <1>29 DEF RetryDelivered, RetryEnds
  <2> QED
    BY <2>1, <2>2, <2>3
<1>30. ASSUME NEW c \in Calls, RetryFailed(c) PROVE DemoPretends'
  <2>1. /\ form'.live = form.live /\ form'.receipt.source = form.receipt.source
        /\ UNCHANGED demo
    BY <1>30 DEF RetryFailed, RetryEnds, TypeOK, Forms, Receipts
  <2>2. Retrying(c) /\ call'[c] = Idle /\ \A d \in Calls \ {c} : call'[d] = call[d]
    BY <1>30 DEF RetryFailed, RetryEnds, At, End, TypeOK
  <2>3. stored' = stored \/ stored'.source = form'.receipt.source
    BY <1>30 DEF RetryFailed, RetryEnds
  <2> QED
    BY <2>1, <2>2, <2>3
<1>31. CASE UNCHANGED vars
  BY <1>31 DEF vars, world, screen
<1> QED
  BY <1>1, <1>2, <1>3, <1>4, <1>5, <1>6, <1>7, <1>8, <1>9, <1>10, <1>11, <1>12, <1>13, <1>14,
       <1>15, <1>16, <1>17, <1>18, <1>19, <1>20, <1>21, <1>22, <1>23, <1>24, <1>25, <1>26,
       <1>27, <1>28, <1>29, <1>30, <1>31 DEF Next, Navigate, Press, Answer

(* The course of a submission: nothing else moves the form on meanwhile. *)
LEMMA CourseStep ==
  ASSUME TypeOK, TicketsKnown, AtMostOne, BusyMeansRunning, OnCourse, [Next]_vars
  PROVE  OnCourse'
<1> USE DEF TicketsKnown, OnCourse, AtMostOne, BusyMeansRunning, Submitting, Retrying,
            Qualifying, Choosing, Idle, NoReport, FreshForm, NoReceipt, CurrentReport
<1>1. CASE requestReportAccess \/ openHome \/ closeGate \/ DirectoryAnswered
  BY <1>1 DEF requestReportAccess, openHome, closeGate, DirectoryAnswered, Reload, world, history,
       TypeOK, CallStates, Forms
<1>2. CASE changeLanguage \/ differentEmail \/ updateDraft
  BY <1>2 DEF changeLanguage, differentEmail, updateDraft, Reload, world, history, On, TypeOK,
       CallStates, Forms
<1>3. CASE startAgain
  BY <1>3 DEF startAgain, On, InFlight, world, history, TypeOK, CallStates, Forms
<1>4. CASE ReloadPage
  BY <1>4 DEF ReloadPage, world, history, TypeOK, CallStates, Forms
<1>5. ASSUME NEW r \in Routes, changeMode(r) PROVE OnCourse'
  BY <1>5 DEF changeMode, InFlight, world, history, TypeOK, CallStates, Forms
<1>6. ASSUME NEW r \in Routes, selectChannel(r) PROVE OnCourse'
  BY <1>6 DEF selectChannel, On, Reload, world, history, TypeOK, CallStates, Forms
<1>7. ASSUME NEW f \in Files, removeFile(f) PROVE OnCourse'
  BY <1>7 DEF removeFile, On, world, history, TypeOK, CallStates, Forms
<1>8. ASSUME NEW c \in Calls, connectFromWalletGate(c) PROVE OnCourse'
  BY <1>8 DEF connectFromWalletGate, Start, world, history, TypeOK, CallStates, Forms
<1>9. ASSUME NEW c \in Calls, qualify(c) PROVE OnCourse'
  <2>1. QualifyEffect(c)
    BY <1>9, QualifyStarts
  <2> QED
    BY <2>1 DEF QualifyEffect, TypeOK
<1>10. ASSUME NEW c \in Calls, verifyOtpAndIssueCredential(c) PROVE OnCourse'
  BY <1>10 DEF verifyOtpAndIssueCredential, On, Start, world, history, TypeOK, CallStates, Forms
<1>11. ASSUME NEW c \in Calls, NEW selected \in SUBSET Files, handleEvidenceFiles(c, selected)
       PROVE  OnCourse'
  BY <1>11 DEF handleEvidenceFiles, On, Start, world, history, TypeOK, CallStates, Forms
<1>12. ASSUME NEW c \in Calls, submitReport(c) PROVE OnCourse'
  BY <1>12 DEF submitReport, On, Start, world, history, TypeOK, CallStates, Forms
<1>13. ASSUME NEW c \in Calls, retryDelivery(c) PROVE OnCourse'
  BY <1>13 DEF retryDelivery, CanRetry, Start, world, history, On, TypeOK, CallStates, Forms
<1>14. ASSUME NEW c \in Calls, Connected(c) PROVE OnCourse'
  <2>1. CASE call[c].kind = "connect"
    <3>1. call'[c] = Idle /\ \A d \in Calls \ {c} : call'[d] = call[d]
      BY <1>14, <2>1, Ended DEF Connected
    <3> QED
      BY <1>14, <2>1, <3>1 DEF Connected, world, history
  <2>2. CASE call[c].kind # "connect"
    <3>1. PICK at \in {"session", "answer"} : Advance(c, at)
      BY <1>14, <2>2 DEF Connected
    <3> QED
      BY <1>14, <2>2, <3>1 DEF Connected, At, End, Reload, Advance, world, history, TypeOK,
           CallStates, Forms
  <2> QED
    BY <2>1, <2>2
<1>15. ASSUME NEW c \in Calls, NotConnected(c) PROVE OnCourse'
  BY <1>15 DEF NotConnected, At, End, world, history, TypeOK, CallStates, Forms
<1>16. ASSUME NEW c \in Calls, Enrolled(c) PROVE OnCourse'
  BY <1>16 DEF Enrolled, At, Advance, screen, world, history, TypeOK, CallStates, Forms
<1>17. ASSUME NEW c \in Calls, OtpRequested(c) PROVE OnCourse'
  <2>1. CASE End(c)
    BY <1>17, <2>1 DEF OtpRequested, At, End, Advance, world, history, TypeOK, CallStates, Forms
  <2>2. CASE Advance(c, "answer") /\ UNCHANGED <<form, busy>>
    BY <1>17, <2>2 DEF OtpRequested, At, End, Advance, world, history, TypeOK, CallStates, Forms
  <2> QED
    BY <1>17, <2>1, <2>2 DEF OtpRequested
<1>18. ASSUME NEW c \in Calls, Qualified(c) PROVE OnCourse'
  BY <1>18 DEF Qualified, At, End, world, history, TypeOK, CallStates, Forms
<1>19. ASSUME NEW c \in Calls, DemoQualified(c) PROVE OnCourse'
  BY <1>19 DEF DemoQualified, At, End, world, history, TypeOK, CallStates, Forms
<1>20. ASSUME NEW c \in Calls, NotQualified(c) PROVE OnCourse'
  BY <1>20 DEF NotQualified, End, world, history, TypeOK, CallStates, Forms
<1>21. ASSUME NEW c \in Calls, EvidenceRead(c) PROVE OnCourse'
  BY <1>21 DEF EvidenceRead, At, End, world, history, TypeOK, CallStates, Forms
<1>22. ASSUME NEW c \in Calls, EvidenceRefused(c) PROVE OnCourse'
  BY <1>22 DEF EvidenceRefused, At, End, world, history, TypeOK, CallStates, Forms
<1>23. ASSUME NEW c \in Calls, Prepared(c) PROVE OnCourse'
  BY <1>23 DEF Prepared, At, screen, history, TypeOK, CallStates, Forms
<1>24. ASSUME NEW c \in Calls, LedgerAccepts(c) PROVE OnCourse'
  BY <1>24 DEF LedgerAccepts, CanSend, At, Advance, screen, history, TypeOK, CallStates, Forms
<1>25. ASSUME NEW c \in Calls, Delivered(c) PROVE OnCourse'
  <2>1. ReceiptedEffect(c, TRUE)
    BY <1>25, Receipting DEF Delivered
  <2> QED
    BY <1>25, <2>1 DEF Delivered, At, Deliverable, ReceiptedEffect, ReceiptOf
<1>26. ASSUME NEW c \in Calls, NotDelivered(c) PROVE OnCourse'
  <2>1. ReceiptedEffect(c, FALSE)
    BY <1>26, Receipting DEF NotDelivered
  <2> QED
    BY <1>26, <2>1 DEF NotDelivered, At, Deliverable, ReceiptedEffect, ReceiptOf
<1>27. ASSUME NEW c \in Calls, DemoCompleted(c) PROVE OnCourse'
  <2>1. ReceiptedEffect(c, FALSE)
    BY <1>27, Receipting DEF DemoCompleted
  <2> QED
    BY <1>27, <2>1 DEF DemoCompleted, At, Deliverable, ReceiptedEffect, ReceiptOf
<1>28. ASSUME NEW c \in Calls, NotSubmitted(c) PROVE OnCourse'
  BY <1>28 DEF NotSubmitted, Authorized, MayBeAccepted, CanSend, End, history, TypeOK, CallStates, Forms
<1>29. ASSUME NEW c \in Calls, RetryDelivered(c) PROVE OnCourse'
  <2>1. /\ form'.step = form.step /\ form'.live = form.live
        /\ form'.draft = form.draft /\ form'.evidence = form.evidence
    BY <1>29 DEF RetryDelivered, RetryEnds, TypeOK, Forms
  <2>2. Retrying(c) /\ call'[c] = Idle /\ \A d \in Calls \ {c} : call'[d] = call[d]
    BY <1>29 DEF RetryDelivered, RetryEnds, At, End, TypeOK
  <2> QED
    BY <1>29, <2>1, <2>2 DEF RetryDelivered, RetryEnds
<1>30. ASSUME NEW c \in Calls, RetryFailed(c) PROVE OnCourse'
  <2>1. /\ form'.step = form.step /\ form'.live = form.live
        /\ form'.draft = form.draft /\ form'.evidence = form.evidence
    BY <1>30 DEF RetryFailed, RetryEnds, TypeOK, Forms
  <2>2. Retrying(c) /\ call'[c] = Idle /\ \A d \in Calls \ {c} : call'[d] = call[d]
    BY <1>30 DEF RetryFailed, RetryEnds, At, End, TypeOK
  <2> QED
    BY <1>30, <2>1, <2>2 DEF RetryFailed, RetryEnds
<1>31. CASE UNCHANGED vars
  BY <1>31 DEF vars, world, screen
<1> QED
  BY <1>1, <1>2, <1>3, <1>4, <1>5, <1>6, <1>7, <1>8, <1>9, <1>10, <1>11, <1>12, <1>13, <1>14,
       <1>15, <1>16, <1>17, <1>18, <1>19, <1>20, <1>21, <1>22, <1>23, <1>24, <1>25, <1>26,
       <1>27, <1>28, <1>29, <1>30, <1>31 DEF Next, Navigate, Press, Answer

(* What the receipt says. *)
LEMMA TruthStep ==
  ASSUME TypeOK, TicketsKnown, SleepsInDemo, OneReceipt, DemoPretends,
         OnCourse, ReceiptIsTrue, StoredIsTrue, KnownSource,
         [Next]_vars
  PROVE  (ReceiptIsTrue /\ StoredIsTrue)'
<1> USE DEF TicketsKnown, OnCourse, DemoPretends, Submitting, Retrying, ReceiptIsTrue,
            StoredIsTrue, Idle, NoReport, FreshForm, NoReceipt
<1>1. CASE requestReportAccess \/ openHome \/ closeGate \/ DirectoryAnswered
  BY <1>1 DEF requestReportAccess, openHome, closeGate, DirectoryAnswered, Reload, world, history,
       TypeOK, CallStates, Forms
<1>2. CASE changeLanguage \/ differentEmail \/ updateDraft
  BY <1>2 DEF changeLanguage, differentEmail, updateDraft, Reload, world, history, On, TypeOK,
       CallStates, Forms
<1>3. CASE startAgain
  <2>1. form'.receipt = NoReceipt /\ stored' = NoReceipt
    BY <1>3 DEF startAgain
  <2> QED
    BY <2>1 DEF None
<1>4. CASE ReloadPage
  <2>1. form'.receipt = stored' /\ stored' \in {stored, NoReceipt}
    BY <1>4 DEF ReloadPage
  <2> QED
    BY <1>4, <2>1 DEF ReloadPage, None, world, history
<1>5. ASSUME NEW r \in Routes, changeMode(r) PROVE (ReceiptIsTrue /\ StoredIsTrue)'
  <2>1. form'.receipt = NoReceipt /\ stored' = NoReceipt
    BY <1>5 DEF changeMode
  <2> QED
    BY <2>1 DEF None
<1>6. ASSUME NEW r \in Routes, selectChannel(r) PROVE (ReceiptIsTrue /\ StoredIsTrue)'
  BY <1>6 DEF selectChannel, On, Reload, world, history, TypeOK, CallStates, Forms
<1>7. ASSUME NEW f \in Files, removeFile(f) PROVE (ReceiptIsTrue /\ StoredIsTrue)'
  BY <1>7 DEF removeFile, On, world, history, TypeOK, CallStates, Forms
<1>8. ASSUME NEW c \in Calls, connectFromWalletGate(c) PROVE (ReceiptIsTrue /\ StoredIsTrue)'
  BY <1>8 DEF connectFromWalletGate, Start, world, history, TypeOK, CallStates, Forms
<1>9. ASSUME NEW c \in Calls, qualify(c) PROVE (ReceiptIsTrue /\ StoredIsTrue)'
  <2>1. QualifyEffect(c)
    BY <1>9, QualifyStarts
  <2> QED
    BY <2>1 DEF QualifyEffect, TypeOK
<1>10. ASSUME NEW c \in Calls, verifyOtpAndIssueCredential(c) PROVE (ReceiptIsTrue /\ StoredIsTrue)'
  BY <1>10 DEF verifyOtpAndIssueCredential, On, Start, world, history, TypeOK, CallStates, Forms
<1>11. ASSUME NEW c \in Calls, NEW selected \in SUBSET Files, handleEvidenceFiles(c, selected)
       PROVE  (ReceiptIsTrue /\ StoredIsTrue)'
  BY <1>11 DEF handleEvidenceFiles, On, Start, world, history, TypeOK, CallStates, Forms
<1>12. ASSUME NEW c \in Calls, submitReport(c) PROVE (ReceiptIsTrue /\ StoredIsTrue)'
  BY <1>12 DEF submitReport, On, Start, CurrentReport, world, history, TypeOK, CallStates, Forms
<1>13. ASSUME NEW c \in Calls, retryDelivery(c) PROVE (ReceiptIsTrue /\ StoredIsTrue)'
  BY <1>13 DEF retryDelivery, CanRetry, Start, CurrentReport, world, history, On, TypeOK, CallStates,
       Forms
<1>14. ASSUME NEW c \in Calls, Connected(c) PROVE (ReceiptIsTrue /\ StoredIsTrue)'
  <2>1. CASE call[c].kind = "connect"
    <3>1. call'[c] = Idle /\ \A d \in Calls \ {c} : call'[d] = call[d]
      BY <1>14, <2>1, Ended DEF Connected
    <3> QED
      BY <1>14, <2>1, <3>1 DEF Connected, world, history
  <2>2. CASE call[c].kind # "connect"
    <3>1. PICK at \in {"session", "answer"} : Advance(c, at)
      BY <1>14, <2>2 DEF Connected
    <3> QED
      BY <1>14, <2>2, <3>1 DEF Connected, At, End, Reload, Advance, world, history, TypeOK,
           CallStates, Forms
  <2> QED
    BY <2>1, <2>2
<1>15. ASSUME NEW c \in Calls, NotConnected(c) PROVE (ReceiptIsTrue /\ StoredIsTrue)'
  BY <1>15 DEF NotConnected, At, End, world, history, TypeOK, CallStates, Forms
<1>16. ASSUME NEW c \in Calls, Enrolled(c) PROVE (ReceiptIsTrue /\ StoredIsTrue)'
  BY <1>16 DEF Enrolled, At, Advance, screen, world, history, TypeOK, CallStates, Forms
<1>17. ASSUME NEW c \in Calls, OtpRequested(c) PROVE (ReceiptIsTrue /\ StoredIsTrue)'
  <2>1. CASE End(c)
    BY <1>17, <2>1 DEF OtpRequested, At, End, Advance, world, history, TypeOK, CallStates, Forms
  <2>2. CASE Advance(c, "answer") /\ UNCHANGED <<form, busy>>
    BY <1>17, <2>2 DEF OtpRequested, At, End, Advance, world, history, TypeOK, CallStates, Forms
  <2> QED
    BY <1>17, <2>1, <2>2 DEF OtpRequested
<1>18. ASSUME NEW c \in Calls, Qualified(c) PROVE (ReceiptIsTrue /\ StoredIsTrue)'
  BY <1>18 DEF Qualified, At, End, world, history, TypeOK, CallStates, Forms
<1>19. ASSUME NEW c \in Calls, DemoQualified(c) PROVE (ReceiptIsTrue /\ StoredIsTrue)'
  BY <1>19 DEF DemoQualified, At, End, world, history, TypeOK, CallStates, Forms
<1>20. ASSUME NEW c \in Calls, NotQualified(c) PROVE (ReceiptIsTrue /\ StoredIsTrue)'
  BY <1>20 DEF NotQualified, End, world, history, TypeOK, CallStates, Forms
<1>21. ASSUME NEW c \in Calls, EvidenceRead(c) PROVE (ReceiptIsTrue /\ StoredIsTrue)'
  BY <1>21 DEF EvidenceRead, At, End, world, history, TypeOK, CallStates, Forms
<1>22. ASSUME NEW c \in Calls, EvidenceRefused(c) PROVE (ReceiptIsTrue /\ StoredIsTrue)'
  BY <1>22 DEF EvidenceRefused, At, End, world, history, TypeOK, CallStates, Forms
<1>23. ASSUME NEW c \in Calls, Prepared(c) PROVE (ReceiptIsTrue /\ StoredIsTrue)'
  BY <1>23 DEF Prepared, At, screen, history, TypeOK, CallStates, Forms
<1>24. ASSUME NEW c \in Calls, LedgerAccepts(c) PROVE (ReceiptIsTrue /\ StoredIsTrue)'
  BY <1>24 DEF LedgerAccepts, CanSend, At, Advance, screen, history, TypeOK, CallStates, Forms
<1>25. ASSUME NEW c \in Calls, Delivered(c) PROVE (ReceiptIsTrue /\ StoredIsTrue)'
  <2>1. ReceiptedEffect(c, TRUE)
    BY <1>25, Receipting DEF Delivered
  <2> QED
    BY <1>25, <2>1 DEF Delivered, At, Deliverable, ReceiptedEffect, ReceiptOf
<1>26. ASSUME NEW c \in Calls, NotDelivered(c) PROVE (ReceiptIsTrue /\ StoredIsTrue)'
  <2>1. ReceiptedEffect(c, FALSE)
    BY <1>26, Receipting DEF NotDelivered
  <2> QED
    BY <1>26, <2>1 DEF NotDelivered, At, Deliverable, ReceiptedEffect, ReceiptOf
<1>27. ASSUME NEW c \in Calls, DemoCompleted(c) PROVE (ReceiptIsTrue /\ StoredIsTrue)'
  <2>1. demo
    BY <1>27 DEF DemoCompleted, At, SleepsInDemo
  <2>2. ReceiptedEffect(c, FALSE)
    BY <1>27, Receipting DEF DemoCompleted
  <2>3. form'.receipt.source = "demo" /\ stored' \in {stored, form'.receipt}
    BY <2>1, <2>2 DEF ReceiptedEffect, ReceiptOf
  <2> QED
    BY <1>27, <2>2, <2>3 DEF DemoCompleted, ReceiptedEffect
<1>28. ASSUME NEW c \in Calls, NotSubmitted(c) PROVE (ReceiptIsTrue /\ StoredIsTrue)'
  BY <1>28 DEF NotSubmitted, Authorized, MayBeAccepted, CanSend, End, history, TypeOK, CallStates, Forms
<1>29. ASSUME NEW c \in Calls, RetryDelivered(c) PROVE (ReceiptIsTrue /\ StoredIsTrue)'
  <2>1. /\ mailed' = mailed \cup {call[c].ticket} /\ UNCHANGED <<accepted, strayed, demo>>
        /\ Retrying(c)
    BY <1>29 DEF RetryDelivered, RetryEnds, At
  <2>2. \/ form' = form
        \/ form.receipt # NoReceipt /\ form'.receipt = [form.receipt EXCEPT !.delivered = TRUE]
    BY <1>29 DEF RetryDelivered, RetryEnds, TypeOK, Forms
  <2>3. form.receipt \in Receipts
    BY FormFields
  <2>4. form.live # 0 => form.receipt.ticket = form.live
    BY DEF OneReceipt
  <2>5. form'.receipt.source = form.receipt.source /\ form'.receipt.ticket = form.receipt.ticket
    BY <2>2, <2>3 DEF Receipts
  <2>6. ReceiptIsTrue'
    BY <2>1, <2>2, <2>4, <2>5
  <2>7. UNCHANGED <<stored, form>> \/ stored' = form'.receipt
    BY <1>29 DEF RetryDelivered, RetryEnds
  <2>8. CASE stored' = stored
    BY <2>1, <2>6, <2>8
  <2> QED
    BY <2>6, <2>7, <2>8
<1>30. ASSUME NEW c \in Calls, RetryFailed(c) PROVE (ReceiptIsTrue /\ StoredIsTrue)'
  <2>1. /\ mailed \subseteq mailed' /\ UNCHANGED <<accepted, strayed>>
    BY <1>30 DEF RetryFailed, RetryEnds
  <2>2. \/ form' = form
        \/ form'.receipt = [form.receipt EXCEPT !.delivered = FALSE]
    BY <1>30 DEF RetryFailed, RetryEnds, TypeOK, Forms
  <2>3. form.receipt \in Receipts
    BY FormFields
  <2>4. ReceiptIsTrue'
    BY <2>1, <2>2, <2>3 DEF Receipts
  <2>5. stored' = stored \/ stored' = form'.receipt
    BY <1>30 DEF RetryFailed, RetryEnds
  <2>6. CASE stored' = stored
    BY <2>1, <2>4, <2>6
  <2> QED
    BY <2>4, <2>5, <2>6
<1>31. CASE UNCHANGED vars
  BY <1>31 DEF vars, world, screen
<1> QED
  BY <1>1, <1>2, <1>3, <1>4, <1>5, <1>6, <1>7, <1>8, <1>9, <1>10, <1>11, <1>12, <1>13, <1>14,
       <1>15, <1>16, <1>17, <1>18, <1>19, <1>20, <1>21, <1>22, <1>23, <1>24, <1>25, <1>26,
       <1>27, <1>28, <1>29, <1>30, <1>31 DEF Next, Navigate, Press, Answer

(* What a retry would post. *)
LEMMA RetryStep ==
  ASSUME TypeOK, TicketsKnown, DemoPretends, OnCourse, RetryMatches, [Next]_vars
  PROVE  RetryMatches'
<1> USE DEF TicketsKnown, OnCourse, DemoPretends, Submitting, Retrying, Choosing,
            Qualifying, RetryMatches, Idle, NoReport, FreshForm, NoReceipt, CurrentReport
<1>1. CASE requestReportAccess \/ openHome \/ closeGate \/ DirectoryAnswered
  BY <1>1 DEF requestReportAccess, openHome, closeGate, DirectoryAnswered, Reload, world, history,
       TypeOK, CallStates, Forms
<1>2. CASE changeLanguage \/ differentEmail \/ updateDraft
  BY <1>2 DEF changeLanguage, differentEmail, updateDraft, Reload, world, history, On, TypeOK,
       CallStates, Forms
<1>3. CASE startAgain
  BY <1>3 DEF startAgain, On, InFlight, world, history, TypeOK, CallStates, Forms
<1>4. CASE ReloadPage
  BY <1>4 DEF ReloadPage, world, history, TypeOK, CallStates, Forms
<1>5. ASSUME NEW r \in Routes, changeMode(r) PROVE RetryMatches'
  BY <1>5 DEF changeMode, InFlight, world, history, TypeOK, CallStates, Forms
<1>6. ASSUME NEW r \in Routes, selectChannel(r) PROVE RetryMatches'
  BY <1>6 DEF selectChannel, On, Reload, world, history, TypeOK, CallStates, Forms
<1>7. ASSUME NEW f \in Files, removeFile(f) PROVE RetryMatches'
  BY <1>7 DEF removeFile, On, world, history, TypeOK, CallStates, Forms
<1>8. ASSUME NEW c \in Calls, connectFromWalletGate(c) PROVE RetryMatches'
  BY <1>8 DEF connectFromWalletGate, Start, world, history, TypeOK, CallStates, Forms
<1>9. ASSUME NEW c \in Calls, qualify(c) PROVE RetryMatches'
  <2>1. QualifyEffect(c)
    BY <1>9, QualifyStarts
  <2> QED
    BY <2>1 DEF QualifyEffect, TypeOK
<1>10. ASSUME NEW c \in Calls, verifyOtpAndIssueCredential(c) PROVE RetryMatches'
  BY <1>10 DEF verifyOtpAndIssueCredential, On, Start, world, history, TypeOK, CallStates, Forms
<1>11. ASSUME NEW c \in Calls, NEW selected \in SUBSET Files, handleEvidenceFiles(c, selected)
       PROVE  RetryMatches'
  BY <1>11 DEF handleEvidenceFiles, On, Start, world, history, TypeOK, CallStates, Forms
<1>12. ASSUME NEW c \in Calls, submitReport(c) PROVE RetryMatches'
  BY <1>12 DEF submitReport, On, Start, world, history, TypeOK, CallStates, Forms
<1>13. ASSUME NEW c \in Calls, retryDelivery(c) PROVE RetryMatches'
  BY <1>13 DEF retryDelivery, CanRetry, Start, world, history, On, TypeOK, CallStates, Forms
<1>14. ASSUME NEW c \in Calls, Connected(c) PROVE RetryMatches'
  <2>1. CASE call[c].kind = "connect"
    <3>1. call'[c] = Idle /\ \A d \in Calls \ {c} : call'[d] = call[d]
      BY <1>14, <2>1, Ended DEF Connected
    <3> QED
      BY <1>14, <2>1, <3>1 DEF Connected, world, history
  <2>2. CASE call[c].kind # "connect"
    <3>1. PICK at \in {"session", "answer"} : Advance(c, at)
      BY <1>14, <2>2 DEF Connected
    <3> QED
      BY <1>14, <2>2, <3>1 DEF Connected, At, End, Reload, Advance, world, history, TypeOK,
           CallStates, Forms
  <2> QED
    BY <2>1, <2>2
<1>15. ASSUME NEW c \in Calls, NotConnected(c) PROVE RetryMatches'
  BY <1>15 DEF NotConnected, At, End, world, history, TypeOK, CallStates, Forms
<1>16. ASSUME NEW c \in Calls, Enrolled(c) PROVE RetryMatches'
  BY <1>16 DEF Enrolled, At, Advance, screen, world, history, TypeOK, CallStates, Forms
<1>17. ASSUME NEW c \in Calls, OtpRequested(c) PROVE RetryMatches'
  <2>1. CASE End(c)
    BY <1>17, <2>1 DEF OtpRequested, At, End, Advance, world, history, TypeOK, CallStates, Forms
  <2>2. CASE Advance(c, "answer") /\ UNCHANGED <<form, busy>>
    BY <1>17, <2>2 DEF OtpRequested, At, End, Advance, world, history, TypeOK, CallStates, Forms
  <2> QED
    BY <1>17, <2>1, <2>2 DEF OtpRequested
<1>18. ASSUME NEW c \in Calls, Qualified(c) PROVE RetryMatches'
  BY <1>18 DEF Qualified, At, End, world, history, TypeOK, CallStates, Forms
<1>19. ASSUME NEW c \in Calls, DemoQualified(c) PROVE RetryMatches'
  BY <1>19 DEF DemoQualified, At, End, world, history, TypeOK, CallStates, Forms
<1>20. ASSUME NEW c \in Calls, NotQualified(c) PROVE RetryMatches'
  BY <1>20 DEF NotQualified, End, world, history, TypeOK, CallStates, Forms
<1>21. ASSUME NEW c \in Calls, EvidenceRead(c) PROVE RetryMatches'
  BY <1>21 DEF EvidenceRead, At, End, world, history, TypeOK, CallStates, Forms
<1>22. ASSUME NEW c \in Calls, EvidenceRefused(c) PROVE RetryMatches'
  BY <1>22 DEF EvidenceRefused, At, End, world, history, TypeOK, CallStates, Forms
<1>23. ASSUME NEW c \in Calls, Prepared(c) PROVE RetryMatches'
  BY <1>23 DEF Prepared, At, screen, history, TypeOK, CallStates, Forms
<1>24. ASSUME NEW c \in Calls, LedgerAccepts(c) PROVE RetryMatches'
  BY <1>24 DEF LedgerAccepts, CanSend, At, Advance, screen, history, TypeOK, CallStates, Forms
<1>25. ASSUME NEW c \in Calls, Delivered(c) PROVE RetryMatches'
  <2>1. ReceiptedEffect(c, TRUE)
    BY <1>25, Receipting DEF Delivered
  <2> QED
    BY <1>25, <2>1 DEF Delivered, At, Deliverable, ReceiptedEffect, ReceiptOf
<1>26. ASSUME NEW c \in Calls, NotDelivered(c) PROVE RetryMatches'
  <2>1. ReceiptedEffect(c, FALSE)
    BY <1>26, Receipting DEF NotDelivered
  <2> QED
    BY <1>26, <2>1 DEF NotDelivered, At, Deliverable, ReceiptedEffect, ReceiptOf
<1>27. ASSUME NEW c \in Calls, DemoCompleted(c) PROVE RetryMatches'
  <2>1. ReceiptedEffect(c, FALSE)
    BY <1>27, Receipting DEF DemoCompleted
  <2> QED
    BY <1>27, <2>1 DEF DemoCompleted, At, Deliverable, ReceiptedEffect, ReceiptOf
<1>28. ASSUME NEW c \in Calls, NotSubmitted(c) PROVE RetryMatches'
  BY <1>28 DEF NotSubmitted, Authorized, MayBeAccepted, CanSend, End, history, TypeOK, CallStates, Forms
<1>29. ASSUME NEW c \in Calls, RetryDelivered(c) PROVE RetryMatches'
  BY <1>29 DEF RetryDelivered, Deliverable, RetryEnds, At, End, TypeOK, CallStates, Forms
<1>30. ASSUME NEW c \in Calls, RetryFailed(c) PROVE RetryMatches'
  BY <1>30 DEF RetryFailed, At, Deliverable, RetryEnds, End, TypeOK, CallStates, Forms
<1>31. CASE UNCHANGED vars
  BY <1>31 DEF vars, world, screen
<1> QED
  BY <1>1, <1>2, <1>3, <1>4, <1>5, <1>6, <1>7, <1>8, <1>9, <1>10, <1>11, <1>12, <1>13, <1>14,
       <1>15, <1>16, <1>17, <1>18, <1>19, <1>20, <1>21, <1>22, <1>23, <1>24, <1>25, <1>26,
       <1>27, <1>28, <1>29, <1>30, <1>31 DEF Next, Navigate, Press, Answer

-----------------------------------------------------------------------------

IInv ==
  /\ TypeOK
  /\ TicketsKnown
  /\ AtMostOne /\ BusyMeansRunning
  /\ KnownSource /\ OneReceipt
  /\ SleepsInDemo /\ DestinationIsQualified
  /\ NoLeakedAuthorization
  /\ DemoPretends /\ OnCourse
  /\ ReceiptIsTrue /\ StoredIsTrue
  /\ RetryMatches

(* Initially the invariant holds. *)
LEMMA InitIInv == Init => IInv
<1> SUFFICES ASSUME Init PROVE IInv
  OBVIOUS
<1>1. TypeOK
  <2>1. form \in Forms
    BY Defaults DEF Init, Routes
  <2>2. Idle \in CallStates
    BY PageAssumption DEF Idle, CallStates, Kinds, Stages, NoReport, Reports, Drafts
  <2>3. 0 \in 0 .. MaxTickets
    BY PageAssumption
  <2>4. call \in [Calls -> CallStates]
    BY <2>2 DEF Init
  <2>5. prepared \in Seq(Reports) /\ Len(prepared) <= MaxTickets
    BY PageAssumption DEF Init
  <2>6. stored \in Receipts /\ authorization \in 0 .. MaxTickets
    BY <2>3, Defaults DEF Init
  <2>7. /\ demo \in BOOLEAN /\ strayed \in BOOLEAN /\ unsaved \in BOOLEAN
        /\ page \in {"home", "gate", "report"}
        /\ connection \in {"off", "connecting", "connected"}
    BY DEF Init
  <2>8. /\ busy \in SUBSET {"qualifying", "preparing", "retrying"}
        /\ accepted \in SUBSET Tickets /\ mailed \in SUBSET Tickets
    BY DEF Init
  <2>9. directory \in SUBSET {"listed", "loading"}
    BY DEF Init
  <2> QED
    BY <2>1, <2>4, <2>5, <2>6, <2>7, <2>8, <2>9 DEF TypeOK
<1>2. \A c \in Calls : call[c] = Idle /\ Idle.kind = "idle"
  BY DEF Init, Idle
<1>3. /\ form.receipt = NoReceipt /\ stored = NoReceipt /\ form.live = 0 /\ ~ form.otp
      /\ form.step = "qualify" /\ form.destination = form.qualification /\ busy = {} /\ authorization = 0
  BY DEF Init, FreshForm
<1>4. TicketsKnown /\ AtMostOne /\ BusyMeansRunning /\ SleepsInDemo
  BY <1>2, <1>3 DEF TicketsKnown, AtMostOne, BusyMeansRunning, SleepsInDemo, Submitting,
       Retrying, Qualifying, Choosing
<1>5. KnownSource /\ OneReceipt /\ DestinationIsQualified /\ NoLeakedAuthorization
  BY <1>3 DEF KnownSource, OneReceipt, DestinationIsQualified, NoLeakedAuthorization
<1>6. DemoPretends /\ OnCourse /\ ReceiptIsTrue /\ StoredIsTrue /\ RetryMatches
  BY <1>2, <1>3 DEF DemoPretends, OnCourse, ReceiptIsTrue, StoredIsTrue, RetryMatches,
       Submitting, Retrying, Qualifying, Choosing, NoReceipt, None
<1> QED
  BY <1>1, <1>4, <1>5, <1>6 DEF IInv

(* Every step, and every stutter, keeps the invariant. *)
LEMMA StepIInv == IInv /\ [Next]_vars => IInv'
<1> SUFFICES ASSUME IInv, [Next]_vars PROVE IInv'
  OBVIOUS
<1>1. TypeOK' /\ TicketsKnown'
  BY TypeStep, TicketsStep DEF IInv
<1>2. (AtMostOne /\ BusyMeansRunning)'
  BY FlagsStep DEF IInv
<1>3. (KnownSource /\ OneReceipt)'
  BY ReceiptStep DEF IInv
<1>4. (SleepsInDemo /\ DestinationIsQualified)'
  BY DestinationStep DEF IInv
<1>5. NoLeakedAuthorization' /\ DemoPretends'
  BY AuthorizationStep, DemoStep DEF IInv
<1>6. OnCourse'
  BY CourseStep DEF IInv
<1>7. (ReceiptIsTrue /\ StoredIsTrue)' /\ RetryMatches'
  BY TruthStep, RetryStep DEF IInv
<1> QED
  BY <1>1, <1>2, <1>3, <1>4, <1>5, <1>6, <1>7 DEF IInv

(* So the invariant holds always. *)
LEMMA SafeIInv == Spec => []IInv
  BY InitIInv, StepIInv, PTL DEF Spec

(* The state of the page keeps its shape: in particular a ticket that is recorded
   as accepted was prepared before. *)
THEOREM PageTypeCorrect == Spec => []TypeOK
<1>1. IInv => TypeOK
  BY DEF IInv
<1> QED
  BY <1>1, SafeIInv, PTL

(* No error path of App.tsx leaves a disabled button or the spinner behind, and
   no answer takes down the flag of another handler. *)
THEOREM FlagsMeanRunning == Spec => []BusyMeansRunning
<1>1. IInv => BusyMeansRunning
  BY DEF IInv
<1> QED
  BY <1>1, SafeIInv, PTL

(* Screen, localStorage and the retry button are about one receipt
   (completeReceipt, startAgain, changeMode, the finally of retryDelivery). *)
THEOREM ReceiptsAgree == Spec => []OneReceipt
<1>1. IInv => OneReceipt
  BY DEF IInv
<1> QED
  BY <1>1, SafeIInv, PTL

(* The destination the page locks is the one the issuer qualified, however late
   the answer and whatever the mode by then. *)
THEOREM LockedDestinationIsQualified == Spec => []DestinationIsQualified
<1>1. IInv => DestinationIsQualified
  BY DEF IInv
<1> QED
  BY <1>1, SafeIInv, PTL

(* activeSponsorAuthorization outlives no submission (midnight.ts, the finally of
   submitLive): overlapping submissions may clear each other's, but leave none. *)
THEOREM AuthorizationIsNotLeaked == Spec => []NoLeakedAuthorization
<1>1. IInv => NoLeakedAuthorization
  BY DEF IInv
<1> QED
  BY <1>1, SafeIInv, PTL

(* A live receipt stands for an accepted ticket; 'delivered' is true unless the
   form was left under a running submission or retry. *)
THEOREM ReceiptsAreTrue == Spec => []ReceiptIsTrue
<1>1. IInv => ReceiptIsTrue
  BY DEF IInv
<1> QED
  BY <1>1, SafeIInv, PTL

(* The report a retry posts is the one its ticket was made for, under the same
   condition: the issuer will not refuse it for its contents. *)
THEOREM RetriesCanSucceed == Spec => []RetryCanSucceed
<1>1. IInv => RetryCanSucceed
  BY DEF IInv, RetryMatches, RetryCanSucceed, CanRetry, On
<1> QED
  BY <1>1, SafeIInv, PTL

=============================================================================
