-------------------------- MODULE DemoMidnight_proofs --------------------------
(***************************************************************************)
(* Safety of the demo adapter for every number of callers, domains,        *)
(* secrets, reports and salts: what is recorded was eligible, whatever     *)
(* other calls did between its checks and its recording.                   *)
(***************************************************************************)
EXTENDS DemoMidnight, TLAPS

------------------------------------------------------------------------------
(* The inductive invariant. *)

(* What stays true of a submission once it was found eligible: credentials
   and approvals are only ever added.  (A revocation may follow.) *)
WasEligible(sub) ==
  \/ /\ sub.mode = "internal"
     /\ credentialCommitment(sub.domain, sub.secret) \in credentials
     /\ isOfficialDestination(sub.to, sub.domain)
  \/ /\ sub.mode = "whitehat"
     /\ destinationCommitment(sub.to) \in approvedDestinations

TicketOf(sub) ==
  ticketCommitment(sub.mode, TicketDestination(sub.mode, sub.domain, sub.to),
                   reportCommitment(sub.body, sub.salt), Marker(sub))

(* A call that has got past the first check was eligible then. *)
EligibleInCall ==
  \A c \in Caller : At(c, "nullifier") \/ At(c, "record") => WasEligible(call[c].sub)

(* What was settled when a call began still is when the call gets to the
   check that finds it out, and does not get past it. *)
SettledInCall ==
  \A c \in Caller :
    /\ At(c, "eligibility") /\ call[c].settled => Settled(call[c].sub)
    /\ At(c, "nullifier") /\ call[c].settled => Marker(call[c].sub) \in nullifiers

(* Every ticket is that of an eligible submission. *)
TicketsEntitled ==
  \A t \in tickets : \E sub \in Submission : t = TicketOf(sub) /\ WasEligible(sub)

IInv ==
  /\ TypeOK
  /\ EligibleInCall
  /\ SettledInCall
  /\ TicketsEntitled
  /\ SpentForATicket
  /\ RefusesWhatWasSettled

------------------------------------------------------------------------------
(* Commitments. *)

(* A well-typed submission makes a well-typed nullifier and ticket. *)
LEMMA TicketTyped ==
  ASSUME NEW sub \in Submission
  PROVE  /\ Marker(sub) \in Nullifier
         /\ TicketOf(sub) \in Ticket
         /\ TicketOf(sub)[5] = Marker(sub)
<1>1. /\ sub.mode \in Mode /\ sub.domain \in Domain /\ sub.to \in Mailbox
      /\ sub.secret \in Secret \cup {Zero} /\ sub.body \in Body /\ sub.salt \in Salt
  BY DEF Submission
<1>2. Marker(sub) \in Nullifier
  BY <1>1 DEF Marker, Nullifier
<1>3. reportCommitment(sub.body, sub.salt) \in ReportHash
  BY <1>1 DEF ReportHash
<1>4. TicketOf(sub) \in Ticket
  BY <1>1, <1>2, <1>3 DEF TicketOf, Ticket
<1> QED
  BY <1>2, <1>4 DEF TicketOf, ticketCommitment

(* The commitments to a report and to a destination bind what they commit to. *)
LEMMA ReportBinds ==
  ASSUME NEW b1, NEW s1, NEW b2, NEW s2, reportCommitment(b1, s1) = reportCommitment(b2, s2)
  PROVE  b1 = b2 /\ s1 = s2
BY DEF reportCommitment

(* The commitment to a destination binds the mailbox and, for internal
   reports, the domain: no two destinations share one. *)
LEMMA DestinationBinds ==
  ASSUME NEW mode, NEW d1, NEW to1, NEW d2, NEW to2,
         TicketDestination(mode, d1, to1) = TicketDestination(mode, d2, to2)
  PROVE  to1 = to2 /\ (mode = "internal" => d1 = d2)
BY DEF TicketDestination, internalDestinationCommitment, domainCommitment,
       destinationCommitment

------------------------------------------------------------------------------
(* The steps. *)

(* Initially the invariant holds. *)
LEMMA InitIInv == Init => IInv
BY DEF Init, IInv, TypeOK, EligibleInCall, SettledInCall, TicketsEntitled, SpentForATicket,
       RefusesWhatWasSettled, At, Free

(* Every step keeps the sets of commitments and the calls well-typed. *)
LEMMA TypeStep == TypeOK /\ [Next]_vars => TypeOK'
<1> SUFFICES ASSUME TypeOK, [Next]_vars PROVE TypeOK'
  OBVIOUS
<1> USE DEF TypeOK, registry
<1>1. ASSUME NEW c \in Caller, NEW cr \in Credential, issueCredential(c, cr) PROVE TypeOK'
  BY <1>1 DEF issueCredential
<1>2. ASSUME NEW c \in Caller, NEW cr \in Credential, revokeCredential(c, cr) PROVE TypeOK'
  BY <1>2 DEF revokeCredential
<1>3. ASSUME NEW c \in Caller, NEW to \in Mailbox, approveSecurityDestination(c, to)
      PROVE TypeOK'
  BY <1>3 DEF approveSecurityDestination
<1>4. ASSUME NEW c \in Caller, NEW sub \in Submission, Submit(c, sub) PROVE TypeOK'
  <2>1. Settled(sub) \in BOOLEAN
    BY DEF Settled
  <2> QED
    BY <1>4, <2>1 DEF Submit, Call
<1>5. ASSUME NEW c \in Caller, CheckEligibility(c) PROVE TypeOK'
  BY <1>5 DEF CheckEligibility, Goto, Return, At, Free, Call
<1>6. ASSUME NEW c \in Caller, CheckNullifier(c) PROVE TypeOK'
  BY <1>6 DEF CheckNullifier, Goto, Return, At, Free, Call
<1>7. ASSUME NEW c \in Caller, Record(c) PROVE TypeOK'
  <2>1. call[c].sub \in Submission
    BY <1>7 DEF Record, At, Free, Call
  <2>2. Marker(call[c].sub) \in Nullifier /\ TicketOf(call[c].sub) \in Ticket
    BY <2>1, TicketTyped
  <2> QED
    BY <1>7, <2>2 DEF Record, Return, TicketOf
<1>8. CASE UNCHANGED vars
  BY <1>8 DEF vars
<1> QED
  BY <1>1, <1>2, <1>3, <1>4, <1>5, <1>6, <1>7, <1>8 DEF Next

(* How a call changes: it goes on, is answered, or begins. *)
LEMMA CallStep ==
  ASSUME TypeOK, NEW c \in Caller, ~ Free(c),
         NEW pc \in {"nullifier", "record"}, Goto(c, pc) \/ Return(c)
  PROVE  /\ \A d \in Caller \ {c} : call'[d] = call[d]
         /\ \/ call'[c] = Nothing
            \/ /\ call'[c].pc = pc
               /\ call'[c].sub = call[c].sub
               /\ call'[c].settled = call[c].settled
BY DEF TypeOK, Free, Goto, Return, Call

(* Registrations only grow while calls run, and so does what is settled. *)
LEMMA Monotone ==
  ASSUME TypeOK, [Next]_vars, NEW sub
  PROVE  /\ WasEligible(sub) => WasEligible(sub)'
         /\ nullifiers \subseteq nullifiers'
         /\ Settled(sub) => Settled(sub)'
<1>1. /\ credentials \subseteq credentials'
      /\ revokedCredentials \subseteq revokedCredentials'
      /\ approvedDestinations \subseteq approvedDestinations'
      /\ nullifiers \subseteq nullifiers'
  BY DEF Next, issueCredential, revokeCredential, approveSecurityDestination, Submit,
         CheckEligibility, CheckNullifier, Record, registry, vars
<1> QED
  BY <1>1 DEF WasEligible, Settled, Marker

(* Whoever is past the eligibility check (demo-midnight.ts:48) was eligible
   once, and stays so recorded. *)
LEMMA EligibleStep == IInv /\ [Next]_vars => EligibleInCall'
<1> SUFFICES ASSUME IInv, [Next]_vars,
                    NEW d \in Caller, (At(d, "nullifier") \/ At(d, "record"))'
             PROVE  WasEligible(call[d].sub)'
  BY DEF EligibleInCall
<1>0. TypeOK /\ EligibleInCall
  BY DEF IInv
<1>1. CASE call'[d] = call[d]
  BY <1>0, <1>1, Monotone DEF EligibleInCall, At, Free
<1>2. ASSUME NEW c \in Caller, NEW sub \in Submission, Submit(c, sub), call'[d] # call[d]
      PROVE  FALSE
  BY <1>0, <1>2 DEF Submit, At, Free, TypeOK
<1>3. ASSUME NEW c \in Caller, CheckEligibility(c), call'[d] # call[d]
      PROVE  WasEligible(call[d].sub)'
  <2>1. d = c /\ call'[c] # Nothing /\ call'[c].sub = call[c].sub /\ Goto(c, "nullifier")
    BY <1>0, <1>3, CallStep DEF CheckEligibility, At, Free, Return, TypeOK
  <2>2. Eligible(call[c].sub) \/ call'[c] = Nothing
    BY <1>0, <1>3 DEF CheckEligibility, Return, TypeOK
  <2>3. WasEligible(call[c].sub)
    BY <2>1, <2>2 DEF Eligible, WasEligible
  <2> QED
    BY <1>0, <2>1, <2>3, Monotone
<1>4. ASSUME NEW c \in Caller, CheckNullifier(c), call'[d] # call[d]
      PROVE  WasEligible(call[d].sub)'
  <2>1. d = c /\ At(c, "nullifier") /\ call'[c].sub = call[c].sub
    BY <1>0, <1>4, CallStep DEF CheckNullifier, At, Free
  <2> QED
    BY <1>0, <2>1, Monotone DEF EligibleInCall
<1>5. ASSUME NEW c \in Caller, Record(c), call'[d] # call[d]
      PROVE  FALSE
  BY <1>0, <1>5 DEF Record, Return, At, Free, TypeOK
<1>6. ASSUME UNCHANGED call PROVE call'[d] = call[d]
  BY <1>6
<1> QED
  BY <1>1, <1>2, <1>3, <1>4, <1>5, <1>6
     DEF Next, issueCredential, revokeCredential, approveSecurityDestination, vars

(* What a settled submission meets. *)
LEMMA SettledStep == IInv /\ [Next]_vars => SettledInCall' /\ RefusesWhatWasSettled'
<1> SUFFICES ASSUME IInv, [Next]_vars, NEW d \in Caller
             PROVE  /\ (At(d, "eligibility") /\ call[d].settled => Settled(call[d].sub))'
                    /\ (At(d, "nullifier") /\ call[d].settled
                          => Marker(call[d].sub) \in nullifiers)'
                    /\ (At(d, "record") => ~ call[d].settled)'
  BY DEF SettledInCall, RefusesWhatWasSettled
<1>0. TypeOK /\ SettledInCall /\ RefusesWhatWasSettled
  BY DEF IInv
<1>1. CASE call'[d] = call[d]
  <2>1. (At(d, "eligibility") /\ call[d].settled => Settled(call[d].sub))'
    BY <1>0, <1>1, Monotone DEF SettledInCall, At, Free
  <2>2. (At(d, "nullifier") /\ call[d].settled => Marker(call[d].sub) \in nullifiers)'
    BY <1>0, <1>1, Monotone DEF SettledInCall, At, Free, Marker
  <2>3. (At(d, "record") => ~ call[d].settled)'
    BY <1>0, <1>1 DEF RefusesWhatWasSettled, At, Free
  <2> QED
    BY <2>1, <2>2, <2>3
<1>2. ASSUME NEW c \in Caller, NEW sub \in Submission, Submit(c, sub), call'[d] # call[d]
      PROVE  At(d, "eligibility")' /\ (call[d].settled => Settled(call[d].sub))'
  <2>1. /\ call'[d] = [pc |-> "eligibility", sub |-> sub, settled |-> Settled(sub)]
        /\ UNCHANGED <<revokedCredentials, nullifiers>>
    BY <1>0, <1>2 DEF Submit, TypeOK, registry
  <2>2. call'[d] # Nothing
    BY <1>2, <2>1 DEF Submit, Free
  <2> QED
    BY <2>1, <2>2 DEF At, Free, Settled, Marker
<1>3. ASSUME NEW c \in Caller, CheckEligibility(c), call'[d] # call[d], call'[d] # Nothing
      PROVE  /\ At(d, "nullifier")'
             /\ call'[d].settled => Marker(call'[d].sub) \in nullifiers'
  <2>1. /\ d = c /\ At(c, "eligibility") /\ Eligible(call[c].sub)
        /\ call'[c].pc = "nullifier" /\ call'[c].sub = call[c].sub
        /\ call'[c].settled = call[c].settled
    BY <1>0, <1>3, CallStep DEF CheckEligibility, At, Return, TypeOK
  <2>2. call[c].settled => Marker(call[c].sub) \in nullifiers
    BY <1>0, <2>1 DEF SettledInCall, Settled, Eligible
  <2> QED
    BY <1>3, <2>1, <2>2 DEF At, Free, CheckEligibility
<1>4. ASSUME NEW c \in Caller, CheckNullifier(c), call'[d] # call[d], call'[d] # Nothing
      PROVE  At(d, "record")' /\ ~ call'[d].settled
  <2>1. /\ d = c /\ At(c, "nullifier") /\ Marker(call[c].sub) \notin nullifiers
        /\ call'[c].pc = "record" /\ call'[c].settled = call[c].settled
    BY <1>0, <1>4, CallStep DEF CheckNullifier, At, Return, TypeOK
  <2> QED
    BY <1>0, <1>4, <2>1 DEF SettledInCall, At, Free
<1>5. ASSUME NEW c \in Caller, Record(c), call'[d] # call[d]
      PROVE  call'[d] = Nothing
  BY <1>0, <1>5 DEF Record, Return, TypeOK
<1>6. CASE call'[d] = Nothing
  BY <1>6 DEF At, Free
<1>7. ASSUME UNCHANGED call PROVE call'[d] = call[d]
  BY <1>7
<1>8. CASE At(d, "eligibility")' /\ (call[d].settled => Settled(call[d].sub))'
  BY <1>8 DEF At
<1>9. CASE At(d, "nullifier")' /\ (call'[d].settled => Marker(call'[d].sub) \in nullifiers')
  BY <1>9 DEF At, Marker
<1>10. CASE At(d, "record")' /\ ~ call'[d].settled
  BY <1>10 DEF At
<1> QED
  BY <1>1, <1>2, <1>3, <1>4, <1>5, <1>6, <1>7, <1>8, <1>9, <1>10
     DEF Next, issueCredential, revokeCredential, approveSecurityDestination, vars

(* Only Record adds to the nullifiers and the tickets, and to both. *)
LEMMA RecordStep == IInv /\ [Next]_vars => TicketsEntitled' /\ SpentForATicket'
<1> SUFFICES ASSUME IInv, [Next]_vars PROVE TicketsEntitled' /\ SpentForATicket'
  OBVIOUS
<1>0. TypeOK /\ EligibleInCall /\ TicketsEntitled /\ SpentForATicket
  BY DEF IInv
<1>1. CASE UNCHANGED <<nullifiers, tickets>>
  <2>1. SpentForATicket'
    BY <1>0, <1>1 DEF SpentForATicket
  <2>2. \A sub : TicketOf(sub)' = TicketOf(sub)
    BY DEF TicketOf, Marker
  <2>3. TicketsEntitled'
    BY <1>0, <1>1, <2>2, Monotone DEF TicketsEntitled
  <2> QED
    BY <2>1, <2>3
<1>2. ASSUME NEW c \in Caller, Record(c)
      PROVE  TicketsEntitled' /\ SpentForATicket'
  <2> DEFINE sub == call[c].sub
  <2>1. sub \in Submission /\ WasEligible(sub)
    BY <1>0, <1>2 DEF Record, At, Free, TypeOK, Call, EligibleInCall
  <2>2. /\ nullifiers' = nullifiers \cup {Marker(sub)}
        /\ tickets' = tickets \cup {TicketOf(sub)}
        /\ UNCHANGED registry
    BY <1>2 DEF Record, TicketOf
  <2>3. TicketOf(sub)[5] = Marker(sub)
    BY <2>1, TicketTyped
  <2> HIDE DEF sub
  <2>4. SpentForATicket'
    BY <1>0, <2>2, <2>3 DEF SpentForATicket
  <2>5. \A s : WasEligible(s) => WasEligible(s)'
    BY <2>2 DEF WasEligible, registry
  <2>6. \A s : TicketOf(s)' = TicketOf(s)
    BY DEF TicketOf, Marker
  <2>7. \A t \in tickets' :
          \E s \in Submission : t = TicketOf(s) /\ WasEligible(s)
    BY <1>0, <2>1, <2>2 DEF TicketsEntitled
  <2>8. TicketsEntitled'
    BY <2>5, <2>6, <2>7 DEF TicketsEntitled
  <2> QED
    BY <2>4, <2>8
<1> QED
  BY <1>1, <1>2
     DEF Next, issueCredential, revokeCredential, approveSecurityDestination, Submit,
         CheckEligibility, CheckNullifier, vars

(* Every step, and every stutter, keeps the invariant. *)
LEMMA StepIInv == IInv /\ [Next]_vars => IInv'
BY TypeStep, EligibleStep, SettledStep, RecordStep DEF IInv

(* So the invariant holds always. *)
LEMMA Invariance == Spec => []IInv
BY InitIInv, StepIInv, PTL DEF Spec

------------------------------------------------------------------------------
(* The theorems. *)

(* The adapter's sets hold commitments of the kinds they are named for. *)
THEOREM TypeCorrect == Spec => []TypeOK
<1>1. IInv => TypeOK
  BY DEF IInv
<1> QED
  BY <1>1, Invariance, PTL

(* Although a submission awaits between its check and its recording, no
   nullifier is burnt without a ticket and no ticket has an unspent one. *)
THEOREM NullifiersBuyTickets == Spec => []SpentForATicket
<1>1. IInv => SpentForATicket
  BY DEF IInv
<1> QED
  BY <1>1, Invariance, PTL

(* A replay, or a submission with a revoked credential, that is called after
   the fact never gets to be recorded, whatever overlaps with it. *)
THEOREM SettledIsRefused == Spec => []RefusesWhatWasSettled
<1>1. IInv => RefusesWhatWasSettled
  BY DEF IInv
<1> QED
  BY <1>1, Invariance, PTL

(* A mail that verify() accepts matches a ticket, and that ticket was made for
   an entitled submission. *)
LEMMA EntitledMail == IInv => VerifiedMailIsEntitled
<1> SUFFICES ASSUME IInv, NEW m \in MessageWith(tickets), verify(m)
             PROVE  \/ /\ m.mode = "internal"
                       /\ \E s \in Secret :
                            /\ credentialCommitment(DomainOfMailbox(m.to), s) \in credentials
                            /\ m.nullifier
                                 = nullifierOf(s, reportCommitment(m.body, m.salt), m.salt)
                    \/ /\ m.mode = "whitehat"
                       /\ destinationCommitment(m.to) \in approvedDestinations
  BY DEF VerifiedMailIsEntitled
<1>1. PICK sub \in Submission : m.ticket = TicketOf(sub) /\ WasEligible(sub)
  BY DEF verify, IInv, TicketsEntitled
<1>2. /\ m.mode = sub.mode
      /\ TicketDestination(m.mode, DomainOfMailbox(m.to), m.to)
           = TicketDestination(sub.mode, sub.domain, sub.to)
      /\ m.report = reportCommitment(sub.body, sub.salt)
      /\ m.nullifier = Marker(sub)
  <2>1. m.ticket = ticketCommitment(m.mode,
                     TicketDestination(m.mode, DomainOfMailbox(m.to), m.to), m.report, m.nullifier)
    BY DEF verify
  <2>2. m.ticket = ticketCommitment(sub.mode,
                     TicketDestination(sub.mode, sub.domain, sub.to),
                     reportCommitment(sub.body, sub.salt), Marker(sub))
    BY <1>1 DEF TicketOf
  <2> DEFINE d1 == TicketDestination(m.mode, DomainOfMailbox(m.to), m.to)
             d2 == TicketDestination(sub.mode, sub.domain, sub.to)
             r2 == reportCommitment(sub.body, sub.salt)
             n2 == Marker(sub)
  <2> HIDE DEF d1, d2, r2, n2
  <2>3. ticketCommitment(m.mode, d1, m.report, m.nullifier)
          = ticketCommitment(sub.mode, d2, r2, n2)
    BY <2>1, <2>2 DEF d1, d2, r2, n2
  <2>4. m.mode = sub.mode /\ d1 = d2 /\ m.report = r2 /\ m.nullifier = n2
    BY <2>3 DEF ticketCommitment
  <2> QED
    BY <2>4 DEF d1, d2, r2, n2
<1>3. m.to = sub.to /\ (m.mode = "internal" => DomainOfMailbox(m.to) = sub.domain)
  BY <1>2, DestinationBinds
<1>4. m.body = sub.body /\ m.salt = sub.salt
  <2>1. reportCommitment(m.body, m.salt) = reportCommitment(sub.body, sub.salt)
    BY <1>2 DEF verify
  <2> QED
    BY <2>1, ReportBinds
<1>5. CASE sub.mode = "internal"
  <2>1. sub.secret \in Secret
    BY <1>5 DEF Submission
  <2>2. credentialCommitment(DomainOfMailbox(m.to), sub.secret) \in credentials
    BY <1>1, <1>2, <1>3, <1>5 DEF WasEligible
  <2>3. m.nullifier = nullifierOf(sub.secret, reportCommitment(m.body, m.salt), m.salt)
    BY <1>2, <1>4 DEF Marker
  <2> QED
    BY <1>2, <1>5, <2>1, <2>2, <2>3
<1>6. CASE sub.mode = "whitehat"
  BY <1>1, <1>2, <1>3, <1>6 DEF WasEligible
<1>7. sub.mode \in {"internal", "whitehat"}
  BY DEF Submission, Mode
<1> QED
  BY <1>5, <1>6, <1>7

(* A message that verifies against the tickets was authorised: by a credential
   of the recipient's own domain and a commitment to this very body, or by the
   oracle's approval of the mailbox. *)
THEOREM VerifiedMailEntitled == Spec => []VerifiedMailIsEntitled
BY EntitledMail, Invariance, PTL

------------------------------------------------------------------------------
(* The adapter against the promise of the contract. *)

(* Submissions of one proof do not overlap; submissions of others may. *)
ProofsFollow ==
  \A c, d \in Caller :
    ~ Free(c) /\ ~ Free(d) /\ Marker(call[c].sub) = Marker(call[d].sub) => c = d

(* Then what a call saw when it looked the nullifier up is still so when it
   records it. *)
UnspentInCall ==
  \A c \in Caller : At(c, "record") => Marker(call[c].sub) \notin nullifiers

(* While submissions of one proof follow each other, no other call spends a
   nullifier between its lookup and its recording. *)
LEMMA UnspentStep ==
  ASSUME TypeOK, ProofsFollow, UnspentInCall, [Next]_vars
  PROVE  UnspentInCall'
<1> SUFFICES ASSUME NEW d \in Caller, At(d, "record")'
             PROVE  Marker(call'[d].sub) \notin nullifiers'
  BY DEF UnspentInCall, Marker
<1>1. CASE call'[d] = call[d] /\ nullifiers' = nullifiers
  BY <1>1 DEF UnspentInCall, At, Free
<1>2. ASSUME NEW c \in Caller, NEW sub \in Submission, Submit(c, sub)
      PROVE  call'[d] = call[d] /\ nullifiers' = nullifiers
  BY <1>2 DEF Submit, At, Free, TypeOK
<1>3. ASSUME NEW c \in Caller, CheckEligibility(c)
      PROVE  call'[d] = call[d] /\ nullifiers' = nullifiers
  <2>1. nullifiers' = nullifiers /\ ~ Free(c)
    BY <1>3 DEF CheckEligibility, At
  <2>2. call'[c] = Nothing \/ call'[c].pc = "nullifier"
    BY <1>3, <2>1, CallStep DEF CheckEligibility
  <2>3. d # c
    BY <2>2 DEF At, Free
  <2> QED
    BY <1>3, <2>1, <2>3, CallStep DEF CheckEligibility
<1>4. ASSUME NEW c \in Caller, CheckNullifier(c), d = c
      PROVE  Marker(call'[d].sub) \notin nullifiers'
  <2>1. At(c, "nullifier") /\ ~ Free(c) /\ nullifiers' = nullifiers
    BY <1>4 DEF CheckNullifier, At
  <2>2. CASE Marker(call[c].sub) \notin nullifiers /\ Goto(c, "record")
    <3>1. call'[c] # Nothing
      BY <1>4 DEF At, Free
    <3>2. call'[c].sub = call[c].sub
      BY <2>1, <2>2, <3>1, CallStep
    <3> QED
      BY <1>4, <2>1, <2>2, <3>2
  <2>3. CASE Return(c)
    BY <1>4, <2>3 DEF Return, At, Free, TypeOK
  <2> QED
    BY <1>4, <2>2, <2>3 DEF CheckNullifier
<1>5. ASSUME NEW c \in Caller, CheckNullifier(c), d # c
      PROVE  call'[d] = call[d] /\ nullifiers' = nullifiers
  BY <1>5, CallStep DEF CheckNullifier, At
<1>6. ASSUME NEW c \in Caller, Record(c)
      PROVE  Marker(call'[d].sub) \notin nullifiers'
  <2>1. /\ ~ Free(c) /\ Return(c)
        /\ nullifiers' = nullifiers \cup {Marker(call[c].sub)}
    BY <1>6 DEF Record, At
  <2>2. d # c
    BY <2>1 DEF Return, At, Free, TypeOK
  <2>3. call'[d] = call[d]
    BY <2>1, <2>2, CallStep
  <2>4. ~ Free(d) /\ Marker(call[d].sub) \notin nullifiers
    BY <2>3 DEF UnspentInCall, At, Free
  <2>5. Marker(call[d].sub) # Marker(call[c].sub)
    BY <2>1, <2>2, <2>4 DEF ProofsFollow
  <2> QED
    BY <2>1, <2>3, <2>4, <2>5
<1> QED
  BY <1>1, <1>2, <1>3, <1>4, <1>5, <1>6
     DEF Next, issueCredential, revokeCredential, approveSecurityDestination, registry, vars

(* A call that records a submission exchanges an unspent nullifier for one
   ticket; no other step touches the receipts. *)
LEMMA ReceiptStep ==
  ASSUME TypeOK, SpentForATicket, UnspentInCall, [Next]_vars
  PROVE  [Receipts!Next]_receipts
<1>1. ASSUME NEW c \in Caller, Record(c) PROVE Receipts!Next
  <2> DEFINE sub == call[c].sub
             nul == Marker(sub)
             tic == TicketOf(sub)
  <2>1. sub \in Submission
    BY <1>1 DEF Record, At, Free, TypeOK, Call
  <2>2. nul \in Nullifier /\ tic \in Ticket /\ tic[5] = nul
    BY <2>1, TicketTyped
  <2>3. nul \notin nullifiers /\ tickets' = tickets \cup {tic}
    BY <1>1 DEF Record, TicketOf, UnspentInCall
  <2> HIDE DEF nul, tic
  <2>4. receipts' = receipts \cup {<<nul, tic>>}
    BY <2>2, <2>3 DEF receipts
  <2>5. Receipts!Spent = nullifiers
    <3>1. \A k : k \in Receipts!Spent <=> \E t \in tickets : k = <<t[5], t>>[1]
      BY DEF Receipts!Spent, receipts
    <3>2. \A t : <<t[5], t>>[1] = t[5]
      OBVIOUS
    <3> QED
      BY <3>1, <3>2 DEF SpentForATicket
  <2> QED
    BY <2>2, <2>3, <2>4, <2>5 DEF Receipts!Next, Receipts!Accept
<1>2. CASE UNCHANGED tickets
  BY <1>2 DEF receipts
<1> QED
  BY <1>1, <1>2 DEF Next, issueCredential, revokeCredential, approveSecurityDestination,
     Submit, CheckEligibility, CheckNullifier, vars

(* "It mirrors the Compact invariants": as long as submissions of one proof
   do not overlap, the adapter implements the specification the contract
   implements, whatever else is submitted, issued, revoked and approved
   meanwhile. *)
THEOREM FollowingProofsImplementReceipts == Spec /\ []ProofsFollow => Receipts!Spec
<1>1. Init => UnspentInCall /\ Receipts!Init
  BY DEF Init, UnspentInCall, Receipts!Init, receipts, At, Free
<1>2. TypeOK /\ ProofsFollow /\ UnspentInCall /\ [Next]_vars => UnspentInCall'
  BY UnspentStep
<1>3. IInv /\ UnspentInCall /\ [Next]_vars => [Receipts!Next]_receipts
  BY ReceiptStep DEF IInv
<1>4. IInv => TypeOK
  BY DEF IInv
<1> QED
  BY <1>1, <1>2, <1>3, <1>4, Invariance, PTL DEF Spec, Receipts!Spec

(* So a nullifier buys one ticket under that condition; the run demo_replay
   shows that without it a nullifier can buy two. *)
THEOREM FollowingProofsBuyOneTicket == Spec /\ []ProofsFollow => []OneTicketPerNullifier
<1>1. Receipts!Init => OneTicketPerNullifier
  BY DEF Receipts!Init, OneTicketPerNullifier, Receipts!OneTicketPerKey
<1>2. OneTicketPerNullifier /\ [Receipts!Next]_receipts => OneTicketPerNullifier'
  <2> SUFFICES ASSUME OneTicketPerNullifier, [Receipts!Next]_receipts
               PROVE  OneTicketPerNullifier'
    OBVIOUS
  <2>1. CASE UNCHANGED receipts
    BY <2>1 DEF OneTicketPerNullifier, Receipts!OneTicketPerKey
  <2>2. ASSUME NEW key \in Nullifier, NEW t \in Ticket, Receipts!Accept(key, t)
        PROVE  OneTicketPerNullifier'
    BY <2>2 DEF OneTicketPerNullifier, Receipts!OneTicketPerKey, Receipts!Accept, Receipts!Spent
  <2> QED
    BY <2>1, <2>2 DEF Receipts!Next
<1> QED
  BY <1>1, <1>2, FollowingProofsImplementReceipts, PTL DEF Receipts!Spec
===============================================================================
