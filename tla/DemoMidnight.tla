----------------------------- MODULE DemoMidnight -----------------------------
(***************************************************************************)
(* DemoMidnightAdapter: the in-memory stand-in for the ledger that local   *)
(* demos and tests run against.  "It mirrors the Compact invariants."      *)
(*                                                                         *)
(* Unlike a circuit, a submission here is not atomic: it awaits hashes     *)
(* between its checks and the two adds that record it, and other calls run *)
(* meanwhile.  An action is the code between two awaits.                   *)
(*                                                                         *)
(* commitment(label, parts) is a labelled tuple: all parts but one have    *)
(* fixed lengths, so the concatenation it hashes is injective.             *)
(***************************************************************************)
EXTENDS Naturals, FiniteSets

CONSTANTS Caller,  \* concurrent users of the adapter
          Domain,  \* organisation domains
          Secret,  \* credential secrets of the browsers
          Zero,    \* the 32 zero bytes whitehat submissions use as secret
          Body,    \* report contents
          Salt,    \* report salts
          Nothing  \* a caller without a call

ASSUME DemoAssumption == Zero \notin Secret

VARIABLES credentials, revokedCredentials, approvedDestinations,
          nullifiers, tickets,
          call     \* the submission each caller awaits; history: whether
                   \* its outcome was settled before it was called

registry == <<credentials, revokedCredentials, approvedDestinations>>
vars == <<registry, nullifiers, tickets, call>>

------------------------------------------------------------------------------
(* commitments.ts *)

Mailbox == {"audit", "security"} \X Domain
DomainOfMailbox(to) == to[2]
isOfficialDestination(to, domain) == to = <<"audit", domain>>

credentialCommitment(domain, secret) == <<"credential", domain, secret>>
reportCommitment(body, salt)         == <<"report", body, salt>>
destinationCommitment(to)            == <<"destination", to>>
domainCommitment(domain)             == <<"domain", domain>>
internalDestinationCommitment(domain, destination) ==
  <<"internal-destination", domain, destination>>
nullifierOf(secret, report, salt)    == <<"nullifier", secret, report, salt>>
ticketCommitment(mode, destination, report, nullifier) ==
  <<"ticket", mode, destination, report, nullifier>>

TicketDestination(mode, domain, to) ==
  IF mode = "internal"
    THEN internalDestinationCommitment(domainCommitment(domain),
                                       destinationCommitment(to))
    ELSE destinationCommitment(to)

Mode == {"internal", "whitehat"}
Credential == {credentialCommitment(d, s) : d \in Domain, s \in Secret}
ReportHash == {reportCommitment(b, n) : b \in Body, n \in Salt}
Nullifier ==
  {nullifierOf(s, reportCommitment(b, n), n) :
     s \in Secret \cup {Zero}, b \in Body, n \in Salt}
Ticket ==
  {ticketCommitment(m, TicketDestination(m, d, to), rep, nul) :
     m \in Mode, d \in Domain, to \in Mailbox, rep \in ReportHash, nul \in Nullifier}

------------------------------------------------------------------------------
\* A whitehat submission has no secret and no domain of its own.  The salt is
\* the one of the report's commitment: submitReport (use-cases.ts) checks that
\* before it calls the adapter.
Submission ==
  {sub \in [mode : Mode, domain : Domain, to : Mailbox, secret : Secret \cup {Zero},
            body : Body, salt : Salt] :
     IF sub.mode = "whitehat"
       THEN sub.secret = Zero /\ sub.domain = DomainOfMailbox(sub.to)
       ELSE sub.secret # Zero}
Call == [pc : {"eligibility", "nullifier", "record"}, sub : Submission,
         settled : BOOLEAN]

TypeOK ==
  /\ credentials \subseteq Credential
  /\ revokedCredentials \subseteq credentials
  /\ approvedDestinations \subseteq {destinationCommitment(to) : to \in Mailbox}
  /\ nullifiers \subseteq Nullifier
  /\ tickets \subseteq Ticket
  /\ call \in [Caller -> Call \cup {Nothing}]

Init ==
  /\ credentials = {} /\ revokedCredentials = {} /\ approvedDestinations = {}
  /\ nullifiers = {} /\ tickets = {}
  /\ call = [c \in Caller |-> Nothing]

Free(c)     == call[c] = Nothing
At(c, pc)   == ~ Free(c) /\ call[c].pc = pc
Goto(c, pc) == call' = [call EXCEPT ![c].pc = pc]
Return(c)   == call' = [call EXCEPT ![c] = Nothing]

issueCredential(c, credential) ==
  /\ Free(c)
  /\ credentials' = credentials \cup {credential}
  /\ UNCHANGED <<revokedCredentials, approvedDestinations, nullifiers, tickets, call>>

\* Mutant of revokeCredential: the credential need not exist.
revokeAnyCredential(c, credential) ==
  /\ Free(c)
  /\ revokedCredentials' = revokedCredentials \cup {credential}
  /\ UNCHANGED <<credentials, approvedDestinations, nullifiers, tickets, call>>

revokeCredential(c, credential) ==
  /\ Free(c)
  /\ credential \in credentials
  /\ revokedCredentials' = revokedCredentials \cup {credential}
  /\ UNCHANGED <<credentials, approvedDestinations, nullifiers, tickets, call>>

approveSecurityDestination(c, to) ==
  /\ Free(c)
  /\ approvedDestinations' = approvedDestinations \cup {destinationCommitment(to)}
  /\ UNCHANGED <<credentials, revokedCredentials, nullifiers, tickets, call>>

Marker(sub) == nullifierOf(sub.secret, reportCommitment(sub.body, sub.salt), sub.salt)

\* History: the submission is a replay of a recorded one, or its credential
\* has been revoked.
Settled(sub) ==
  \/ Marker(sub) \in nullifiers
  \/ /\ sub.mode = "internal"
     /\ credentialCommitment(sub.domain, sub.secret) \in revokedCredentials

\* submitInternal() or submitWhitehat() is called and awaits its first hash.
Submit(c, sub) ==
  /\ Free(c)
  /\ call' = [call EXCEPT ![c] = [pc |-> "eligibility", sub |-> sub,
                                  settled |-> Settled(sub)]]
  /\ UNCHANGED <<registry, nullifiers, tickets>>

\* Mutants of Eligible: no credential asked for; revocation forgotten.
EligibleUnlessRevoked(sub) ==
  \/ /\ sub.mode = "internal"
     /\ credentialCommitment(sub.domain, sub.secret) \notin revokedCredentials
     /\ isOfficialDestination(sub.to, sub.domain)
  \/ /\ sub.mode = "whitehat"
     /\ destinationCommitment(sub.to) \in approvedDestinations
EligibleIfRevoked(sub) ==
  \/ /\ sub.mode = "internal"
     /\ credentialCommitment(sub.domain, sub.secret) \in credentials
     /\ isOfficialDestination(sub.to, sub.domain)
  \/ /\ sub.mode = "whitehat"
     /\ destinationCommitment(sub.to) \in approvedDestinations

\* The checks of submitInternal() and of submitWhitehat().
Eligible(sub) ==
  LET credential == credentialCommitment(sub.domain, sub.secret) IN
  \/ /\ sub.mode = "internal"
     /\ credential \in credentials
     /\ credential \notin revokedCredentials
     /\ isOfficialDestination(sub.to, sub.domain)
  \/ /\ sub.mode = "whitehat"
     /\ destinationCommitment(sub.to) \in approvedDestinations

CheckEligibility(c) ==
  /\ At(c, "eligibility")
  /\ IF Eligible(call[c].sub) THEN Goto(c, "nullifier") ELSE Return(c)
  /\ UNCHANGED <<registry, nullifiers, tickets>>

\* Mutants of CheckNullifier: no replay check; the nullifier spent at once.
CheckNullifierNever(c) ==
  /\ At(c, "nullifier")
  /\ Goto(c, "record")
  /\ UNCHANGED <<registry, nullifiers, tickets>>
CheckAndSpendNullifier(c) ==
  /\ At(c, "nullifier")
  /\ Marker(call[c].sub) \notin nullifiers
  /\ nullifiers' = nullifiers \cup {Marker(call[c].sub)}
  /\ Goto(c, "record")
  /\ UNCHANGED <<registry, tickets>>

\* accept(): the nullifier is hashed and looked up ...
CheckNullifier(c) ==
  /\ At(c, "nullifier")
  /\ IF Marker(call[c].sub) \notin nullifiers THEN Goto(c, "record") ELSE Return(c)
  /\ UNCHANGED <<registry, nullifiers, tickets>>

\* ... and after three or four more awaits recorded with the ticket.
Record(c) ==
  /\ At(c, "record")
  /\ LET sub == call[c].sub IN
       /\ nullifiers' = nullifiers \cup {Marker(sub)}
       /\ tickets' = tickets \cup
            {ticketCommitment(sub.mode, TicketDestination(sub.mode, sub.domain, sub.to),
                              reportCommitment(sub.body, sub.salt), Marker(sub))}
  /\ Return(c)
  /\ UNCHANGED registry

Next ==
  \/ \E c \in Caller, cr \in Credential :
       issueCredential(c, cr) \/ revokeCredential(c, cr)
  \/ \E c \in Caller, to \in Mailbox : approveSecurityDestination(c, to)
  \/ \E c \in Caller, sub \in Submission : Submit(c, sub)
  \/ \E c \in Caller : CheckEligibility(c) \/ CheckNullifier(c) \/ Record(c)

Spec == Init /\ [][Next]_vars

------------------------------------------------------------------------------
(* What the relay asks of the adapter before it sends a message. *)

\* The messages that could be sent with one of these tickets.
MessageWith(ts) ==
  [to : Mailbox, body : Body, salt : Salt, mode : Mode,
   destination : {destinationCommitment(to) : to \in Mailbox},
   report : ReportHash, nullifier : Nullifier, ticket : ts]

verify(m) ==
  /\ m.ticket \in tickets
  /\ m.mode = "internal" => isOfficialDestination(m.to, DomainOfMailbox(m.to))
  /\ m.destination = destinationCommitment(m.to)
  /\ m.report = reportCommitment(m.body, m.salt)
  /\ m.ticket = ticketCommitment(m.mode, TicketDestination(m.mode, DomainOfMailbox(m.to), m.to),
                                 m.report, m.nullifier)

------------------------------------------------------------------------------
(* Properties. *)

\* What the recipient of a verified message may believe, however submissions
\* interleaved: an internal one was authorised by a credential issued for the
\* recipient's own domain, whose holder committed to this very body; a
\* whitehat one was addressed to a mailbox the oracle approved.
VerifiedMailIsEntitled ==
  \A m \in MessageWith(tickets) : verify(m) =>
    \/ /\ m.mode = "internal"
       /\ \E s \in Secret :
            /\ credentialCommitment(DomainOfMailbox(m.to), s) \in credentials
            /\ m.nullifier = nullifierOf(s, reportCommitment(m.body, m.salt), m.salt)
    \/ /\ m.mode = "whitehat"
       /\ destinationCommitment(m.to) \in approvedDestinations

\* The nullifier set and the tickets are recorded together: no nullifier is
\* burnt without a ticket for it, no ticket exists whose nullifier is unspent.
SpentForATicket == nullifiers = {t[5] : t \in tickets}

\* Once a proof is spent or a credential revoked, a submission called after
\* that is refused, whatever other submissions are in flight.  (One that was
\* called before may still be recorded: it has been found eligible already.)
RefusesWhatWasSettled ==
  \A c \in Caller : At(c, "record") => ~ call[c].settled

\* "Replay defense: one-time nullifier set in Compact and demo adapter": the
\* adapter, like the contract, hands out one ticket per nullifier.  (Calls
\* that overlap break it: both may pass CheckNullifier before either records.)
receipts == {<<t[5], t>> : t \in tickets}
Receipts == INSTANCE OneTimeReceipts WITH Key <- Nullifier
OneTicketPerNullifier == Receipts!OneTicketPerKey
===============================================================================
