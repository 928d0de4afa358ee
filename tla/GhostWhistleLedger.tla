-------------------------- MODULE GhostWhistleLedger --------------------------
(***************************************************************************)
(* The Compact contract (packages/contract/src/ghostwhistle.compact): the  *)
(* public registry of credentials, revocations, approved destinations,     *)
(* spent nullifiers and accepted tickets.  One circuit call is one atomic  *)
(* transaction, so each circuit is one action; a call whose assertion      *)
(* fails has no effect and is no step.                                     *)
(*                                                                         *)
(* A hash is represented by the words it is computed from, which makes it  *)
(* injective.  persistentHash([a, b]) is <<a, b>> and                      *)
(* persistentCommit(v, opening) is <<opening>> followed by v, so two       *)
(* derivations are different because their preimages are, and not because  *)
(* the model labels them.                                                  *)
(***************************************************************************)
EXTENDS Naturals, FiniteSets

CONSTANTS Domain,        \* organisation domains (their hashes)
          Email,         \* destination mailboxes (their hashes)
          Secret,        \* credential secrets
          Report,        \* report commitments
          Salt,          \* report salts
          RoleSecret,    \* operator secrets a caller may present
          IssuerSecret,  \* the secret the issuer key was derived from
          OracleSecret   \* the secret the oracle key was derived from

ASSUME RoleSecretsAssumption ==
  /\ IssuerSecret \in RoleSecret
  /\ OracleSecret \in RoleSecret

VARIABLES credentialIssuerKey, destinationOracleKey,
          credentialCommitments, revokedCredentialCommitments,
          approvedSecurityDestinations,
          usedNullifiers, acceptedTickets, acceptedCount

roleKeys   == <<credentialIssuerKey, destinationOracleKey>>
registry   == <<credentialCommitments, revokedCredentialCommitments,
                approvedSecurityDestinations>>
acceptance == <<usedNullifiers, acceptedTickets, acceptedCount>>
vars       == <<roleKeys, registry, acceptance>>

------------------------------------------------------------------------------
(* The derivations of the contract. *)

deriveRoleKey(role, secret)                == <<role, secret>>
deriveCredential(domain, secret)           == <<secret, domain>>
deriveInternalNullifier(secret, report, salt) == <<salt, secret, report>>
deriveWhitehatNullifier(report, salt)      == <<salt, report>>
deriveInternalDestination(domain, email)   == <<domain, email>>
deriveTicket(kind, destination, report, nullifier) ==
  <<kind, destination, report, nullifier>>

Credential == {deriveCredential(d, s) : d \in Domain, s \in Secret}
InternalNullifier ==
  {deriveInternalNullifier(s, r, n) : s \in Secret, r \in Report, n \in Salt}
WhitehatNullifier == {deriveWhitehatNullifier(r, n) : r \in Report, n \in Salt}
Nullifier == InternalNullifier \cup WhitehatNullifier

InternalTicket ==
  {deriveTicket("internal", deriveInternalDestination(d, e), r,
                deriveInternalNullifier(s, r, n)) :
     d \in Domain, e \in Email, r \in Report, s \in Secret, n \in Salt}
WhitehatTicket ==
  {deriveTicket("whitehat", e, r, deriveWhitehatNullifier(r, n)) :
     e \in Email, r \in Report, n \in Salt}
Ticket == InternalTicket \cup WhitehatTicket

\* The parts of a ticket, as the relay and the properties read them.
KindOf(ticket)        == ticket[1]
DestinationOf(ticket) == ticket[2]
NullifierOf(ticket)   == ticket[4]
\* The credential an internal ticket was minted with: the secret is inside
\* its nullifier, the domain inside its destination.
CredentialOf(ticket) ==
  deriveCredential(DestinationOf(ticket)[1], NullifierOf(ticket)[2])

------------------------------------------------------------------------------
TypeOK ==
  /\ credentialIssuerKey = deriveRoleKey("issuer", IssuerSecret)
  /\ destinationOracleKey = deriveRoleKey("oracle", OracleSecret)
  /\ credentialCommitments \subseteq Credential
  /\ revokedCredentialCommitments \subseteq Credential
  /\ approvedSecurityDestinations \subseteq Email
  /\ usedNullifiers \subseteq Nullifier
  /\ acceptedTickets \subseteq Ticket
  /\ acceptedCount \in Nat

Init ==
  /\ credentialIssuerKey = deriveRoleKey("issuer", IssuerSecret)
  /\ destinationOracleKey = deriveRoleKey("oracle", OracleSecret)
  /\ credentialCommitments = {}
  /\ revokedCredentialCommitments = {}
  /\ approvedSecurityDestinations = {}
  /\ usedNullifiers = {}
  /\ acceptedTickets = {}
  /\ acceptedCount = 0

issueCredential(commitment, issuerSecret) ==
  /\ credentialIssuerKey = deriveRoleKey("issuer", issuerSecret)
  /\ commitment \notin credentialCommitments
  /\ credentialCommitments' = credentialCommitments \cup {commitment}
  /\ UNCHANGED <<roleKeys, revokedCredentialCommitments,
                 approvedSecurityDestinations, acceptance>>

revokeCredential(commitment, issuerSecret) ==
  /\ credentialIssuerKey = deriveRoleKey("issuer", issuerSecret)
  /\ commitment \in credentialCommitments
  /\ commitment \notin revokedCredentialCommitments
  /\ revokedCredentialCommitments' =
       revokedCredentialCommitments \cup {commitment}
  /\ UNCHANGED <<roleKeys, credentialCommitments,
                 approvedSecurityDestinations, acceptance>>

approveSecurityDestination(email, oracleSecret) ==
  /\ destinationOracleKey = deriveRoleKey("oracle", oracleSecret)
  /\ email \notin approvedSecurityDestinations
  /\ approvedSecurityDestinations' =
       approvedSecurityDestinations \cup {email}
  /\ UNCHANGED <<roleKeys, credentialCommitments,
                 revokedCredentialCommitments, acceptance>>

\* Mutants of Record: no replay check; a replay check on the ticket, which
\* names the destination; the ticket spent in the nullifier's place.
RecordUnguarded(nullifier, ticket) ==
  /\ usedNullifiers' = usedNullifiers \cup {nullifier}
  /\ acceptedTickets' = acceptedTickets \cup {ticket}
  /\ acceptedCount' = acceptedCount + 1
RecordByTicket(nullifier, ticket) ==
  ticket \notin acceptedTickets /\ RecordUnguarded(nullifier, ticket)
RecordSpendsTicket(nullifier, ticket) ==
  nullifier \notin usedNullifiers /\ RecordUnguarded(ticket, ticket)

\* The tail of both submission circuits: spend the nullifier, record the
\* ticket, count it.
Record(nullifier, ticket) ==
  /\ nullifier \notin usedNullifiers
  /\ usedNullifiers' = usedNullifiers \cup {nullifier}
  /\ acceptedTickets' = acceptedTickets \cup {ticket}
  /\ acceptedCount' = acceptedCount + 1

\* Mutants of Eligible: any domain's credential will do; revocation forgotten.
EligibleForAnyDomain(destinationDomain, credentialDomain, secret) ==
  deriveCredential(credentialDomain, secret) \in
    credentialCommitments \ revokedCredentialCommitments
EligibleIfRevoked(destinationDomain, credentialDomain, secret) ==
  /\ deriveCredential(credentialDomain, secret) \in credentialCommitments
  /\ credentialDomain = destinationDomain

\* The credential opens to a registered, unrevoked commitment of the very
\* domain the report is addressed to.
Eligible(destinationDomain, credentialDomain, secret) ==
  LET credential == deriveCredential(credentialDomain, secret) IN
  /\ credential \in credentialCommitments
  /\ credential \notin revokedCredentialCommitments
  /\ credentialDomain = destinationDomain

submitInternal(destinationDomain, email, report, credentialDomain, secret, salt) ==
  LET nullifier == deriveInternalNullifier(secret, report, salt) IN
  /\ Eligible(destinationDomain, credentialDomain, secret)
  /\ Record(nullifier,
            deriveTicket("internal",
                         deriveInternalDestination(destinationDomain, email),
                         report, nullifier))
  /\ UNCHANGED <<roleKeys, registry>>

submitWhitehat(email, report, salt) ==
  LET nullifier == deriveWhitehatNullifier(report, salt) IN
  /\ email \in approvedSecurityDestinations
  /\ Record(nullifier, deriveTicket("whitehat", email, report, nullifier))
  /\ UNCHANGED <<roleKeys, registry>>

Next ==
  \/ \E c \in Credential, s \in RoleSecret : issueCredential(c, s)
  \/ \E c \in Credential, s \in RoleSecret : revokeCredential(c, s)
  \/ \E e \in Email, s \in RoleSecret : approveSecurityDestination(e, s)
  \/ \E d, cd \in Domain, e \in Email, r \in Report, s \in Secret, n \in Salt :
       submitInternal(d, e, r, cd, s, n)
  \/ \E e \in Email, r \in Report, n \in Salt : submitWhitehat(e, r, n)

Spec == Init /\ [][Next]_vars

------------------------------------------------------------------------------
(* Properties. *)

\* The public counter, the spent nullifiers and the tickets never drift
\* apart: each accepted submission spent one nullifier and minted one ticket.
CountersAgree ==
  /\ Cardinality(acceptedTickets) = acceptedCount
  /\ Cardinality(usedNullifiers) = acceptedCount

\* A report proof is exchanged once: the same (secret, report, salt) cannot
\* buy a ticket for a second mailbox or a second domain, although neither
\* is part of the nullifier.
OneTicketPerNullifier ==
  /\ usedNullifiers = {NullifierOf(t) : t \in acceptedTickets}
  /\ \A t, u \in acceptedTickets : NullifierOf(t) = NullifierOf(u) => t = u

\* What a ticket proves to the reader of the report: an internal one that
\* its author held an issued credential of the destination's own domain, a
\* whitehat one that the mailbox was approved by the oracle.
TicketsAreEntitled ==
  \A t \in acceptedTickets :
    \/ /\ KindOf(t) = "internal"
       /\ CredentialOf(t) \in credentialCommitments
    \/ /\ KindOf(t) = "whitehat"
       /\ DestinationOf(t) \in approvedSecurityDestinations

TicketsOfCredential(c) ==
  {t \in acceptedTickets : KindOf(t) = "internal" /\ CredentialOf(t) = c}

\* Revocation is final: from the transaction that revokes a credential on,
\* the credential stays revoked and never mints another ticket.
RevocationIsFinal ==
  [][\A c \in revokedCredentialCommitments :
       /\ c \in revokedCredentialCommitments'
       /\ TicketsOfCredential(c)' = TicketsOfCredential(c)]_vars

\* The abstract promise: the ledger as a table of one-time receipts.
receipts == {<<NullifierOf(t), t>> : t \in acceptedTickets}

Receipts == INSTANCE OneTimeReceipts WITH Key <- Nullifier

\* The contract implements the abstract receipt table.
ImplementsOneTimeReceipts == Receipts!Spec
===============================================================================
