----------------------- MODULE GhostWhistleLedger_proofs -----------------------
(***************************************************************************)
(* Proofs about the contract, for every value of its constants: the type   *)
(* invariant, the safety invariants, finality of revocation, and that the  *)
(* contract implements OneTimeReceipts.                                    *)
(***************************************************************************)
EXTENDS GhostWhistleLedger, FiniteSetTheorems, TLAPS

\* One accepted submission, whichever circuit recorded it.
Submission ==
  \/ \E d, cd \in Domain, e \in Email, r \in Report, s \in Secret, n \in Salt :
       submitInternal(d, e, r, cd, s, n)
  \/ \E e \in Email, r \in Report, n \in Salt : submitWhitehat(e, r, n)

\* The finiteness the counting argument needs.
FiniteOK == IsFiniteSet(acceptedTickets) /\ IsFiniteSet(usedNullifiers)

IInv ==
  /\ TypeOK
  /\ FiniteOK
  /\ CountersAgree
  /\ OneTicketPerNullifier
  /\ TicketsAreEntitled

------------------------------------------------------------------------------
(* An internal submission records a well-formed internal ticket that       *)
(* carries its nullifier and the credential it was minted with.            *)
LEMMA InternalTicketShape ==
  ASSUME NEW d \in Domain, NEW e \in Email, NEW r \in Report,
         NEW s \in Secret, NEW n \in Salt
  PROVE  LET nul == deriveInternalNullifier(s, r, n)
             t   == deriveTicket("internal", deriveInternalDestination(d, e), r, nul)
         IN  /\ nul \in Nullifier
             /\ t \in Ticket
             /\ KindOf(t) = "internal"
             /\ NullifierOf(t) = nul
             /\ CredentialOf(t) = deriveCredential(d, s)
BY DEF Nullifier, InternalNullifier, Ticket, InternalTicket, KindOf,
       NullifierOf, CredentialOf, DestinationOf, deriveTicket,
       deriveInternalDestination, deriveInternalNullifier, deriveCredential

(* A whitehat submission records a well-formed whitehat ticket.            *)
LEMMA WhitehatTicketShape ==
  ASSUME NEW e \in Email, NEW r \in Report, NEW n \in Salt
  PROVE  LET nul == deriveWhitehatNullifier(r, n)
             t   == deriveTicket("whitehat", e, r, nul)
         IN  /\ nul \in Nullifier
             /\ t \in Ticket
             /\ KindOf(t) = "whitehat"
             /\ NullifierOf(t) = nul
             /\ DestinationOf(t) = e
BY DEF Nullifier, WhitehatNullifier, Ticket, WhitehatTicket, KindOf,
       NullifierOf, DestinationOf, deriveTicket, deriveWhitehatNullifier

(* What every submission does to the ledger, seen from outside: it spends  *)
(* a fresh nullifier for a ticket that carries it and is entitled to it.   *)
Entitled(t) ==
  \/ /\ KindOf(t) = "internal"
     /\ CredentialOf(t) \in credentialCommitments
     /\ CredentialOf(t) \notin revokedCredentialCommitments
  \/ /\ KindOf(t) = "whitehat"
     /\ DestinationOf(t) \in approvedSecurityDestinations

RecordsEntitledTicket ==
  \E nul \in Nullifier, t \in Ticket :
    /\ Record(nul, t)
    /\ NullifierOf(t) = nul
    /\ Entitled(t)
    /\ UNCHANGED <<roleKeys, registry>>

(* Either submission circuit (ghostwhistle.compact:58, 93) spends one new
   nullifier for one new ticket, and the ticket is entitled. *)
LEMMA SubmissionRecords == Submission => RecordsEntitledTicket
<1>1. ASSUME NEW d \in Domain, NEW cd \in Domain, NEW e \in Email,
             NEW r \in Report, NEW s \in Secret, NEW n \in Salt,
             submitInternal(d, e, r, cd, s, n)
      PROVE  RecordsEntitledTicket
  <2> DEFINE nul == deriveInternalNullifier(s, r, n)
             t   == deriveTicket("internal", deriveInternalDestination(d, e), r, nul)
  <2>1. /\ nul \in Nullifier
        /\ t \in Ticket
        /\ KindOf(t) = "internal"
        /\ NullifierOf(t) = nul
        /\ CredentialOf(t) = deriveCredential(d, s)
    BY InternalTicketShape
  <2>2. /\ Record(nul, t)
        /\ UNCHANGED <<roleKeys, registry>>
        /\ deriveCredential(d, s) \in credentialCommitments
        /\ deriveCredential(d, s) \notin revokedCredentialCommitments
    BY <1>1 DEF submitInternal, Eligible
  <2> HIDE DEF nul, t
  <2>3. QED BY <2>1, <2>2 DEF RecordsEntitledTicket, Entitled
<1>2. ASSUME NEW e \in Email, NEW r \in Report, NEW n \in Salt,
             submitWhitehat(e, r, n)
      PROVE  RecordsEntitledTicket
  <2> DEFINE nul == deriveWhitehatNullifier(r, n)
             t   == deriveTicket("whitehat", e, r, nul)
  <2>1. /\ nul \in Nullifier
        /\ t \in Ticket
        /\ KindOf(t) = "whitehat"
        /\ NullifierOf(t) = nul
        /\ DestinationOf(t) = e
    BY WhitehatTicketShape
  <2>2. /\ Record(nul, t)
        /\ UNCHANGED <<roleKeys, registry>>
        /\ e \in approvedSecurityDestinations
    BY <1>2 DEF submitWhitehat
  <2> HIDE DEF nul, t
  <2>3. QED BY <2>1, <2>2 DEF RecordsEntitledTicket, Entitled
<1>3. QED BY <1>1, <1>2 DEF Submission
------------------------------------------------------------------------------
(* Initially the invariant holds. *)
LEMMA InitIInv == Init => IInv
<1> SUFFICES ASSUME Init PROVE IInv
  OBVIOUS
<1>1. TypeOK
  BY DEF Init, TypeOK
<1>2. FiniteOK /\ CountersAgree
  BY FS_EmptySet DEF Init, FiniteOK, CountersAgree
<1>3. OneTicketPerNullifier /\ TicketsAreEntitled
  BY DEF Init, OneTicketPerNullifier, TicketsAreEntitled
<1>4. QED BY <1>1, <1>2, <1>3 DEF IInv

(* The operator's transactions touch only the registry sets.               *)
LEMMA OperatorStepKeepsIInv ==
  ASSUME IInv,
         \/ \E c \in Credential, s \in RoleSecret : issueCredential(c, s)
         \/ \E c \in Credential, s \in RoleSecret : revokeCredential(c, s)
         \/ \E e \in Email, s \in RoleSecret : approveSecurityDestination(e, s)
  PROVE  IInv'
<1>1. TypeOK'
  BY DEF IInv, TypeOK, issueCredential, revokeCredential,
         approveSecurityDestination, roleKeys, acceptance
<1>2. UNCHANGED acceptance
  BY DEF issueCredential, revokeCredential, approveSecurityDestination
<1>3. FiniteOK' /\ CountersAgree'
  BY <1>2 DEF IInv, FiniteOK, CountersAgree, acceptance
<1>4. OneTicketPerNullifier'
  BY <1>2 DEF IInv, OneTicketPerNullifier, acceptance, NullifierOf
<1>5. /\ credentialCommitments \subseteq credentialCommitments'
      /\ approvedSecurityDestinations \subseteq approvedSecurityDestinations'
  BY DEF issueCredential, revokeCredential, approveSecurityDestination
<1>6. TicketsAreEntitled'
  BY <1>2, <1>5 DEF IInv, TicketsAreEntitled, acceptance, KindOf,
     CredentialOf, DestinationOf, NullifierOf, deriveCredential
<1>7. QED BY <1>1, <1>3, <1>4, <1>6 DEF IInv

(* A submission adds one nullifier and one ticket, both new, so that the   *)
(* three counts move together.                                             *)
LEMMA SubmissionKeepsIInv ==
  ASSUME IInv, Submission
  PROVE  IInv'
<1>1. PICK nul \in Nullifier, t \in Ticket :
         /\ Record(nul, t)
         /\ NullifierOf(t) = nul
         /\ Entitled(t)
         /\ UNCHANGED <<roleKeys, registry>>
  BY SubmissionRecords DEF RecordsEntitledTicket
<1>2. nul \notin usedNullifiers /\ t \notin acceptedTickets
  BY <1>1 DEF Record, IInv, OneTicketPerNullifier
<1>3. TypeOK'
  BY <1>1 DEF IInv, TypeOK, Record, roleKeys, registry
<1>4. FiniteOK' /\ CountersAgree'
  <2>1. /\ IsFiniteSet(acceptedTickets \cup {t})
        /\ Cardinality(acceptedTickets \cup {t}) = Cardinality(acceptedTickets) + 1
    BY <1>2, FS_AddElement DEF IInv, FiniteOK
  <2>2. /\ IsFiniteSet(usedNullifiers \cup {nul})
        /\ Cardinality(usedNullifiers \cup {nul}) = Cardinality(usedNullifiers) + 1
    BY <1>2, FS_AddElement DEF IInv, FiniteOK
  <2>3. QED BY <1>1, <2>1, <2>2 DEF IInv, FiniteOK, CountersAgree, Record
<1>5. OneTicketPerNullifier'
  BY <1>1, <1>2 DEF IInv, OneTicketPerNullifier, Record, NullifierOf
<1>6. TicketsAreEntitled'
  BY <1>1 DEF IInv, TicketsAreEntitled, Entitled, Record, registry, KindOf,
     CredentialOf, DestinationOf, NullifierOf, deriveCredential
<1>7. QED BY <1>3, <1>4, <1>5, <1>6 DEF IInv

(* Every step, and every stutter, keeps the invariant. *)
LEMMA StepKeepsIInv == IInv /\ [Next]_vars => IInv'
<1> SUFFICES ASSUME IInv, [Next]_vars PROVE IInv'
  OBVIOUS
<1>1. CASE UNCHANGED vars
  BY <1>1 DEF IInv, TypeOK, FiniteOK, CountersAgree, OneTicketPerNullifier,
     TicketsAreEntitled, vars, roleKeys, registry, acceptance
<1>2. CASE Submission
  BY <1>2, SubmissionKeepsIInv
<1>3. CASE \/ \E c \in Credential, s \in RoleSecret : issueCredential(c, s)
           \/ \E c \in Credential, s \in RoleSecret : revokeCredential(c, s)
           \/ \E e \in Email, s \in RoleSecret : approveSecurityDestination(e, s)
  BY <1>3, OperatorStepKeepsIInv
<1>4. QED BY <1>1, <1>2, <1>3 DEF Next, Submission

(* The inductive invariant holds in every reachable state.                 *)
LEMMA Invariance == Spec => []IInv
BY InitIInv, StepKeepsIInv, PTL DEF Spec

------------------------------------------------------------------------------
(* The registry sets always hold the kind of value the circuits put there, *)
(* and the sealed role keys keep the value the constructor gave them.      *)
THEOREM TypeCorrectness == Spec => []TypeOK
<1>1. IInv => TypeOK
  BY DEF IInv
<1>2. QED BY <1>1, Invariance, PTL

(* The counter, the nullifier set and the ticket set of the contract stay  *)
(* in step for any number of submissions.                                  *)
THEOREM CountersAlwaysAgree == Spec => []CountersAgree
<1>1. IInv => CountersAgree
  BY DEF IInv
<1>2. QED BY <1>1, Invariance, PTL

(* No report proof is exchanged for two tickets.                           *)
THEOREM NullifiersAreOneTime == Spec => []OneTicketPerNullifier
<1>1. IInv => OneTicketPerNullifier
  BY DEF IInv
<1>2. QED BY <1>1, Invariance, PTL

(* Every accepted ticket is backed by an issued credential of its domain   *)
(* or by an approved mailbox.                                              *)
THEOREM EveryTicketIsEntitled == Spec => []TicketsAreEntitled
<1>1. IInv => TicketsAreEntitled
  BY DEF IInv
<1>2. QED BY <1>1, Invariance, PTL

(* Once revoked, a credential stays revoked and mints no further ticket.   *)
THEOREM RevocationFinality == Spec => RevocationIsFinal
<1>1. ASSUME IInv, [Next]_vars, NEW c \in revokedCredentialCommitments
      PROVE  /\ c \in revokedCredentialCommitments'
             /\ TicketsOfCredential(c)' = TicketsOfCredential(c)
  <2>1. CASE Submission
    <3>1. PICK nul \in Nullifier, t \in Ticket :
             /\ Record(nul, t)
             /\ Entitled(t)
             /\ UNCHANGED <<roleKeys, registry>>
      BY <2>1, SubmissionRecords DEF RecordsEntitledTicket
    <3>2. ~ (KindOf(t) = "internal" /\ CredentialOf(t) = c)
      BY <3>1 DEF Entitled
    <3>3. QED
      BY <3>1, <3>2 DEF TicketsOfCredential, Record, registry, KindOf,
         CredentialOf, DestinationOf, NullifierOf, deriveCredential
  <2>2. CASE ~ Submission
    <3>1. /\ revokedCredentialCommitments \subseteq revokedCredentialCommitments'
          /\ acceptedTickets' = acceptedTickets
      BY <1>1, <2>2 DEF Next, Submission, vars, registry, acceptance,
         issueCredential, revokeCredential, approveSecurityDestination
    <3>2. QED
      BY <3>1 DEF TicketsOfCredential, KindOf, CredentialOf, DestinationOf,
         NullifierOf, deriveCredential
  <2>3. QED BY <2>1, <2>2
<1>2. IInv /\ [Next]_vars =>
        [\A c \in revokedCredentialCommitments :
           /\ c \in revokedCredentialCommitments'
           /\ TicketsOfCredential(c)' = TicketsOfCredential(c)]_vars
  BY <1>1
<1>3. QED BY <1>2, Invariance, PTL DEF Spec, RevocationIsFinal

(* The contract is a table of one-time receipts: initially empty, and each *)
(* of its steps exchanges one unspent nullifier or leaves the table alone. *)
THEOREM LedgerImplementsReceipts == Spec => ImplementsOneTimeReceipts
<1>1. Init => Receipts!Init
  BY DEF Init, Receipts!Init, receipts
<1>2. IInv /\ [Next]_vars => [Receipts!Next]_receipts
  <2> SUFFICES ASSUME IInv, [Next]_vars PROVE [Receipts!Next]_receipts
    OBVIOUS
  <2>1. CASE Submission
    <3>1. PICK nul \in Nullifier, t \in Ticket :
             Record(nul, t) /\ NullifierOf(t) = nul
      BY <2>1, SubmissionRecords DEF RecordsEntitledTicket
    <3>2. receipts' = receipts \cup {<<nul, t>>}
      BY <3>1 DEF receipts, Record, NullifierOf
    <3>3. nul \notin Receipts!Spent
      BY <3>1 DEF Receipts!Spent, receipts, Record, IInv,
         OneTicketPerNullifier, NullifierOf
    <3>4. QED BY <3>2, <3>3 DEF Receipts!Next, Receipts!Accept
  <2>2. CASE ~ Submission
    <3>1. acceptedTickets' = acceptedTickets
      BY <2>2 DEF Next, Submission, vars, acceptance,
         issueCredential, revokeCredential, approveSecurityDestination
    <3>2. QED BY <3>1 DEF receipts, NullifierOf
  <2>3. QED BY <2>1, <2>2
<1>3. QED BY <1>1, <1>2, Invariance, PTL DEF Spec, ImplementsOneTimeReceipts, Receipts!Spec
===============================================================================
