-------------------------- MODULE OtpIssuance_proofs --------------------------
(***************************************************************************)
(* Safety of the work-e-mail qualification, for every number of mailboxes, *)
(* challenges, handlers, attempts, crashes and failures, and for all times *)
(* of the limiter and of expiry with TtlMs <= WindowMs.                    *)
(*                                                                         *)
(* The argument: an id belongs to one challenge, and to one request while  *)
(* that is running (Drawn); until the request has put the file, nothing    *)
(* has been judged against the id (Fresh); the counter in a file that can  *)
(* be read is never behind the candidates that were judged (Counted...),   *)
(* and a file that was used up, torn or removed can not be read.  For the  *)
(* guesses at a mailbox: no window charges too many challenges (Charged),  *)
(* and a challenge is only heard while it lives (HeardInLife), so those    *)
(* heard in a window were charged in it or in the window before.           *)
(***************************************************************************)
EXTENDS OtpIssuance, FiniteSetTheorems, TLAPS

------------------------------------------------------------------------------
(* The inductive invariant. *)

Waiting(r) == ~ RequestAt(r, "idle")

(* An id that is used anywhere was drawn for a mailbox and a commitment. *)
Drawn ==
  /\ \A r \in Requester : Waiting(r) => owner[request[r].id] # None
  /\ \A id \in Id : id \in inbox \cup verified \/ file[id] # None \/ judged[id] # 0
                      => owner[id] # None

(* Every running request has a challenge of its own, and until it has put the
   file, nothing has happened to that challenge. *)
Fresh ==
  /\ \A r, s \in Requester :
       Waiting(r) /\ Waiting(s) /\ request[r].id = request[s].id => r = s
  /\ \A r \in Requester : RequestAt(r, "put") =>
       /\ file[request[r].id] = None
       /\ request[r].id \notin verified
       /\ judged[request[r].id] = 0

(* No wrong candidate is forgotten while the challenge is open. *)
CountedInFile ==
  \A id \in Id : Readable(id) => judged[id] <= file[id].attempts

(* Whoever is about to register a credential has presented a mailed code. *)
Presented ==
  /\ verified \subseteq inbox
  /\ \A v \in Verifier :
       /\ VerifyAt(v, "attempt") /\ verify[v].right => verify[v].id \in inbox
       /\ VerifyAt(v, "issue") => verify[v].id \in verified

IInv ==
  /\ TypeOK
  /\ Drawn
  /\ Fresh
  /\ CountedInFile
  /\ GuessesPerChallenge
  /\ AcceptedOnce
  /\ Presented
  /\ RegisteredWasProven

------------------------------------------------------------------------------
(* The constants and the handlers. *)

(* None, a cut file and a file that can be read differ. *)
LEMMA FilesDiffer ==
  /\ None # Torn
  /\ None \notin File
  /\ Torn \notin File
  BY OtpAssumption DEF File

(* What counting a wrong candidate does to the files, whether it comes to its
   end or is cut off. *)
LEMMA CountingLeaves ==
  ASSUME TypeOK, NEW v \in Verifier, Judges(v),
         NEW f \in {Counted(verify[v].id), [file EXCEPT ![verify[v].id] = Torn]}
  PROVE  /\ f \in [Id -> File \cup {None, Torn}]
         /\ \A id \in Id :
              \/ f[id] = file[id]
              \/ f[id] = Torn /\ Readable(id)
              \/ /\ Readable(id)
                 /\ f[id] \in File /\ f[id].attempts = file[id].attempts + 1
<1> DEFINE i == verify[v].id
           n == file[i].attempts + 1
<1>1. /\ i \in Id /\ Readable(i) /\ file[i] \in File /\ n \in 0..MaxAttempts
      /\ file \in [Id -> File \cup {None, Torn}]
  BY OtpAssumption DEF Judges, Readable, VerifyAt, VerifyState, Idle, TypeOK, File
<1>2. CASE f = Counted(i)
  <2>1. [file[i] EXCEPT !.attempts = @ + 1] = [attempts |-> n]
    BY <1>1 DEF File
  <2>2. f = [file EXCEPT ![i] = [attempts |-> n]]
    BY <1>1, <1>2, <2>1 DEF Counted
  <2> HIDE DEF n
  <2>3. [attempts |-> n] \in File /\ [attempts |-> n].attempts = n
    BY <1>1 DEF File
  <2> HIDE DEF i
  <2>4. f[i] \in File /\ f[i].attempts = n /\ f \in [Id -> File \cup {None, Torn}]
    BY <1>1, <2>2, <2>3
  <2>5. \A id \in Id \ {i} : f[id] = file[id]
    BY <1>1, <2>2
  <2> QED
    BY <1>1, <2>4, <2>5 DEF n
<1>3. CASE f = [file EXCEPT ![i] = Torn]
  BY <1>1, <1>3
<1> QED
  BY <1>2, <1>3

(* What a crash does to the file of one challenge. *)
LEMMA CrashLeaves ==
  ASSUME TypeOK, NEW f \in CrashedFiles
  PROVE  /\ f \in [Id -> File \cup {None, Torn}]
         /\ \A id \in Id :
              \/ f[id] = file[id]
              \/ f[id] = None
              \/ f[id] = Torn /\ Readable(id)
              \/ /\ f[id] \in File /\ f[id].attempts = 0
                 /\ \E r \in Requester : RequestAt(r, "put") /\ request[r].id = id
              \/ /\ Readable(id)
                 /\ f[id] \in File /\ f[id].attempts = file[id].attempts + 1
<1> USE DEF TypeOK, File
<1>0. ASSUME NEW i \in Id PROVE Removed(i) \in [Id -> File \cup {None, Torn}]
  BY DEF Removed
<1>1. CASE f = file
  BY <1>1
<1>2. ASSUME NEW r \in Requester, RequestAt(r, "put"),
             f = [file EXCEPT ![request[r].id] = [attempts |-> 0]]
      PROVE  /\ request[r].id \in Id
             /\ [attempts |-> 0] \in File
             /\ f \in [Id -> File \cup {None, Torn}]
             /\ \A id \in Id : f[id] = IF id = request[r].id THEN [attempts |-> 0] ELSE file[id]
  <2>1. request[r].id \in Id
    BY <1>2 DEF RequestAt, RequestState, Idle
  <2>2. [attempts |-> 0] \in File
    BY OtpAssumption
  <2> QED
    BY <1>2, <2>1, <2>2
<1>3. ASSUME NEW i \in Id, f = Removed(i)
      PROVE  \A id \in Id : f[id] = IF id = i THEN None ELSE file[id]
  BY <1>3 DEF Removed
<1>7. ASSUME NEW r \in Requester, RequestAt(r, "delete") PROVE request[r].id \in Id
  BY <1>7 DEF RequestAt, RequestState, Idle
<1>8. ASSUME NEW v \in Verifier, VerifyAt(v, "attempt") PROVE verify[v].id \in Id
  BY <1>8 DEF VerifyAt, VerifyState, Idle
<1>9. \/ f = file
      \/ \E r \in Requester : RequestAt(r, "put")
                               /\ f = [file EXCEPT ![request[r].id] = [attempts |-> 0]]
      \/ \E i \in Id : f = Removed(i)
      \/ \E v \in Verifier : Judges(v) /\ f = Counted(verify[v].id)
      \/ \E v \in Verifier : Judges(v) /\ f = [file EXCEPT ![verify[v].id] = Torn]
  BY <1>7, <1>8 DEF CrashedFiles
<1>10. CASE \E r \in Requester : RequestAt(r, "put")
                               /\ f = [file EXCEPT ![request[r].id] = [attempts |-> 0]]
  <2>1. PICK r \in Requester : RequestAt(r, "put")
                               /\ f = [file EXCEPT ![request[r].id] = [attempts |-> 0]]
    BY <1>10
  <2>2. f[request[r].id] \in File /\ f[request[r].id].attempts = 0
    BY <2>1, <1>2
  <2>3. \A id \in Id \ {request[r].id} : f[id] = file[id]
    BY <2>1, <1>2
  <2> HIDE DEF TypeOK, File
  <2> QED
    BY <2>1, <2>2, <2>3, <1>2
<1>11. CASE \E i \in Id : f = Removed(i)
  BY <1>11, <1>0, <1>3
<1>12. CASE \E v \in Verifier : Judges(v) /\ f = Counted(verify[v].id)
  BY <1>12, CountingLeaves
<1>13. CASE \E v \in Verifier : Judges(v) /\ f = [file EXCEPT ![verify[v].id] = Torn]
  BY <1>13, CountingLeaves
<1> QED
  BY <1>1, <1>9, <1>10, <1>11, <1>12, <1>13

(* What a file operation that fails does to the file of one challenge. *)
LEMMA FailureLeaves ==
  ASSUME TypeOK, NEW v \in Verifier, AttemptFails(v)
  PROVE  /\ verify' = [verify EXCEPT ![v] = Idle]
         /\ failures' = failures + 1 /\ failures < MaxFailures
         /\ UNCHANGED <<now, owner, inbox, registered, request, crashes, judged, heard, verified>>
         /\ file' \in [Id -> File \cup {None, Torn}]
         /\ \A id \in Id :
              \/ file'[id] = file[id]
              \/ file'[id] = None
              \/ file'[id] = Torn /\ Readable(id)
              \/ /\ Readable(id)
                 /\ file'[id] \in File /\ file'[id].attempts = file[id].attempts + 1
<1>0. UNCHANGED <<now, owner, inbox, registered, request, crashes, judged, heard, verified>>
  BY DEF AttemptFails, history
<1>1. CASE file' = Removed(verify[v].id)
  BY <1>0, <1>1 DEF AttemptFails, VerifyEnds, Removed, TypeOK
<1>2. CASE file' = file
  BY <1>0, <1>2 DEF AttemptFails, VerifyEnds, TypeOK
<1>3. CASE Judges(v) /\ file' \in {Counted(verify[v].id), [file EXCEPT ![verify[v].id] = Torn]}
  BY <1>0, <1>3, CountingLeaves DEF AttemptFails, VerifyEnds
<1> QED
  BY <1>1, <1>2, <1>3 DEF AttemptFails

(* Every step keeps the types. *)
LEMMA TypeStep == IInv /\ [Next]_vars => TypeOK'
<1> SUFFICES ASSUME IInv, [Next]_vars PROVE TypeOK'
  OBVIOUS
<1> USE DEF store, handlers, history, faults
<1>1. ASSUME NEW r \in Requester, NEW e \in Email, NEW c \in Commitment, Request(r, e, c)
      PROVE  TypeOK'
  BY <1>1, FilesDiffer, OtpAssumption DEF Request, Draw, Owner, RequestAt, RequestTo, RequestEnds,
       IInv, Drawn, Presented, TypeOK, File, RequestState, VerifyState, Idle
<1>2. ASSUME NEW r \in Requester, Put(r) PROVE TypeOK'
  BY <1>2, FilesDiffer, OtpAssumption DEF Put, RequestAt, RequestTo, RequestEnds, IInv,
       Drawn, Presented, TypeOK, Owner, File, RequestState, VerifyState, Idle
<1>3. ASSUME NEW r \in Requester, Sent(r) PROVE TypeOK'
  BY <1>3, FilesDiffer, OtpAssumption DEF Sent, RequestAt, RequestTo, RequestEnds, IInv,
       Drawn, Presented, TypeOK, Owner, File, RequestState, VerifyState, Idle
<1>4. ASSUME NEW r \in Requester, SendFailed(r) PROVE TypeOK'
  BY <1>4, FilesDiffer, OtpAssumption DEF SendFailed, RequestAt, RequestTo, RequestEnds,
       IInv, Drawn, Presented, TypeOK, Owner, File, RequestState, VerifyState, Idle
<1>5. ASSUME NEW r \in Requester, Delete(r) PROVE TypeOK'
  BY <1>5, FilesDiffer, OtpAssumption DEF Delete, RequestAt, RequestTo, RequestEnds, IInv,
       Drawn, Presented, TypeOK, Owner, File, RequestState, VerifyState, Idle
<1>6. ASSUME NEW v \in Verifier, NEW id \in Id, NEW right \in BOOLEAN, Verify(v, id, right)
      PROVE  TypeOK'
  BY <1>6, FilesDiffer, OtpAssumption DEF Verify, VerifyAt, VerifyEnds, IInv, Drawn,
       Presented, TypeOK, Owner, File, RequestState, VerifyState, Idle
<1>7. ASSUME NEW v \in Verifier, Attempt(v), AttemptRefused(v) PROVE TypeOK'
  BY <1>7, FilesDiffer, OtpAssumption DEF Attempt, AttemptRefused, Removed, VerifyAt,
       VerifyEnds, IInv, Drawn, Presented, TypeOK, Owner, File, RequestState, VerifyState,
       Idle
<1>8. ASSUME NEW v \in Verifier, Attempt(v), AttemptWrong(v) PROVE TypeOK'
  BY <1>8, FilesDiffer, OtpAssumption DEF Attempt, AttemptWrong, Answered, Judges, Counted, Readable,
       VerifyAt, VerifyEnds, IInv, Drawn, Presented, TypeOK, Owner, File, RequestState,
       VerifyState, Idle
<1>9. ASSUME NEW v \in Verifier, Attempt(v), AttemptRight(v) PROVE TypeOK'
  BY <1>9, FilesDiffer, OtpAssumption DEF Attempt, AttemptRight, Judges, Removed, Readable,
       VerifyAt, VerifyEnds, IInv, Drawn, Presented, TypeOK, Owner, File, RequestState,
       VerifyState, Idle
<1>10. ASSUME NEW v \in Verifier, Issue(v) PROVE TypeOK'
  BY <1>10, FilesDiffer, OtpAssumption DEF Issue, VerifyAt, VerifyEnds, IInv, Drawn,
       Presented, TypeOK, Owner, File, RequestState, VerifyState, Idle
<1>11. CASE Tick
  BY <1>11, FilesDiffer, OtpAssumption DEF Tick, IInv, Drawn, Presented, TypeOK, Owner,
       File, RequestState, VerifyState, Idle
<1>12. ASSUME Crash PROVE TypeOK'
  BY <1>12, FilesDiffer, OtpAssumption, CrashLeaves DEF Crash, IInv, Drawn, Presented,
       TypeOK, Owner, File, RequestState, VerifyState, Idle
<1>13. CASE UNCHANGED vars
  BY <1>13, FilesDiffer, OtpAssumption DEF vars, IInv, Drawn, Presented, TypeOK, Owner, File,
       RequestState, VerifyState, Idle
<1>14. ASSUME NEW r \in Requester, StoreFails(r) PROVE TypeOK'
  BY <1>14, FilesDiffer, OtpAssumption
  DEF StoreFails, RequestEnds, IInv, Drawn, Presented, TypeOK, Owner, File, RequestState,
      VerifyState, Idle
<1>15. ASSUME NEW v \in Verifier, AttemptFails(v) PROVE TypeOK'
  <2>1. TypeOK
    BY DEF IInv
  <2>2. /\ verify' = [verify EXCEPT ![v] = Idle]
        /\ failures' = failures + 1 /\ failures < MaxFailures
        /\ UNCHANGED <<now, owner, inbox, registered, request, crashes, judged, heard, verified>>
        /\ file' \in [Id -> File \cup {None, Torn}]
    BY <1>15, <2>1, FailureLeaves
  <2>3. verify' \in [Verifier -> VerifyState]
    BY <2>1, <2>2 DEF TypeOK, VerifyState, Idle
  <2>4. failures' \in 0..MaxFailures
    BY <2>1, <2>2, OtpAssumption DEF TypeOK
  <2> QED
    BY <2>1, <2>2, <2>3, <2>4 DEF TypeOK
<1> QED
  BY <1>1, <1>2, <1>3, <1>4, <1>5, <1>6, <1>7, <1>8, <1>9, <1>10, <1>11, <1>12, <1>13, <1>14,
     <1>15 DEF
       Next, Attempt

(* Ids are drawn before they are used, and stay drawn. *)
LEMMA DrawnStep == IInv /\ [Next]_vars => Drawn'
<1> SUFFICES ASSUME IInv, [Next]_vars PROVE Drawn'
  OBVIOUS
<1> USE DEF store, handlers, history, faults
<1>1. ASSUME NEW r \in Requester, NEW e \in Email, NEW c \in Commitment, Request(r, e, c)
      PROVE  Drawn'
  BY <1>1, FilesDiffer, OtpAssumption DEF Request, Draw, Owner, RequestAt, RequestTo, RequestEnds,
       IInv, Drawn, Presented, Waiting, VerifyAt, TypeOK, File, RequestState, VerifyState,
       Idle
<1>2. ASSUME NEW r \in Requester, Put(r) PROVE Drawn'
  BY <1>2, FilesDiffer, OtpAssumption DEF Put, RequestAt, RequestTo, RequestEnds, IInv,
       Drawn, Presented, Waiting, VerifyAt, TypeOK, Owner, File, RequestState, VerifyState,
       Idle
<1>3. ASSUME NEW r \in Requester, Sent(r) PROVE Drawn'
  BY <1>3, FilesDiffer, OtpAssumption DEF Sent, RequestAt, RequestTo, RequestEnds, IInv,
       Drawn, Presented, Waiting, VerifyAt, TypeOK, Owner, File, RequestState, VerifyState,
       Idle
<1>4. ASSUME NEW r \in Requester, SendFailed(r) PROVE Drawn'
  BY <1>4, FilesDiffer, OtpAssumption DEF SendFailed, RequestAt, RequestTo, RequestEnds,
       IInv, Drawn, Presented, Waiting, VerifyAt, TypeOK, Owner, File, RequestState,
       VerifyState, Idle
<1>5. ASSUME NEW r \in Requester, Delete(r) PROVE Drawn'
  BY <1>5, FilesDiffer, OtpAssumption DEF Delete, RequestAt, RequestTo, RequestEnds, IInv,
       Drawn, Presented, Waiting, VerifyAt, TypeOK, Owner, File, RequestState, VerifyState,
       Idle
<1>6. ASSUME NEW v \in Verifier, NEW id \in Id, NEW right \in BOOLEAN, Verify(v, id, right)
      PROVE  Drawn'
  BY <1>6, FilesDiffer, OtpAssumption DEF Verify, VerifyAt, VerifyEnds, IInv, Drawn,
       Presented, Waiting, RequestAt, TypeOK, Owner, File, RequestState, VerifyState, Idle
<1>7. ASSUME NEW v \in Verifier, Attempt(v), AttemptRefused(v) PROVE Drawn'
  BY <1>7, FilesDiffer, OtpAssumption DEF Attempt, AttemptRefused, Removed, VerifyAt,
       VerifyEnds, IInv, Drawn, Presented, Waiting, RequestAt, TypeOK, Owner, File,
       RequestState, VerifyState, Idle
<1>8. ASSUME NEW v \in Verifier, Attempt(v), AttemptWrong(v) PROVE Drawn'
  BY <1>8, FilesDiffer, OtpAssumption DEF Attempt, AttemptWrong, Answered, Judges, Counted, Readable,
       VerifyAt, VerifyEnds, IInv, Drawn, Presented, Waiting, RequestAt, TypeOK, Owner, File,
       RequestState, VerifyState, Idle
<1>9. ASSUME NEW v \in Verifier, Attempt(v), AttemptRight(v) PROVE Drawn'
  BY <1>9, FilesDiffer, OtpAssumption DEF Attempt, AttemptRight, Judges, Removed, Readable,
       VerifyAt, VerifyEnds, IInv, Drawn, Presented, Waiting, RequestAt, TypeOK, Owner, File,
       RequestState, VerifyState, Idle
<1>10. ASSUME NEW v \in Verifier, Issue(v) PROVE Drawn'
  BY <1>10, FilesDiffer, OtpAssumption DEF Issue, VerifyAt, VerifyEnds, IInv, Drawn,
       Presented, Waiting, RequestAt, TypeOK, Owner, File, RequestState, VerifyState, Idle
<1>11. CASE Tick
  BY <1>11, FilesDiffer, OtpAssumption DEF Tick, IInv, Drawn, Presented, Waiting,
       RequestAt, VerifyAt, TypeOK, Owner, File, RequestState, VerifyState, Idle
<1>12. ASSUME Crash PROVE Drawn'
  <2>1. PICK f \in CrashedFiles : file' = f
    BY <1>12 DEF Crash
  <2>2. /\ TypeOK /\ Drawn
        /\ request' = [r \in Requester |-> Idle]
        /\ UNCHANGED <<owner, inbox, verified, judged>>
    BY <1>12 DEF Crash, IInv
  <2>3. \A r \in Requester : ~ Waiting(r)'
    BY <2>2 DEF Waiting, RequestAt, Idle
  <2>4. \A id \in Id : f[id] # None => file[id] # None \/ \E r \in Requester : Waiting(r) /\ request[r].id = id
    BY <2>2, CrashLeaves DEF Readable, Waiting, RequestAt
  <2> QED
    BY <2>1, <2>2, <2>3, <2>4 DEF Drawn
<1>13. CASE UNCHANGED vars
  BY <1>13, FilesDiffer, OtpAssumption DEF vars, IInv, Drawn, Presented, Waiting, RequestAt,
       VerifyAt, TypeOK, Owner, File, RequestState, VerifyState, Idle
<1>14. ASSUME NEW r \in Requester, StoreFails(r) PROVE Drawn'
  BY <1>14, FilesDiffer, OtpAssumption
  DEF StoreFails, RequestEnds, IInv, Drawn, Presented, Waiting, RequestAt, VerifyAt, TypeOK,
      Owner, File, RequestState, VerifyState, Idle
<1>15. ASSUME NEW v \in Verifier, AttemptFails(v) PROVE Drawn'
  <2>1. /\ UNCHANGED <<owner, inbox, request, judged, verified>>
        /\ \A id \in Id : file'[id] # None => file[id] # None
    BY <1>15, FailureLeaves DEF IInv, Readable
  <2> QED
    BY <2>1 DEF IInv, Drawn, Waiting, RequestAt
<1> QED
  BY <1>1, <1>2, <1>3, <1>4, <1>5, <1>6, <1>7, <1>8, <1>9, <1>10, <1>11, <1>12, <1>13, <1>14,
     <1>15 DEF
       Next, Attempt

(* No two requests share a challenge. *)
LEMMA FreshStep == IInv /\ [Next]_vars => Fresh'
<1> SUFFICES ASSUME IInv, [Next]_vars PROVE Fresh'
  OBVIOUS
<1> USE DEF store, handlers, history, faults
<1>1. ASSUME NEW r \in Requester, NEW e \in Email, NEW c \in Commitment, Request(r, e, c)
      PROVE  Fresh'
  BY <1>1, FilesDiffer, OtpAssumption DEF Request, Draw, Owner, RequestAt, RequestTo, RequestEnds,
       IInv, Fresh, Drawn, Waiting, VerifyAt, TypeOK, File, RequestState, VerifyState, Idle
<1>2. ASSUME NEW r \in Requester, Put(r) PROVE Fresh'
  BY <1>2, FilesDiffer, OtpAssumption DEF Put, RequestAt, RequestTo, RequestEnds, IInv,
       Fresh, Drawn, Waiting, VerifyAt, TypeOK, Owner, File, RequestState, VerifyState, Idle
<1>3. ASSUME NEW r \in Requester, Sent(r) PROVE Fresh'
  BY <1>3, FilesDiffer, OtpAssumption DEF Sent, RequestAt, RequestTo, RequestEnds, IInv,
       Fresh, Drawn, Waiting, VerifyAt, TypeOK, Owner, File, RequestState, VerifyState, Idle
<1>4. ASSUME NEW r \in Requester, SendFailed(r) PROVE Fresh'
  BY <1>4, FilesDiffer, OtpAssumption DEF SendFailed, RequestAt, RequestTo, RequestEnds,
       IInv, Fresh, Drawn, Waiting, VerifyAt, TypeOK, Owner, File, RequestState, VerifyState,
       Idle
<1>5. ASSUME NEW r \in Requester, Delete(r) PROVE Fresh'
  BY <1>5, FilesDiffer, OtpAssumption DEF Delete, RequestAt, RequestTo, RequestEnds, IInv,
       Fresh, Drawn, Waiting, VerifyAt, TypeOK, Owner, File, RequestState, VerifyState, Idle
<1>6. ASSUME NEW v \in Verifier, NEW id \in Id, NEW right \in BOOLEAN, Verify(v, id, right)
      PROVE  Fresh'
  BY <1>6, FilesDiffer, OtpAssumption DEF Verify, VerifyAt, VerifyEnds, IInv, Fresh, Drawn,
       Waiting, RequestAt, TypeOK, Owner, File, RequestState, VerifyState, Idle
<1>7. ASSUME NEW v \in Verifier, Attempt(v), AttemptRefused(v) PROVE Fresh'
  BY <1>7, FilesDiffer, OtpAssumption DEF Attempt, AttemptRefused, Removed, VerifyAt,
       VerifyEnds, IInv, Fresh, Drawn, Waiting, RequestAt, TypeOK, Owner, File, RequestState,
       VerifyState, Idle
<1>8. ASSUME NEW v \in Verifier, Attempt(v), AttemptWrong(v) PROVE Fresh'
  BY <1>8, FilesDiffer, OtpAssumption DEF Attempt, AttemptWrong, Answered, Judges, Counted, Readable,
       VerifyAt, VerifyEnds, IInv, Fresh, Drawn, Waiting, RequestAt, TypeOK, Owner, File,
       RequestState, VerifyState, Idle
<1>9. ASSUME NEW v \in Verifier, Attempt(v), AttemptRight(v) PROVE Fresh'
  BY <1>9, FilesDiffer, OtpAssumption DEF Attempt, AttemptRight, Judges, Removed, Readable,
       VerifyAt, VerifyEnds, IInv, Fresh, Drawn, Waiting, RequestAt, TypeOK, Owner, File,
       RequestState, VerifyState, Idle
<1>10. ASSUME NEW v \in Verifier, Issue(v) PROVE Fresh'
  BY <1>10, FilesDiffer, OtpAssumption DEF Issue, VerifyAt, VerifyEnds, IInv, Fresh, Drawn,
       Waiting, RequestAt, TypeOK, Owner, File, RequestState, VerifyState, Idle
<1>11. CASE Tick
  BY <1>11, FilesDiffer, OtpAssumption DEF Tick, IInv, Fresh, Drawn, Waiting, RequestAt,
       VerifyAt, TypeOK, Owner, File, RequestState, VerifyState, Idle
<1>12. ASSUME Crash PROVE Fresh'
  BY <1>12, FilesDiffer, OtpAssumption, CrashLeaves DEF Crash, IInv, Fresh, Drawn, Waiting,
       RequestAt, VerifyAt, TypeOK, Owner, File, RequestState, VerifyState, Idle
<1>13. CASE UNCHANGED vars
  BY <1>13, FilesDiffer, OtpAssumption DEF vars, IInv, Fresh, Drawn, Waiting, RequestAt,
       VerifyAt, TypeOK, Owner, File, RequestState, VerifyState, Idle
<1>14. ASSUME NEW r \in Requester, StoreFails(r) PROVE Fresh'
  BY <1>14, FilesDiffer, OtpAssumption
  DEF StoreFails, RequestEnds, IInv, Fresh, Drawn, Waiting, RequestAt, VerifyAt, TypeOK, Owner,
      File, RequestState, VerifyState, Idle
<1>15. ASSUME NEW v \in Verifier, AttemptFails(v) PROVE Fresh'
  <2>1. /\ UNCHANGED <<owner, inbox, request, judged, verified>>
        /\ \A id \in Id : file[id] = None => file'[id] = None
    BY <1>15, FailureLeaves DEF IInv, Readable
  <2>2. \A s \in Requester : RequestAt(s, "put") => request[s].id \in Id
    BY DEF IInv, TypeOK, RequestAt, RequestState, Idle
  <2> QED
    BY <2>1, <2>2 DEF IInv, Fresh, Waiting, RequestAt
<1> QED
  BY <1>1, <1>2, <1>3, <1>4, <1>5, <1>6, <1>7, <1>8, <1>9, <1>10, <1>11, <1>12, <1>13, <1>14,
     <1>15 DEF
       Next, Attempt

(* The counter keeps up with the candidates. *)
LEMMA CountedStep == IInv /\ [Next]_vars => CountedInFile'
<1> SUFFICES ASSUME IInv, [Next]_vars PROVE CountedInFile'
  OBVIOUS
<1> USE DEF store, handlers, history, faults
<1>1. ASSUME NEW r \in Requester, NEW e \in Email, NEW c \in Commitment, Request(r, e, c)
      PROVE  CountedInFile'
  BY <1>1, FilesDiffer, OtpAssumption DEF Request, Draw, Owner, RequestAt, RequestTo, RequestEnds,
       IInv, CountedInFile, Fresh, Readable, TypeOK, File, RequestState, VerifyState, Idle
<1>2. ASSUME NEW r \in Requester, Put(r) PROVE CountedInFile'
  BY <1>2, FilesDiffer, OtpAssumption DEF Put, RequestAt, RequestTo, RequestEnds, IInv,
       CountedInFile, Fresh, Readable, TypeOK, Owner, File, RequestState, VerifyState, Idle
<1>3. ASSUME NEW r \in Requester, Sent(r) PROVE CountedInFile'
  BY <1>3, FilesDiffer, OtpAssumption DEF Sent, RequestAt, RequestTo, RequestEnds, IInv,
       CountedInFile, Fresh, Readable, TypeOK, Owner, File, RequestState, VerifyState, Idle
<1>4. ASSUME NEW r \in Requester, SendFailed(r) PROVE CountedInFile'
  BY <1>4, FilesDiffer, OtpAssumption DEF SendFailed, RequestAt, RequestTo, RequestEnds,
       IInv, CountedInFile, Fresh, Readable, TypeOK, Owner, File, RequestState, VerifyState,
       Idle
<1>5. ASSUME NEW r \in Requester, Delete(r) PROVE CountedInFile'
  BY <1>5, FilesDiffer, OtpAssumption DEF Delete, RequestAt, RequestTo, RequestEnds, IInv,
       CountedInFile, Fresh, Readable, TypeOK, Owner, File, RequestState, VerifyState, Idle
<1>6. ASSUME NEW v \in Verifier, NEW id \in Id, NEW right \in BOOLEAN, Verify(v, id, right)
      PROVE  CountedInFile'
  BY <1>6, FilesDiffer, OtpAssumption DEF Verify, VerifyAt, VerifyEnds, IInv, CountedInFile,
       Fresh, Readable, RequestAt, TypeOK, Owner, File, RequestState, VerifyState, Idle
<1>7. ASSUME NEW v \in Verifier, Attempt(v), AttemptRefused(v) PROVE CountedInFile'
  BY <1>7, FilesDiffer, OtpAssumption DEF Attempt, AttemptRefused, Removed, VerifyAt,
       VerifyEnds, IInv, CountedInFile, Fresh, Readable, RequestAt, TypeOK, Owner, File,
       RequestState, VerifyState, Idle
<1>8. ASSUME NEW v \in Verifier, Attempt(v), AttemptWrong(v) PROVE CountedInFile'
  BY <1>8, FilesDiffer, OtpAssumption DEF Attempt, AttemptWrong, Answered, Judges, Counted, Readable,
       VerifyAt, VerifyEnds, IInv, CountedInFile, Fresh, RequestAt, TypeOK, Owner, File,
       RequestState, VerifyState, Idle
<1>9. ASSUME NEW v \in Verifier, Attempt(v), AttemptRight(v) PROVE CountedInFile'
  BY <1>9, FilesDiffer, OtpAssumption DEF Attempt, AttemptRight, Judges, Removed, Readable,
       VerifyAt, VerifyEnds, IInv, CountedInFile, Fresh, RequestAt, TypeOK, Owner, File,
       RequestState, VerifyState, Idle
<1>10. ASSUME NEW v \in Verifier, Issue(v) PROVE CountedInFile'
  BY <1>10, FilesDiffer, OtpAssumption DEF Issue, VerifyAt, VerifyEnds, IInv, CountedInFile,
       Fresh, Readable, RequestAt, TypeOK, Owner, File, RequestState, VerifyState, Idle
<1>11. CASE Tick
  BY <1>11, FilesDiffer, OtpAssumption DEF Tick, IInv, CountedInFile, Fresh, Readable,
       RequestAt, TypeOK, Owner, File, RequestState, VerifyState, Idle
<1>12. ASSUME Crash PROVE CountedInFile'
  BY <1>12, FilesDiffer, OtpAssumption, CrashLeaves DEF Crash, IInv, CountedInFile, Fresh,
       Readable, RequestAt, TypeOK, Owner, File, RequestState, VerifyState, Idle
<1>13. CASE UNCHANGED vars
  BY <1>13, FilesDiffer, OtpAssumption DEF vars, IInv, CountedInFile, Fresh, Readable,
       RequestAt, TypeOK, Owner, File, RequestState, VerifyState, Idle
<1>14. ASSUME NEW r \in Requester, StoreFails(r) PROVE CountedInFile'
  BY <1>14, FilesDiffer, OtpAssumption
  DEF StoreFails, RequestEnds, IInv, CountedInFile, Fresh, Readable, RequestAt, TypeOK, Owner,
      File, RequestState, VerifyState, Idle
<1>15. ASSUME NEW v \in Verifier, AttemptFails(v) PROVE CountedInFile'
  BY <1>15, FilesDiffer, OtpAssumption, FailureLeaves
  DEF IInv, CountedInFile, Fresh, Readable, RequestAt, TypeOK, Owner, File, RequestState,
      VerifyState, Idle
<1> QED
  BY <1>1, <1>2, <1>3, <1>4, <1>5, <1>6, <1>7, <1>8, <1>9, <1>10, <1>11, <1>12, <1>13, <1>14,
     <1>15 DEF
       Next, Attempt

(* The limit holds. *)
LEMMA GuessesStep == IInv /\ [Next]_vars => GuessesPerChallenge'
<1> SUFFICES ASSUME IInv, [Next]_vars PROVE GuessesPerChallenge'
  OBVIOUS
<1> USE DEF store, handlers, history, faults
<1>1. ASSUME NEW r \in Requester, NEW e \in Email, NEW c \in Commitment, Request(r, e, c)
      PROVE  GuessesPerChallenge'
  BY <1>1, FilesDiffer, OtpAssumption DEF Request, Draw, Owner, RequestAt, RequestTo, RequestEnds,
       IInv, GuessesPerChallenge, CountedInFile, Readable, TypeOK, File, RequestState,
       VerifyState, Idle
<1>2. ASSUME NEW r \in Requester, Put(r) PROVE GuessesPerChallenge'
  BY <1>2, FilesDiffer, OtpAssumption DEF Put, RequestAt, RequestTo, RequestEnds, IInv,
       GuessesPerChallenge, CountedInFile, Readable, TypeOK, Owner, File, RequestState,
       VerifyState, Idle
<1>3. ASSUME NEW r \in Requester, Sent(r) PROVE GuessesPerChallenge'
  BY <1>3, FilesDiffer, OtpAssumption DEF Sent, RequestAt, RequestTo, RequestEnds, IInv,
       GuessesPerChallenge, CountedInFile, Readable, TypeOK, Owner, File, RequestState,
       VerifyState, Idle
<1>4. ASSUME NEW r \in Requester, SendFailed(r) PROVE GuessesPerChallenge'
  BY <1>4, FilesDiffer, OtpAssumption DEF SendFailed, RequestAt, RequestTo, RequestEnds,
       IInv, GuessesPerChallenge, CountedInFile, Readable, TypeOK, Owner, File, RequestState,
       VerifyState, Idle
<1>5. ASSUME NEW r \in Requester, Delete(r) PROVE GuessesPerChallenge'
  BY <1>5, FilesDiffer, OtpAssumption DEF Delete, RequestAt, RequestTo, RequestEnds, IInv,
       GuessesPerChallenge, CountedInFile, Readable, TypeOK, Owner, File, RequestState,
       VerifyState, Idle
<1>6. ASSUME NEW v \in Verifier, NEW id \in Id, NEW right \in BOOLEAN, Verify(v, id, right)
      PROVE  GuessesPerChallenge'
  BY <1>6, FilesDiffer, OtpAssumption DEF Verify, VerifyAt, VerifyEnds, IInv,
       GuessesPerChallenge, CountedInFile, Readable, TypeOK, Owner, File, RequestState,
       VerifyState, Idle
<1>7. ASSUME NEW v \in Verifier, Attempt(v), AttemptRefused(v) PROVE GuessesPerChallenge'
  BY <1>7, FilesDiffer, OtpAssumption DEF Attempt, AttemptRefused, Removed, VerifyAt,
       VerifyEnds, IInv, GuessesPerChallenge, CountedInFile, Readable, TypeOK, Owner, File,
       RequestState, VerifyState, Idle
<1>8. ASSUME NEW v \in Verifier, Attempt(v), AttemptWrong(v) PROVE GuessesPerChallenge'
  BY <1>8, FilesDiffer, OtpAssumption DEF Attempt, AttemptWrong, Answered, Judges, Counted, Readable,
       VerifyAt, VerifyEnds, IInv, GuessesPerChallenge, CountedInFile, TypeOK, Owner, File,
       RequestState, VerifyState, Idle
<1>9. ASSUME NEW v \in Verifier, Attempt(v), AttemptRight(v) PROVE GuessesPerChallenge'
  BY <1>9, FilesDiffer, OtpAssumption DEF Attempt, AttemptRight, Judges, Removed, Readable,
       VerifyAt, VerifyEnds, IInv, GuessesPerChallenge, CountedInFile, TypeOK, Owner, File,
       RequestState, VerifyState, Idle
<1>10. ASSUME NEW v \in Verifier, Issue(v) PROVE GuessesPerChallenge'
  BY <1>10, FilesDiffer, OtpAssumption DEF Issue, VerifyAt, VerifyEnds, IInv,
       GuessesPerChallenge, CountedInFile, Readable, TypeOK, Owner, File, RequestState,
       VerifyState, Idle
<1>11. CASE Tick
  BY <1>11, FilesDiffer, OtpAssumption DEF Tick, IInv, GuessesPerChallenge, CountedInFile,
       Readable, TypeOK, Owner, File, RequestState, VerifyState, Idle
<1>12. ASSUME Crash PROVE GuessesPerChallenge'
  BY <1>12, FilesDiffer, OtpAssumption, CrashLeaves DEF Crash, IInv, GuessesPerChallenge,
       CountedInFile, Readable, TypeOK, Owner, File, RequestState, VerifyState, Idle
<1>13. CASE UNCHANGED vars
  BY <1>13, FilesDiffer, OtpAssumption DEF vars, IInv, GuessesPerChallenge, CountedInFile,
       Readable, TypeOK, Owner, File, RequestState, VerifyState, Idle
<1>14. ASSUME NEW r \in Requester, StoreFails(r) PROVE GuessesPerChallenge'
  BY <1>14, FilesDiffer, OtpAssumption
  DEF StoreFails, RequestEnds, IInv, GuessesPerChallenge, CountedInFile, Readable, TypeOK,
      Owner, File, RequestState, VerifyState, Idle
<1>15. ASSUME NEW v \in Verifier, AttemptFails(v) PROVE GuessesPerChallenge'
  BY <1>15, FilesDiffer, OtpAssumption, FailureLeaves
  DEF IInv, GuessesPerChallenge, CountedInFile, Readable, TypeOK, Owner, File, RequestState,
      VerifyState, Idle
<1> QED
  BY <1>1, <1>2, <1>3, <1>4, <1>5, <1>6, <1>7, <1>8, <1>9, <1>10, <1>11, <1>12, <1>13, <1>14,
     <1>15 DEF
       Next, Attempt

(* A code is accepted once. *)
LEMMA AcceptedStep == IInv /\ [Next]_vars => AcceptedOnce'
<1> SUFFICES ASSUME IInv, [Next]_vars PROVE AcceptedOnce'
  OBVIOUS
<1> USE DEF store, handlers, history, faults
<1>1. ASSUME NEW r \in Requester, NEW e \in Email, NEW c \in Commitment, Request(r, e, c)
      PROVE  AcceptedOnce'
  BY <1>1, FilesDiffer, OtpAssumption DEF Request, Draw, Owner, RequestAt, RequestTo, RequestEnds,
       IInv, AcceptedOnce, Presented, Fresh, Readable, VerifyAt, TypeOK, File, RequestState,
       VerifyState, Idle
<1>2. ASSUME NEW r \in Requester, Put(r) PROVE AcceptedOnce'
  BY <1>2, FilesDiffer, OtpAssumption DEF Put, RequestAt, RequestTo, RequestEnds, IInv,
       AcceptedOnce, Presented, Fresh, Readable, VerifyAt, TypeOK, Owner, File, RequestState,
       VerifyState, Idle
<1>3. ASSUME NEW r \in Requester, Sent(r) PROVE AcceptedOnce'
  BY <1>3, FilesDiffer, OtpAssumption DEF Sent, RequestAt, RequestTo, RequestEnds, IInv,
       AcceptedOnce, Presented, Fresh, Readable, VerifyAt, TypeOK, Owner, File, RequestState,
       VerifyState, Idle
<1>4. ASSUME NEW r \in Requester, SendFailed(r) PROVE AcceptedOnce'
  BY <1>4, FilesDiffer, OtpAssumption DEF SendFailed, RequestAt, RequestTo, RequestEnds,
       IInv, AcceptedOnce, Presented, Fresh, Readable, VerifyAt, TypeOK, Owner, File,
       RequestState, VerifyState, Idle
<1>5. ASSUME NEW r \in Requester, Delete(r) PROVE AcceptedOnce'
  BY <1>5, FilesDiffer, OtpAssumption DEF Delete, RequestAt, RequestTo, RequestEnds, IInv,
       AcceptedOnce, Presented, Fresh, Readable, VerifyAt, TypeOK, Owner, File, RequestState,
       VerifyState, Idle
<1>6. ASSUME NEW v \in Verifier, NEW id \in Id, NEW right \in BOOLEAN, Verify(v, id, right)
      PROVE  AcceptedOnce'
  BY <1>6, FilesDiffer, OtpAssumption DEF Verify, VerifyAt, VerifyEnds, IInv, AcceptedOnce,
       Presented, Fresh, Readable, RequestAt, TypeOK, Owner, File, RequestState, VerifyState,
       Idle
<1>7. ASSUME NEW v \in Verifier, Attempt(v), AttemptRefused(v) PROVE AcceptedOnce'
  BY <1>7, FilesDiffer, OtpAssumption DEF Attempt, AttemptRefused, Removed, VerifyAt,
       VerifyEnds, IInv, AcceptedOnce, Presented, Fresh, Readable, RequestAt, TypeOK, Owner,
       File, RequestState, VerifyState, Idle
<1>8. ASSUME NEW v \in Verifier, Attempt(v), AttemptWrong(v) PROVE AcceptedOnce'
  BY <1>8, FilesDiffer, OtpAssumption DEF Attempt, AttemptWrong, Answered, Judges, Counted, Readable,
       VerifyAt, VerifyEnds, IInv, AcceptedOnce, Presented, Fresh, RequestAt, TypeOK, Owner,
       File, RequestState, VerifyState, Idle
<1>9. ASSUME NEW v \in Verifier, Attempt(v), AttemptRight(v) PROVE AcceptedOnce'
  BY <1>9, FilesDiffer, OtpAssumption DEF Attempt, AttemptRight, Judges, Removed, Readable,
       VerifyAt, VerifyEnds, IInv, AcceptedOnce, Presented, Fresh, RequestAt, TypeOK, Owner,
       File, RequestState, VerifyState, Idle
<1>10. ASSUME NEW v \in Verifier, Issue(v) PROVE AcceptedOnce'
  BY <1>10, FilesDiffer, OtpAssumption DEF Issue, VerifyAt, VerifyEnds, IInv, AcceptedOnce,
       Presented, Fresh, Readable, RequestAt, TypeOK, Owner, File, RequestState, VerifyState,
       Idle
<1>11. CASE Tick
  BY <1>11, FilesDiffer, OtpAssumption DEF Tick, IInv, AcceptedOnce, Presented, Fresh,
       Readable, VerifyAt, RequestAt, TypeOK, Owner, File, RequestState, VerifyState, Idle
<1>12. ASSUME Crash PROVE AcceptedOnce'
  BY <1>12, FilesDiffer, OtpAssumption, CrashLeaves DEF Crash, IInv, AcceptedOnce, Presented,
       Fresh, Readable, VerifyAt, RequestAt, TypeOK, Owner, File, RequestState, VerifyState,
       Idle
<1>13. CASE UNCHANGED vars
  BY <1>13, FilesDiffer, OtpAssumption DEF vars, IInv, AcceptedOnce, Presented, Fresh,
       Readable, VerifyAt, RequestAt, TypeOK, Owner, File, RequestState, VerifyState, Idle
<1>14. ASSUME NEW r \in Requester, StoreFails(r) PROVE AcceptedOnce'
  BY <1>14, FilesDiffer, OtpAssumption
  DEF StoreFails, RequestEnds, IInv, AcceptedOnce, Presented, Fresh, Readable, VerifyAt,
      RequestAt, TypeOK, Owner, File, RequestState, VerifyState, Idle
<1>15. ASSUME NEW v \in Verifier, AttemptFails(v) PROVE AcceptedOnce'
  BY <1>15, FilesDiffer, OtpAssumption, FailureLeaves
  DEF IInv, AcceptedOnce, Presented, Fresh, Readable, VerifyAt, RequestAt, TypeOK, Owner, File,
      RequestState, VerifyState, Idle
<1> QED
  BY <1>1, <1>2, <1>3, <1>4, <1>5, <1>6, <1>7, <1>8, <1>9, <1>10, <1>11, <1>12, <1>13, <1>14,
     <1>15 DEF
       Next, Attempt

(* Candidates that are right were mailed. *)
LEMMA PresentedStep == IInv /\ [Next]_vars => Presented'
<1> SUFFICES ASSUME IInv, [Next]_vars PROVE Presented'
  OBVIOUS
<1> USE DEF store, handlers, history, faults
<1>1. ASSUME NEW r \in Requester, NEW e \in Email, NEW c \in Commitment, Request(r, e, c)
      PROVE  Presented'
  BY <1>1 DEF Request, Draw, Owner, RequestAt, RequestTo, RequestEnds, IInv, Presented, VerifyAt,
       TypeOK, File, RequestState, VerifyState, Idle
<1>2. ASSUME NEW r \in Requester, Put(r) PROVE Presented'
  BY <1>2 DEF Put, RequestAt, RequestTo, RequestEnds, IInv, Presented, VerifyAt, TypeOK,
       Owner, File, RequestState, VerifyState, Idle
<1>3. ASSUME NEW r \in Requester, Sent(r) PROVE Presented'
  BY <1>3 DEF Sent, RequestAt, RequestTo, RequestEnds, IInv, Presented, VerifyAt, TypeOK,
       Owner, File, RequestState, VerifyState, Idle
<1>4. ASSUME NEW r \in Requester, SendFailed(r) PROVE Presented'
  BY <1>4 DEF SendFailed, RequestAt, RequestTo, RequestEnds, IInv, Presented, VerifyAt,
       TypeOK, Owner, File, RequestState, VerifyState, Idle
<1>5. ASSUME NEW r \in Requester, Delete(r) PROVE Presented'
  BY <1>5 DEF Delete, RequestAt, RequestTo, RequestEnds, IInv, Presented, VerifyAt, TypeOK,
       Owner, File, RequestState, VerifyState, Idle
<1>6. ASSUME NEW v \in Verifier, NEW id \in Id, NEW right \in BOOLEAN, Verify(v, id, right)
      PROVE  Presented'
  BY <1>6 DEF Verify, VerifyAt, VerifyEnds, IInv, Presented, TypeOK, Owner, File,
       RequestState, VerifyState, Idle
<1>7. ASSUME NEW v \in Verifier, Attempt(v), AttemptRefused(v) PROVE Presented'
  BY <1>7 DEF Attempt, AttemptRefused, Removed, VerifyAt, VerifyEnds, IInv, Presented,
       TypeOK, Owner, File, RequestState, VerifyState, Idle
<1>8. ASSUME NEW v \in Verifier, Attempt(v), AttemptWrong(v) PROVE Presented'
  BY <1>8 DEF Attempt, AttemptWrong, Answered, Judges, Counted, Readable, VerifyAt, VerifyEnds, IInv,
       Presented, TypeOK, Owner, File, RequestState, VerifyState, Idle
<1>9. ASSUME NEW v \in Verifier, Attempt(v), AttemptRight(v) PROVE Presented'
  BY <1>9 DEF Attempt, AttemptRight, Judges, Removed, Readable, VerifyAt, VerifyEnds, IInv,
       Presented, TypeOK, Owner, File, RequestState, VerifyState, Idle
<1>10. ASSUME NEW v \in Verifier, Issue(v) PROVE Presented'
  BY <1>10 DEF Issue, VerifyAt, VerifyEnds, IInv, Presented, TypeOK, Owner, File,
       RequestState, VerifyState, Idle
<1>11. CASE Tick
  BY <1>11 DEF Tick, IInv, Presented, VerifyAt, TypeOK, Owner, File, RequestState,
       VerifyState, Idle
<1>12. ASSUME Crash PROVE Presented'
  BY <1>12, CrashLeaves DEF Crash, IInv, Presented, VerifyAt, TypeOK, Owner, File,
       RequestState, VerifyState, Idle
<1>13. CASE UNCHANGED vars
  BY <1>13 DEF vars, IInv, Presented, VerifyAt, TypeOK, Owner, File, RequestState,
       VerifyState, Idle
<1>14. ASSUME NEW r \in Requester, StoreFails(r) PROVE Presented'
  BY <1>14
  DEF StoreFails, RequestEnds, IInv, Presented, VerifyAt, TypeOK, Owner, File, RequestState,
      VerifyState, Idle
<1>15. ASSUME NEW v \in Verifier, AttemptFails(v) PROVE Presented'
  BY <1>15, FailureLeaves
  DEF IInv, Presented, VerifyAt, TypeOK, Owner, File, RequestState, VerifyState, Idle
<1> QED
  BY <1>1, <1>2, <1>3, <1>4, <1>5, <1>6, <1>7, <1>8, <1>9, <1>10, <1>11, <1>12, <1>13, <1>14,
     <1>15 DEF
       Next, Attempt

(* Only presented challenges are registered. *)
LEMMA RegisteredStep == IInv /\ [Next]_vars => RegisteredWasProven'
<1> SUFFICES ASSUME IInv, [Next]_vars PROVE RegisteredWasProven'
  OBVIOUS
<1> USE DEF store, handlers, history, faults
<1>1. ASSUME NEW r \in Requester, NEW e \in Email, NEW c \in Commitment, Request(r, e, c)
      PROVE  RegisteredWasProven'
  BY <1>1 DEF Request, Draw, Owner, RequestAt, RequestTo, RequestEnds, IInv, RegisteredWasProven,
       Presented, Drawn, VerifyAt, TypeOK, File, RequestState, VerifyState, Idle
<1>2. ASSUME NEW r \in Requester, Put(r) PROVE RegisteredWasProven'
  BY <1>2 DEF Put, RequestAt, RequestTo, RequestEnds, IInv, RegisteredWasProven, Presented,
       Drawn, VerifyAt, TypeOK, Owner, File, RequestState, VerifyState, Idle
<1>3. ASSUME NEW r \in Requester, Sent(r) PROVE RegisteredWasProven'
  BY <1>3 DEF Sent, RequestAt, RequestTo, RequestEnds, IInv, RegisteredWasProven, Presented,
       Drawn, VerifyAt, TypeOK, Owner, File, RequestState, VerifyState, Idle
<1>4. ASSUME NEW r \in Requester, SendFailed(r) PROVE RegisteredWasProven'
  BY <1>4 DEF SendFailed, RequestAt, RequestTo, RequestEnds, IInv, RegisteredWasProven,
       Presented, Drawn, VerifyAt, TypeOK, Owner, File, RequestState, VerifyState, Idle
<1>5. ASSUME NEW r \in Requester, Delete(r) PROVE RegisteredWasProven'
  BY <1>5 DEF Delete, RequestAt, RequestTo, RequestEnds, IInv, RegisteredWasProven,
       Presented, Drawn, VerifyAt, TypeOK, Owner, File, RequestState, VerifyState, Idle
<1>6. ASSUME NEW v \in Verifier, NEW id \in Id, NEW right \in BOOLEAN, Verify(v, id, right)
      PROVE  RegisteredWasProven'
  BY <1>6 DEF Verify, VerifyAt, VerifyEnds, IInv, RegisteredWasProven, Presented, Drawn,
       TypeOK, Owner, File, RequestState, VerifyState, Idle
<1>7. ASSUME NEW v \in Verifier, Attempt(v), AttemptRefused(v) PROVE RegisteredWasProven'
  BY <1>7 DEF Attempt, AttemptRefused, Removed, VerifyAt, VerifyEnds, IInv,
       RegisteredWasProven, Presented, Drawn, TypeOK, Owner, File, RequestState, VerifyState,
       Idle
<1>8. ASSUME NEW v \in Verifier, Attempt(v), AttemptWrong(v) PROVE RegisteredWasProven'
  BY <1>8 DEF Attempt, AttemptWrong, Answered, Judges, Counted, Readable, VerifyAt, VerifyEnds, IInv,
       RegisteredWasProven, Presented, Drawn, TypeOK, Owner, File, RequestState, VerifyState,
       Idle
<1>9. ASSUME NEW v \in Verifier, Attempt(v), AttemptRight(v) PROVE RegisteredWasProven'
  BY <1>9 DEF Attempt, AttemptRight, Judges, Removed, Readable, VerifyAt, VerifyEnds, IInv,
       RegisteredWasProven, Presented, Drawn, TypeOK, Owner, File, RequestState, VerifyState,
       Idle
<1>10. ASSUME NEW v \in Verifier, Issue(v) PROVE RegisteredWasProven'
  BY <1>10 DEF Issue, VerifyAt, VerifyEnds, IInv, RegisteredWasProven, Presented, Drawn,
       TypeOK, Owner, File, RequestState, VerifyState, Idle
<1>11. CASE Tick
  BY <1>11 DEF Tick, IInv, RegisteredWasProven, Presented, Drawn, VerifyAt, TypeOK, Owner,
       File, RequestState, VerifyState, Idle
<1>12. ASSUME Crash PROVE RegisteredWasProven'
  BY <1>12, CrashLeaves DEF Crash, IInv, RegisteredWasProven, Presented, Drawn, VerifyAt,
       TypeOK, Owner, File, RequestState, VerifyState, Idle
<1>13. CASE UNCHANGED vars
  BY <1>13 DEF vars, IInv, RegisteredWasProven, Presented, Drawn, VerifyAt, TypeOK, Owner,
       File, RequestState, VerifyState, Idle
<1>14. ASSUME NEW r \in Requester, StoreFails(r) PROVE RegisteredWasProven'
  BY <1>14
  DEF StoreFails, RequestEnds, IInv, RegisteredWasProven, Presented, Drawn, VerifyAt, TypeOK,
      Owner, File, RequestState, VerifyState, Idle
<1>15. ASSUME NEW v \in Verifier, AttemptFails(v) PROVE RegisteredWasProven'
  BY <1>15, FailureLeaves
  DEF IInv, RegisteredWasProven, Presented, Drawn, VerifyAt, TypeOK, Owner, File, RequestState,
      VerifyState, Idle
<1> QED
  BY <1>1, <1>2, <1>3, <1>4, <1>5, <1>6, <1>7, <1>8, <1>9, <1>10, <1>11, <1>12, <1>13, <1>14,
     <1>15 DEF
       Next, Attempt

------------------------------------------------------------------------------
(* The theorems. *)

(* Initially the invariant holds. *)
LEMMA InitIInv == Init => IInv
<1> SUFFICES ASSUME Init PROVE IInv
  OBVIOUS
<1>1. TypeOK
  BY OtpAssumption DEF Init, TypeOK, RequestState, VerifyState
<1>2. Drawn /\ Fresh /\ CountedInFile /\ Presented
  BY DEF Init, Drawn, Fresh, CountedInFile, Presented, Waiting, RequestAt, VerifyAt, Readable,
         Idle
<1>3. GuessesPerChallenge /\ AcceptedOnce /\ RegisteredWasProven
  BY OtpAssumption
     DEF Init, GuessesPerChallenge, AcceptedOnce, RegisteredWasProven, VerifyAt, Idle
<1> QED
  BY <1>1, <1>2, <1>3 DEF IInv

(* Every step, and every stutter, keeps the invariant. *)
LEMMA StepIInv == IInv /\ [Next]_vars => IInv'
  BY TypeStep, DrawnStep, FreshStep, CountedStep, GuessesStep, AcceptedStep, PresentedStep,
     RegisteredStep
  DEF IInv

(* So the invariant holds always. *)
LEMMA Invariance == Spec => []IInv
  BY InitIInv, StepIInv, PTL DEF Spec

(* The states of the issuer are those TypeOK describes, whatever interleaves
   and whenever it crashes. *)
THEOREM TypeCorrect == Spec => []TypeOK
<1>1. IInv => TypeOK
  BY DEF IInv
<1> QED
  BY <1>1, Invariance, PTL

(* "Durable attempt limits": no number of verify handlers, and no crash while
   a candidate is counted, lets more than MaxAttempts wrong candidates be
   judged against one challenge. *)
THEOREM GuessesAreLimited == Spec => []GuessesPerChallenge
<1>1. IInv => GuessesPerChallenge
  BY DEF IInv
<1> QED
  BY <1>1, Invariance, PTL

(* "One-time challenge deletion": one handler at most gets to act on a code,
   and the challenge is gone before it acts. *)
THEOREM CodesWorkOnce == Spec => []AcceptedOnce
<1>1. IInv => AcceptedOnce
  BY DEF IInv
<1> QED
  BY <1>1, Invariance, PTL

(* The challenges of a mailbox that were charged in the window that ends at t. *)
ChargedUpTo(e, t) ==
  {id \in ChallengesOf(e) : owner[id].at <= t /\ t < owner[id].at + WindowMs}

(* Challenges are drawn in the past, and no window charges too many; a
   candidate arrives after its challenge was drawn, and is answered only if
   it arrives in the challenge's life. *)
Charged ==
  /\ \A id \in Id : owner[id] # None => owner[id].at \in 0..now
  /\ \A e \in Email, t \in 0..now :
       /\ IsFiniteSet(ChargedUpTo(e, t))
       /\ Cardinality(ChargedUpTo(e, t)) <= MaxEvents
HeardInLife ==
  /\ \A v \in Verifier : VerifyAt(v, "attempt") =>
       /\ owner[verify[v].id] # None
       /\ owner[verify[v].id].at <= verify[v].at
  /\ \A id \in Id : \A h \in heard[id] :
       owner[id] # None /\ owner[id].at <= h /\ h < ExpiresAt(id)

(* A drawn id keeps its owner. *)
LEMMA OwnersStay ==
  ASSUME IInv, [Next]_vars, NEW id \in Id, owner[id] # None
  PROVE  owner'[id] = owner[id]
<1> USE DEF store, IInv, TypeOK
<1>1. ASSUME NEW r \in Requester, NEW e \in Email, NEW c \in Commitment, Request(r, e, c)
      PROVE  owner'[id] = owner[id]
  BY <1>1 DEF Request, Draw
<1>2. ASSUME NEW r \in Requester, Put(r) \/ Sent(r) \/ SendFailed(r) \/ Delete(r) \/ StoreFails(r)
      PROVE  owner' = owner
  BY <1>2 DEF Put, Sent, SendFailed, Delete, StoreFails
<1>3. ASSUME NEW v \in Verifier, Attempt(v) \/ AttemptFails(v) \/ Issue(v) PROVE owner' = owner
  BY <1>3 DEF Attempt, AttemptFails, Issue
<1>4. ASSUME NEW v \in Verifier, NEW i \in Id, NEW right \in BOOLEAN, Verify(v, i, right)
      PROVE  owner' = owner
  BY <1>4 DEF Verify
<1>5. Tick \/ Crash \/ UNCHANGED vars => owner' = owner
  BY DEF Tick, Crash, vars
<1> QED
  BY <1>1, <1>2, <1>3, <1>4, <1>5 DEF Next

(* At the start no challenge exists. *)
LEMMA InitCharged == Init => Charged /\ HeardInLife
<1> SUFFICES ASSUME Init PROVE Charged /\ HeardInLife
  OBVIOUS
<1>1. \A e, t : ChargedUpTo(e, t) = {}
  BY DEF Init, ChargedUpTo, ChallengesOf
<1>2. Charged
  BY <1>1, FS_EmptySet, OtpAssumption DEF Init, Charged
<1>3. HeardInLife
  BY DEF Init, HeardInLife, VerifyAt, Idle
<1> QED
  BY <1>2, <1>3

(* A request is charged within the limit; nothing else draws a challenge. *)
LEMMA StepCharged == IInv /\ Charged /\ [Next]_vars => Charged'
<1> SUFFICES ASSUME IInv, Charged, [Next]_vars PROVE Charged'
  OBVIOUS
<1> USE OtpAssumption, TimesAssumption
<1>0. /\ now \in 0..MaxTime
      /\ owner \in [Id -> Owner \cup {None}]
  BY DEF IInv, TypeOK
<1>1. ASSUME NEW r \in Requester, NEW email \in Email, NEW c \in Commitment,
             Request(r, email, c)
      PROVE  Charged'
  <2>1. PICK id \in Id :
          /\ owner[id] = None
          /\ owner' = [owner EXCEPT ![id] = [email |-> email, commitment |-> c, at |-> now]]
    BY <1>1 DEF Request, Draw
  <2>2. now' = now /\ Cardinality(Recent(email)) < MaxEvents
    BY <1>1 DEF Request
  <2>3. /\ owner'[id] # None /\ owner'[id].email = email /\ owner'[id].at = now
        /\ \A i \in Id \ {id} : owner'[i] = owner[i]
    BY <1>0, <2>1 DEF Owner
  <2>4. \A i \in Id : owner'[i] # None => owner'[i].at \in 0..now'
    BY <1>0, <2>2, <2>3 DEF Charged
  <2>5. ASSUME NEW e \in Email, NEW t \in 0..now, ~ (e = email /\ t = now)
        PROVE  ChargedUpTo(e, t)' = ChargedUpTo(e, t)
    <3>1. id \notin ChargedUpTo(e, t) /\ id \notin ChargedUpTo(e, t)'
      BY <1>0, <2>1, <2>3, <2>5 DEF ChargedUpTo, ChallengesOf, MailboxOf
    <3>2. \A i \in Id \ {id} : i \in ChargedUpTo(e, t)' <=> i \in ChargedUpTo(e, t)
      BY <2>3 DEF ChargedUpTo, ChallengesOf, MailboxOf
    <3> QED
      BY <3>1, <3>2 DEF ChargedUpTo, ChallengesOf
  <2>6. /\ IsFiniteSet(ChargedUpTo(email, now)')
        /\ Cardinality(ChargedUpTo(email, now)') <= MaxEvents
    <3>1. ChargedUpTo(email, now) = Recent(email)
      BY DEF ChargedUpTo, Recent, Charged, ChallengesOf
    <3>2. ChargedUpTo(email, now)' \subseteq ChargedUpTo(email, now) \cup {id}
      BY <2>2, <2>3 DEF ChargedUpTo, ChallengesOf, MailboxOf
    <3>3. id \notin ChargedUpTo(email, now)
      BY <2>1 DEF ChargedUpTo, ChallengesOf
    <3>4. IsFiniteSet(ChargedUpTo(email, now))
      BY <1>0 DEF Charged
    <3>5. /\ IsFiniteSet(ChargedUpTo(email, now) \cup {id})
          /\ Cardinality(ChargedUpTo(email, now) \cup {id})
               = Cardinality(ChargedUpTo(email, now)) + 1
      BY <3>3, <3>4, FS_AddElement
    <3>6. /\ IsFiniteSet(ChargedUpTo(email, now)')
          /\ Cardinality(ChargedUpTo(email, now)') <= Cardinality(ChargedUpTo(email, now)) + 1
      BY <3>2, <3>5, FS_Subset
    <3>7. Cardinality(ChargedUpTo(email, now)) \in Nat /\ Cardinality(ChargedUpTo(email, now)') \in Nat
      BY <3>4, <3>6, FS_CardinalityType
    <3> QED
      BY <2>2, <3>1, <3>6, <3>7
  <2>7. \A e \in Email, t \in 0..now :
          IsFiniteSet(ChargedUpTo(e, t)') /\ Cardinality(ChargedUpTo(e, t)') <= MaxEvents
    <3>1. ASSUME NEW e \in Email, NEW t \in 0..now
          PROVE  IsFiniteSet(ChargedUpTo(e, t)') /\ Cardinality(ChargedUpTo(e, t)') <= MaxEvents
      <4>1. CASE e = email /\ t = now
        BY <2>2, <2>6, <4>1 DEF ChargedUpTo, ChallengesOf, MailboxOf
      <4>2. CASE ~ (e = email /\ t = now)
        BY <2>5, <4>2 DEF Charged
      <4> QED
        BY <4>1, <4>2
    <3> QED
      BY <3>1
  <2>8. \A e \in Email, t \in 0..now' :
          (IsFiniteSet(ChargedUpTo(e, t)) /\ Cardinality(ChargedUpTo(e, t)) <= MaxEvents)'
    BY <2>2, <2>7 DEF ChargedUpTo
  <2> QED
    BY <2>4, <2>8 DEF Charged
<1>2. CASE owner' = owner /\ now' = now
  BY <1>2 DEF Charged, ChargedUpTo, ChallengesOf, MailboxOf
<1>3. CASE Tick
  <2>1. owner' = owner /\ now' = now + 1
    BY <1>3 DEF Tick, store
  <2>2. \A e, t : ChargedUpTo(e, t)' = ChargedUpTo(e, t)
    BY <2>1 DEF ChargedUpTo, ChallengesOf, MailboxOf
  <2>3. ASSUME NEW e \in Email
        PROVE  IsFiniteSet(ChargedUpTo(e, now + 1)) /\ Cardinality(ChargedUpTo(e, now + 1)) <= MaxEvents
    <3>1. ChargedUpTo(e, now + 1) \subseteq ChargedUpTo(e, now)
      BY <1>0 DEF ChargedUpTo, Charged, ChallengesOf
    <3>2. IsFiniteSet(ChargedUpTo(e, now)) /\ Cardinality(ChargedUpTo(e, now)) <= MaxEvents
      BY <1>0 DEF Charged
    <3>3. /\ IsFiniteSet(ChargedUpTo(e, now + 1))
          /\ Cardinality(ChargedUpTo(e, now + 1)) <= Cardinality(ChargedUpTo(e, now))
      BY <3>1, <3>2, FS_Subset
    <3>4. Cardinality(ChargedUpTo(e, now)) \in Nat /\ Cardinality(ChargedUpTo(e, now + 1)) \in Nat
      BY <3>2, <3>3, FS_CardinalityType
    <3> QED
      BY <3>2, <3>3, <3>4
  <2>4. \A e \in Email, t \in 0..now' :
          IsFiniteSet(ChargedUpTo(e, t)) /\ Cardinality(ChargedUpTo(e, t)) <= MaxEvents
    <3>1. \A t \in 0..now' : t \in 0..now \/ t = now + 1
      BY <1>0, <2>1
    <3> QED
      BY <2>3, <3>1 DEF Charged
  <2>5. \A id \in Id : owner'[id] # None => owner'[id].at \in 0..now'
    BY <1>0, <2>1 DEF Charged
  <2>6. \A e \in Email, t \in 0..now' :
          (IsFiniteSet(ChargedUpTo(e, t)) /\ Cardinality(ChargedUpTo(e, t)) <= MaxEvents)'
    BY <2>2, <2>4
  <2> QED
    BY <2>5, <2>6 DEF Charged
<1>4. ASSUME NEW r \in Requester, Put(r) \/ Sent(r) \/ SendFailed(r) \/ Delete(r) \/ StoreFails(r)
      PROVE  owner' = owner /\ now' = now
  BY <1>4 DEF Put, Sent, SendFailed, Delete, StoreFails, store
<1>5. ASSUME NEW v \in Verifier, NEW id \in Id, NEW right \in BOOLEAN, Verify(v, id, right)
      PROVE  owner' = owner /\ now' = now
  BY <1>5 DEF Verify, store
<1>6. ASSUME NEW v \in Verifier, Attempt(v) \/ AttemptFails(v) \/ Issue(v)
      PROVE  owner' = owner /\ now' = now
  BY <1>6 DEF Attempt, AttemptFails, Issue, store
<1>7. Crash \/ UNCHANGED vars => owner' = owner /\ now' = now
  BY DEF Crash, vars, store
<1> QED
  BY <1>1, <1>2, <1>3, <1>4, <1>5, <1>6, <1>7 DEF Next

(* verify() reads the clock after the challenge was drawn, and an expired
   challenge hears nobody. *)
LEMMA StepHeard == IInv /\ Charged /\ HeardInLife /\ [Next]_vars => HeardInLife'
<1> SUFFICES ASSUME IInv, Charged, HeardInLife, [Next]_vars PROVE HeardInLife'
  OBVIOUS
<1>0. \A id \in Id : owner[id] # None => owner'[id] = owner[id]
  BY OwnersStay
<1> USE DEF IInv, TypeOK
<1>1. CASE UNCHANGED <<verify, heard>>
  <2>1. \A v \in Verifier : VerifyAt(v, "attempt") => verify[v].id \in Id
    BY DEF VerifyAt, VerifyState, Idle
  <2> QED
    BY <1>0, <1>1, <2>1 DEF HeardInLife, VerifyAt, ExpiresAt
<1>2. ASSUME NEW v \in Verifier, NEW id \in Id, NEW right \in BOOLEAN, Verify(v, id, right)
      PROVE  HeardInLife'
  <2>1. /\ verify' = [verify EXCEPT ![v] = [pc |-> "attempt", id |-> id, right |-> right,
                                            at |-> now]]
        /\ owner[id] # None /\ owner' = owner /\ heard' = heard
    BY <1>2 DEF Verify, store, history
  <2>2. owner[id].at <= now
    BY <2>1, OtpAssumption DEF Charged
  <2> QED
    BY <2>1, <2>2 DEF HeardInLife, VerifyAt, ExpiresAt
<1>3. ASSUME NEW v \in Verifier, heard' = heard, verify' \in [Verifier -> VerifyState],
             verify'[v].pc # "attempt", \A w \in Verifier \ {v} : verify'[w] = verify[w]
      PROVE  HeardInLife'
  <2>1. \A w \in Verifier : VerifyAt(w, "attempt")' =>
          w # v /\ verify'[w] = verify[w] /\ VerifyAt(w, "attempt") /\ verify[w].id \in Id
    BY <1>3 DEF VerifyAt, VerifyState, Idle
  <2> QED
    BY <1>0, <1>3, <2>1 DEF HeardInLife, ExpiresAt
<1>4. ASSUME NEW v \in Verifier, Attempt(v) PROVE HeardInLife'
  <2>0. verify[v].id \in Id /\ VerifyAt(v, "attempt") /\ owner' = owner
    BY <1>4 DEF Attempt, AttemptRefused, AttemptWrong, AttemptRight, Judges, VerifyAt, VerifyState, Idle
  <2>1. CASE AttemptWrong(v)
    <3>1. /\ ~ Late(v)
          /\ heard' = [heard EXCEPT ![verify[v].id] = @ \cup {verify[v].at}]
          /\ verify' = [verify EXCEPT ![v] = Idle]
      BY <2>1 DEF AttemptWrong, Answered, Judges, VerifyEnds
    <3>2. /\ owner[verify[v].id] # None
          /\ owner[verify[v].id].at <= verify[v].at /\ verify[v].at < ExpiresAt(verify[v].id)
      <4>1. owner[verify[v].id] # None /\ owner[verify[v].id].at <= verify[v].at
        BY <2>0 DEF HeardInLife
      <4>2. owner[verify[v].id].at \in Nat /\ verify[v].at \in Nat
        BY <2>0, <4>1, OtpAssumption DEF Owner, VerifyAt, VerifyState, Idle
      <4> QED
        BY <3>1, <4>1, <4>2, TimesAssumption DEF Late, ExpiresAt
    <3>3. \A id \in Id : \A h \in heard'[id] : h \in heard[id] \/ (id = verify[v].id /\ h = verify[v].at)
      BY <3>1, <2>0
    <3>4. \A id \in Id : \A h \in heard'[id] :
            owner'[id] # None /\ owner'[id].at <= h /\ h < ExpiresAt(id)'
      BY <2>0, <3>2, <3>3 DEF HeardInLife, ExpiresAt
    <3>5. \A w \in Verifier : VerifyAt(w, "attempt")' => VerifyAt(w, "attempt") /\ verify'[w] = verify[w]
      BY <3>1 DEF VerifyAt, Idle
    <3> QED
      BY <2>0, <3>4, <3>5 DEF HeardInLife
  <2>2. CASE AttemptRefused(v) \/ AttemptRight(v)
    <3>1. /\ heard' = heard /\ verify' \in [Verifier -> VerifyState] /\ verify'[v].pc # "attempt"
          /\ \A w \in Verifier \ {v} : verify'[w] = verify[w]
      BY <2>0, <2>2 DEF AttemptRefused, AttemptRight, VerifyEnds, VerifyState, Idle, history
    <3> QED
      BY <1>3, <3>1
  <2> QED
    BY <1>4, <2>1, <2>2 DEF Attempt
<1>5. ASSUME NEW v \in Verifier, AttemptFails(v) \/ Issue(v) PROVE HeardInLife'
  <2>1. /\ heard' = heard /\ verify' \in [Verifier -> VerifyState] /\ verify'[v].pc # "attempt"
        /\ \A w \in Verifier \ {v} : verify'[w] = verify[w]
    BY <1>5 DEF AttemptFails, Issue, VerifyEnds, VerifyState, Idle, history
  <2> QED
    BY <1>3, <2>1
<1>6. CASE Crash
  BY <1>0, <1>6 DEF Crash, HeardInLife, VerifyAt, Idle, history, ExpiresAt
<1>7. ASSUME NEW r \in Requester, Put(r) \/ Sent(r) \/ SendFailed(r) \/ Delete(r) \/ StoreFails(r)
      PROVE  UNCHANGED <<verify, heard>>
  BY <1>7 DEF Put, Sent, SendFailed, Delete, StoreFails, history
<1>8. ASSUME NEW r \in Requester, NEW e \in Email, NEW c \in Commitment, Request(r, e, c)
      PROVE  UNCHANGED <<verify, heard>>
  BY <1>8 DEF Request, history
<1>9. Tick \/ UNCHANGED vars => UNCHANGED <<verify, heard>>
  BY DEF Tick, vars, handlers, history
<1> QED
  BY <1>1, <1>2, <1>4, <1>5, <1>6, <1>7, <1>8, <1>9 DEF Next

(* A challenge that was guessed at in a window was charged up to the window's
   beginning, or in it. *)
LEMMA GuessedWasCharged ==
  ASSUME TypeOK, Charged, HeardInLife, NEW e \in Email, NEW t \in 0..now
  PROVE  \E u \in 0..now : GuessedAt(e, t) \subseteq ChargedUpTo(e, t) \cup ChargedUpTo(e, u)
<1> USE OtpAssumption, TimesAssumption
<1> DEFINE u == IF WindowMs # 0 /\ t + WindowMs - 1 <= now THEN t + WindowMs - 1 ELSE now
<1>1. now \in Nat /\ t \in Nat /\ u \in 0..now
  BY DEF TypeOK
<1>2. ASSUME NEW id \in GuessedAt(e, t) PROVE id \in ChargedUpTo(e, t) \cup ChargedUpTo(e, u)
  <2>1. PICK h \in heard[id] : t <= h /\ h < t + WindowMs
    BY DEF GuessedAt
  <2>2. id \in ChallengesOf(e) /\ id \in Id
    BY DEF GuessedAt, ChallengesOf
  <2>3. h \in Nat
    BY <2>2 DEF TypeOK
  <2>4. owner[id] # None /\ owner[id].at <= h /\ h < owner[id].at + TtlMs
    BY <2>2 DEF HeardInLife, ExpiresAt
  <2>5. owner[id].at \in 0..now
    BY <2>2, <2>4 DEF Charged
  <2>6. CASE owner[id].at <= t
    BY <1>1, <2>1, <2>2, <2>3, <2>4, <2>5, <2>6 DEF ChargedUpTo
  <2>7. CASE owner[id].at > t
    <3>1. WindowMs # 0 /\ owner[id].at < t + WindowMs
      BY <1>1, <2>1, <2>3, <2>4, <2>5, <2>7
    <3>2. owner[id].at <= u /\ u < owner[id].at + WindowMs
      BY <1>1, <2>5, <2>7, <3>1
    <3> QED
      BY <2>2, <3>2 DEF ChargedUpTo
  <2> QED
    BY <1>1, <2>5, <2>6, <2>7
<1> QED
  BY <1>1, <1>2

(* A product is monotone in its first factor. *)
LEMMA Monotone ==
  ASSUME NEW a \in Nat, NEW b \in Nat, NEW m \in Nat, a <= b
  PROVE  a * m \in Nat /\ b * m \in Nat /\ a * m <= b * m
<1>1. (b - a) * m >= 0
  OBVIOUS
<1> QED
  BY <1>1

(* So many challenges answer so many guesses. *)
LEMMA RowsOfGuesses ==
  ASSUME NEW C, IsFiniteSet(C), Cardinality(C) <= MaxEvents
  PROVE  /\ IsFiniteSet(C \X (1..MaxAttempts))
         /\ Cardinality(C \X (1..MaxAttempts)) \in Nat
         /\ Cardinality(C \X (1..MaxAttempts)) <= MaxEvents * MaxAttempts
<1>1. IsFiniteSet(1..MaxAttempts) /\ Cardinality(1..MaxAttempts) = MaxAttempts
  BY FS_Interval, OtpAssumption
<1>2. /\ IsFiniteSet(C \X (1..MaxAttempts))
      /\ Cardinality(C \X (1..MaxAttempts)) = Cardinality(C) * MaxAttempts
  BY <1>1, FS_Product
<1>3. Cardinality(C) \in Nat
  BY FS_CardinalityType
<1>4. Cardinality(C) * MaxAttempts \in Nat
      /\ Cardinality(C) * MaxAttempts <= MaxEvents * MaxAttempts
  BY <1>3, Monotone, OtpAssumption
<1> QED
  BY <1>2, <1>4

(* The guesses at a mailbox in a window fit in two times MaxEvents rows of
   MaxAttempts. *)
LEMMA GuessesFit ==
  ASSUME TypeOK, GuessesPerChallenge, Charged, HeardInLife
  PROVE  GuessesPerMailbox
<1> SUFFICES ASSUME NEW e \in Email, NEW t \in 0..now
             PROVE  Cardinality(Guesses(e, t)) <= 2 * (MaxEvents * MaxAttempts)
  BY DEF GuessesPerMailbox
<1>1. PICK u \in 0..now : GuessedAt(e, t) \subseteq ChargedUpTo(e, t) \cup ChargedUpTo(e, u)
  BY GuessedWasCharged
<1> DEFINE A == ChargedUpTo(e, t) \X (1..MaxAttempts)
           B == ChargedUpTo(e, u) \X (1..MaxAttempts)
           n == MaxEvents * MaxAttempts
<1>2. \A w \in {t, u} : IsFiniteSet(ChargedUpTo(e, w)) /\ Cardinality(ChargedUpTo(e, w)) <= MaxEvents
  BY DEF Charged
<1>3. /\ IsFiniteSet(A) /\ Cardinality(A) \in Nat /\ Cardinality(A) <= n
      /\ IsFiniteSet(B) /\ Cardinality(B) \in Nat /\ Cardinality(B) <= n
  BY <1>2, RowsOfGuesses
<1>4. Guesses(e, t) \subseteq A \cup B
  <2>1. \A id \in GuessedAt(e, t) : id \in Id /\ judged[id] \in Nat /\ judged[id] <= MaxAttempts
    BY DEF GuessedAt, ChallengesOf, TypeOK, GuessesPerChallenge
  <2>2. \A id \in GuessedAt(e, t) : \A k \in 1..judged[id] : k \in 1..MaxAttempts
    BY <2>1, OtpAssumption
  <2> QED
    BY <1>1, <2>2 DEF Guesses
<1>5. n \in Nat
  BY Monotone, OtpAssumption
<1> HIDE DEF A, B, n
<1>6. /\ IsFiniteSet(A \cup B) /\ IsFiniteSet(A \cap B)
      /\ Cardinality(A \cup B) = Cardinality(A) + Cardinality(B) - Cardinality(A \cap B)
  BY <1>3, FS_Union, FS_Intersection
<1>7. IsFiniteSet(Guesses(e, t)) /\ Cardinality(Guesses(e, t)) <= Cardinality(A \cup B)
  BY <1>4, <1>6, FS_Subset
<1>8. /\ Cardinality(A \cap B) \in Nat /\ Cardinality(A \cup B) \in Nat
      /\ Cardinality(Guesses(e, t)) \in Nat
  BY <1>6, <1>7, FS_CardinalityType
<1> QED
  BY <1>3, <1>5, <1>6, <1>7, <1>8 DEF n

(* The limiter, the life of the challenges and the attempt counters together
   bound the guesses at a mailbox in any window: those at the at most
   MaxEvents challenges that live on into it and at the at most MaxEvents
   drawn in it, for every interleaving of handlers, crash and failure. *)
THEOREM MailboxGuessesAreLimited == Spec => []GuessesPerMailbox
<1>1. IInv /\ Charged /\ HeardInLife => GuessesPerMailbox
  BY GuessesFit DEF IInv
<1>2. Spec => [](Charged /\ HeardInLife)
  BY InitCharged, StepCharged, StepHeard, Invariance, PTL DEF Spec
<1> QED
  BY <1>1, <1>2, Invariance, PTL

(* Every commitment on the ledger is that of a challenge whose mailed code
   came back: the issuer registers nothing else. *)
THEOREM CredentialsAreProven == Spec => []RegisteredWasProven
<1>1. IInv => RegisteredWasProven
  BY DEF IInv
<1> QED
  BY <1>1, Invariance, PTL

(* A challenge file of a drawn id that is gone comes back only by the put() of
   the request that drew it. *)
LEMMA ReopeningStep ==
  IInv /\ [Next]_vars =>
    \A id \in Id :
      owner[id] # None /\ file[id] = None /\ file'[id] # None =>
        \E r \in Requester : RequestAt(r, "put") /\ request[r].id = id
<1> SUFFICES ASSUME IInv, [Next]_vars,
                    NEW id \in Id, file[id] = None, file'[id] # None
             PROVE  \E r \in Requester : RequestAt(r, "put") /\ request[r].id = id
  OBVIOUS
<1> USE DEF IInv, TypeOK, store, handlers, history
<1>1. CASE \E r \in Requester : Put(r)
  BY <1>1 DEF Put
<1>2. CASE \E r \in Requester : Delete(r)
  BY <1>2 DEF Delete
<1>3. CASE \E v \in Verifier : Attempt(v)
  BY <1>3 DEF Attempt, AttemptRefused, AttemptWrong, AttemptRight, Judges, Readable, Removed,
              Counted
<1>4. CASE Crash
  BY <1>4, CrashLeaves DEF Crash, Readable
<1>5. CASE UNCHANGED file
  BY <1>5
<1>6. ASSUME NEW r \in Requester, Sent(r) \/ SendFailed(r) PROVE UNCHANGED file
  BY <1>6 DEF Sent, SendFailed
<1>7. ASSUME NEW r \in Requester, NEW e \in Email, NEW c \in Commitment, Request(r, e, c)
      PROVE UNCHANGED file
  BY <1>7 DEF Request
<1>8. ASSUME NEW v \in Verifier, Issue(v) PROVE UNCHANGED file
  BY <1>8 DEF Issue
<1>9. ASSUME NEW v \in Verifier, NEW i \in Id, NEW right \in BOOLEAN, Verify(v, i, right)
      PROVE UNCHANGED file
  BY <1>9 DEF Verify
<1>10. Tick => UNCHANGED file
  BY DEF Tick
<1>11. UNCHANGED vars => UNCHANGED file
  BY DEF vars
<1>12. ASSUME NEW r \in Requester, StoreFails(r) PROVE UNCHANGED file
  BY <1>12 DEF StoreFails
<1>13. CASE \E v \in Verifier : AttemptFails(v)
  BY <1>13, FailureLeaves DEF Readable
<1> QED
  BY <1>1, <1>2, <1>3, <1>4, <1>5, <1>6, <1>7, <1>8, <1>9, <1>10, <1>11, <1>12, <1>13 DEF Next

(* What was used up, withdrawn or refused stays closed: only the request that
   drew an id ever writes its first file. *)
THEOREM ChallengesStayClosed == Spec => NoReopening
<1>1. IInv /\ [Next]_vars =>
        [\A id \in Id :
           owner[id] # None /\ file[id] = None /\ file'[id] # None =>
             \E r \in Requester : RequestAt(r, "put") /\ request[r].id = id]_vars
  BY ReopeningStep
<1> QED
  BY <1>1, Invariance, PTL DEF Spec, NoReopening

(* What is ever torn: one challenge at a time, and only one whose wrong
   candidate was being counted (file-otp-store.ts:56). *)
OnlyCountingIsTorn ==
  [][\A id \in Id : file[id] # Torn /\ file'[id] = Torn =>
       /\ \E v \in Verifier : Judges(v) /\ ~ verify[v].right /\ verify[v].id = id
       /\ \A other \in Id \ {id} : file'[other] = file[other]]_vars

(* No store operation that runs to its end leaves a file torn. *)
LEMMA TornByFault ==
  ASSUME IInv, Next, ~ Crash, NEW id \in Id, file'[id] = Torn,
         \A v \in Verifier : ~ AttemptFails(v)
  PROVE  file[id] = Torn
<1> USE OtpAssumption DEF IInv, TypeOK, store, handlers, history
<1>1. [attempts |-> 0] # Torn
  BY DEF OtpAssumption
<1>2. ASSUME NEW r \in Requester, Put(r) PROVE file[id] = Torn
  BY <1>1, <1>2 DEF Put
<1>3. ASSUME NEW r \in Requester, Delete(r) PROVE file[id] = Torn
  BY <1>3 DEF Delete, Removed
<1>4. ASSUME NEW v \in Verifier, Attempt(v) PROVE file[id] = Torn
  <2>1. CASE AttemptWrong(v)
    <3>1. /\ verify[v].id \in Id /\ file[verify[v].id] \in File
          /\ file[verify[v].id].attempts + 1 \in 0 .. MaxAttempts
      BY <2>1 DEF AttemptWrong, Answered, Judges, Readable, VerifyAt, VerifyState, File, Idle
    <3>2. [file[verify[v].id] EXCEPT !.attempts = @ + 1] \in [attempts : 0 .. MaxAttempts]
      BY <3>1 DEF File
    <3> QED
      BY <2>1, <3>1, <3>2 DEF AttemptWrong, Counted
  <2>2. CASE ~ AttemptWrong(v)
    BY <1>4, <2>2 DEF Attempt, AttemptRefused, AttemptRight, Removed
  <2> QED
    BY <2>1, <2>2
<1>5. ASSUME UNCHANGED file PROVE file[id] = Torn
  BY <1>5
<1>6. ASSUME NEW r \in Requester, Sent(r) \/ SendFailed(r) PROVE UNCHANGED file
  BY <1>6 DEF Sent, SendFailed
<1>7. ASSUME NEW r \in Requester, NEW e \in Email, NEW c \in Commitment, Request(r, e, c)
      PROVE UNCHANGED file
  BY <1>7 DEF Request
<1>8. ASSUME NEW v \in Verifier, Issue(v) PROVE UNCHANGED file
  BY <1>8 DEF Issue
<1>9. ASSUME NEW v \in Verifier, NEW i \in Id, NEW right \in BOOLEAN, Verify(v, i, right)
      PROVE UNCHANGED file
  BY <1>9 DEF Verify
<1>10. Tick => UNCHANGED file
  BY DEF Tick
<1>11. ASSUME NEW r \in Requester, StoreFails(r) PROVE UNCHANGED file
  BY <1>11 DEF StoreFails
<1> QED
  BY <1>2, <1>3, <1>4, <1>5, <1>6, <1>7, <1>8, <1>9, <1>10, <1>11 DEF Next

(* The crash, or the failure, that tears a file cut off the counting of a
   wrong candidate in that file, and touched no other. *)
LEMMA FaultTearsOne ==
  ASSUME IInv, NEW id \in Id, file[id] # Torn, file'[id] = Torn,
         Crash \/ \E v \in Verifier : AttemptFails(v)
  PROVE  /\ \E v \in Verifier : Judges(v) /\ ~ verify[v].right /\ verify[v].id = id
         /\ \A other \in Id \ {id} : file'[other] = file[other]
<1> USE OtpAssumption DEF IInv, TypeOK
<1>1. \/ file' = file
      \/ \E r \in Requester : RequestAt(r, "put")
            /\ file' = [file EXCEPT ![request[r].id] = [attempts |-> 0]]
      \/ \E i : file' = Removed(i)
      \/ \E v \in Verifier : /\ Judges(v) /\ ~ verify[v].right
                             /\ \/ file' = Counted(verify[v].id)
                                \/ file' = [file EXCEPT ![verify[v].id] = Torn]
  BY DEF Crash, CrashedFiles, AttemptFails
<1>3. ASSUME NEW r \in Requester, file' = [file EXCEPT ![request[r].id] = [attempts |-> 0]]
      PROVE  FALSE
  <2>1. [attempts |-> 0] # Torn
    BY DEF OtpAssumption
  <2> QED
    BY <1>3, <2>1
<1>4. ASSUME NEW i, file' = Removed(i) PROVE FALSE
  BY <1>4 DEF Removed
<1>5. ASSUME NEW v \in Verifier, Judges(v), file' = Counted(verify[v].id) PROVE FALSE
  <2>1. /\ verify[v].id \in Id /\ file[verify[v].id] \in File
        /\ file[verify[v].id].attempts + 1 \in 0 .. MaxAttempts
    BY <1>5 DEF Judges, Readable, VerifyAt, VerifyState, File, Idle
  <2>2. [file[verify[v].id] EXCEPT !.attempts = @ + 1] \in [attempts : 0 .. MaxAttempts]
    BY <2>1 DEF File
  <2> QED
    BY <1>5, <2>1, <2>2 DEF Counted
<1>6. ASSUME NEW v \in Verifier, Judges(v), ~ verify[v].right,
             file' = [file EXCEPT ![verify[v].id] = Torn]
      PROVE  verify[v].id = id /\ \A other \in Id \ {id} : file'[other] = file[other]
  BY <1>6
<1> QED
  BY <1>1, <1>3, <1>4, <1>5, <1>6

(* "Restarting the single issuer process does not invalidate an in-progress
   challenge", but for the one that otp_restart shows: however many challenges
   are in progress, a crash, or a write that fails, tears at most the one in
   which a wrong candidate is being counted.  (A removal that is under way may
   also be done but not answered; that ends a challenge the removal was meant
   to end.) *)
THEOREM CountingTearsOne == Spec => OnlyCountingIsTorn
<1>1. IInv /\ [Next]_vars =>
        [\A id \in Id : file[id] # Torn /\ file'[id] = Torn =>
           /\ \E v \in Verifier : Judges(v) /\ ~ verify[v].right /\ verify[v].id = id
           /\ \A other \in Id \ {id} : file'[other] = file[other]]_vars
  BY TornByFault, FaultTearsOne
<1> QED
  BY <1>1, Invariance, PTL DEF Spec, OnlyCountingIsTorn

------------------------------------------------------------------------------
(* The challenges implement one-time challenges. *)

(* The request that drew the challenge has not put its file yet. *)
Unput(id) == \E r \in Requester : RequestAt(r, "put") /\ request[r].id = id

(* The phases, one by one. *)
LEMMA Phases ==
  ASSUME NEW id \in Id
  PROVE  /\ Readable(id) => PhaseOf(id) = "open"
         /\ ~ Readable(id) /\ (owner[id] = None \/ Unput(id)) => PhaseOf(id) = "new"
         /\ ~ Readable(id) /\ owner[id] # None /\ ~ Unput(id) => PhaseOf(id) = "closed"
  BY DEF PhaseOf, Unput

(* The phases after a step. *)
LEMMA PhasesNext ==
  ASSUME NEW id \in Id
  PROVE  /\ Readable(id)' => PhaseOf(id)' = "open"
         /\ ~ Readable(id)' /\ (owner'[id] = None \/ Unput(id)') => PhaseOf(id)' = "new"
         /\ ~ Readable(id)' /\ owner'[id] # None /\ ~ Unput(id)' => PhaseOf(id)' = "closed"
  BY DEF PhaseOf, Unput

(* A challenge whose file, request and history a step leaves alone does not
   move; one that can no longer be read is closed. *)
LEMMA Moves ==
  ASSUME NEW id \in Id,
         judged'[id] = judged[id], id \in verified' <=> id \in verified,
         owner'[id] = owner[id],
         Readable(id) \/ Unput(id) => owner[id] # None,
         \/ (Readable(id)' <=> Readable(id)) /\ (Unput(id)' <=> Unput(id))
         \/ ~ Readable(id)' /\ ~ Unput(id)'
         \/ ~ Readable(id) /\ Unput(id) /\ Readable(id)'
  PROVE  Challenge(id)!Next \/ UNCHANGED Challenge(id)!vars
<1>1. CASE PhaseOf(id)' = PhaseOf(id)
  BY <1>1 DEF Challenge!vars
<1>2. CASE PhaseOf(id)' = "closed"
  BY <1>2 DEF Challenge!Next, Challenge!Close
<1>3. CASE PhaseOf(id) = "new" /\ PhaseOf(id)' = "open"
  BY <1>3 DEF Challenge!Next, Challenge!Open
<1> QED
  BY <1>1, <1>2, <1>3, Phases, PhasesNext

(* A challenge that can be read or is about to be put was drawn, and not both. *)
LEMMA DrawnPhases ==
  ASSUME IInv, NEW id \in Id
  PROVE  /\ Readable(id) \/ Unput(id) => owner[id] # None
         /\ ~ (Readable(id) /\ Unput(id))
<1> USE DEF IInv
<1>1. Readable(id) => owner[id] # None
  BY DEF Drawn, Readable
<1>2. Unput(id) => owner[id] # None /\ ~ Readable(id)
  BY DEF Drawn, Fresh, Unput, Waiting, RequestAt, Readable
<1> QED
  BY <1>1, <1>2

(* The steps of the request that created the challenge. *)
LEMMA RequestsMoveOnce ==
  ASSUME IInv, NEW id \in Id, NEW r \in Requester,
         \/ \E e \in Email, c \in Commitment : Request(r, e, c)
         \/ Put(r) \/ Sent(r) \/ SendFailed(r) \/ Delete(r) \/ StoreFails(r)
  PROVE  Challenge(id)!Next \/ UNCHANGED Challenge(id)!vars
<1>0. /\ TypeOK /\ Drawn /\ Fresh
      /\ Readable(id) \/ Unput(id) => owner[id] # None
      /\ ~ (Readable(id) /\ Unput(id))
  BY DrawnPhases DEF IInv
<1>1. request \in [Requester -> RequestState]
  BY <1>0 DEF TypeOK
<1>2. \A s \in Requester \ {r} : request'[s] = request[s]
  BY <1>1 DEF Request, Draw, Put, Sent, SendFailed, Delete, StoreFails, RequestTo, RequestEnds
<1>3. UNCHANGED <<judged, verified>>
  BY DEF Request, Put, Sent, SendFailed, Delete, StoreFails, history
<1>4. ASSUME NEW e \in Email, NEW c \in Commitment, Request(r, e, c)
      PROVE  Challenge(id)!Next \/ UNCHANGED Challenge(id)!vars
  <2>1. PICK i \in Id :
          /\ owner[i] = None
          /\ owner' = [owner EXCEPT ![i] = [email |-> e, commitment |-> c, at |-> now]]
          /\ request' = [request EXCEPT ![r] = [pc |-> "put", id |-> i]]
    BY <1>4 DEF Request, Draw
  <2>2. request'[r] = [pc |-> "put", id |-> i] /\ ~ RequestAt(r, "put") /\ UNCHANGED file
    BY <1>1, <1>4, <2>1 DEF Request, Draw, RequestAt
  <2>3. CASE i = id
    <3>1. ~ Readable(id) /\ ~ Readable(id)'
      BY <1>0, <2>1, <2>2, <2>3 DEF Readable
    <3>2. Unput(id)'
      BY <2>2, <2>3 DEF Unput, RequestAt
    <3>3. PhaseOf(id) = "new" /\ PhaseOf(id)' = "new"
      BY <2>1, <2>3, <3>1, <3>2, Phases, PhasesNext
    <3> QED
      BY <1>3, <3>3 DEF Challenge!vars
  <2>4. CASE i # id
    <3>1. owner'[id] = owner[id] /\ (Readable(id)' <=> Readable(id))
      BY <1>0, <2>1, <2>2, <2>4 DEF TypeOK, Readable
    <3>2. Unput(id)' <=> Unput(id)
      BY <1>2, <2>2, <2>4 DEF Unput, RequestAt
    <3> QED
      BY <1>0, <1>3, <3>1, <3>2, Moves
  <2> QED
    BY <2>3, <2>4
<1>5. CASE Put(r)
  <2>1. /\ RequestAt(r, "put") /\ request'[r].pc = "send" /\ owner' = owner
        /\ file' = [file EXCEPT ![request[r].id] = [attempts |-> 0]]
    BY <1>1, <1>5 DEF Put, RequestAt, RequestTo, RequestState, Idle
  <2>2. CASE request[r].id = id
    <3>1. Unput(id) /\ ~ Readable(id)
      BY <1>0, <2>1, <2>2 DEF Unput
    <3>2. file'[id] = [attempts |-> 0]
      BY <1>0, <2>1, <2>2 DEF TypeOK
    <3>3. file'[id] \in File
      BY <3>2, OtpAssumption DEF File
    <3>4. Readable(id)'
      BY <3>3, FilesDiffer DEF Readable
    <3> QED
      BY <1>0, <1>3, <2>1, <3>1, <3>4, Moves
  <2>3. CASE request[r].id # id
    <3>1. Readable(id)' <=> Readable(id)
      BY <1>0, <2>1, <2>3 DEF TypeOK, Readable
    <3>2. Unput(id)' <=> Unput(id)
      BY <1>2, <2>1, <2>3 DEF Unput, RequestAt
    <3> QED
      BY <1>0, <1>3, <2>1, <3>1, <3>2, Moves
  <2> QED
    BY <2>2, <2>3
<1>6. CASE Sent(r) \/ SendFailed(r)
  <2>1. /\ UNCHANGED <<file, owner>> /\ ~ RequestAt(r, "put") /\ ~ RequestAt(r, "put")'
    BY <1>1, <1>6 DEF Sent, SendFailed, RequestAt, RequestTo, RequestEnds, RequestState, Idle,
                      store
  <2>2. (Readable(id)' <=> Readable(id)) /\ (Unput(id)' <=> Unput(id))
    BY <1>2, <2>1 DEF Readable, Unput, RequestAt
  <2> QED
    BY <1>0, <1>3, <2>1, <2>2, Moves
<1>7. CASE Delete(r)
  <2>1. /\ RequestAt(r, "delete") /\ ~ RequestAt(r, "put")' /\ owner' = owner
        /\ file' = [file EXCEPT ![request[r].id] = None]
    BY <1>1, <1>7 DEF Delete, RequestAt, RequestEnds, Idle
  <2>2. CASE request[r].id = id
    <3>1. ~ Readable(id)'
      BY <1>0, <2>1, <2>2 DEF TypeOK, Readable
    <3>2. \A s \in Requester : RequestAt(s, "put") /\ request[s].id = id => s = r
      BY <1>0, <2>1, <2>2 DEF Fresh, Waiting, RequestAt
    <3>3. ~ Unput(id)'
      BY <1>2, <2>1, <3>2 DEF Unput, RequestAt
    <3> QED
      BY <1>0, <1>3, <2>1, <3>1, <3>3, Moves
  <2>3. CASE request[r].id # id
    <3>1. Readable(id)' <=> Readable(id)
      BY <1>0, <2>1, <2>3 DEF TypeOK, Readable
    <3>2. Unput(id)' <=> Unput(id)
      BY <1>2, <2>1 DEF Unput, RequestAt
    <3> QED
      BY <1>0, <1>3, <2>1, <3>1, <3>2, Moves
  <2> QED
    BY <2>2, <2>3
<1>8. CASE StoreFails(r)
  <2>1. /\ UNCHANGED <<file, owner>> /\ ~ RequestAt(r, "put")'
        /\ Readable(id)' <=> Readable(id)
    BY <1>1, <1>8 DEF StoreFails, RequestAt, RequestEnds, Idle, store, Readable
  <2>2. CASE RequestAt(r, "put") /\ request[r].id = id
    <3>1. \A q \in Requester : RequestAt(q, "put") /\ request[q].id = id => q = r
      BY <1>0, <2>2 DEF Fresh, Waiting, RequestAt
    <3>2. ~ Unput(id)' /\ ~ Readable(id)
      BY <1>0, <1>2, <2>1, <2>2, <3>1 DEF Unput, RequestAt
    <3> QED
      BY <1>0, <1>3, <2>1, <3>2, Moves
  <2>3. CASE ~ (RequestAt(r, "put") /\ request[r].id = id)
    <3>1. Unput(id)' <=> Unput(id)
      BY <1>2, <2>1, <2>3 DEF Unput, RequestAt
    <3> QED
      BY <1>0, <1>3, <2>1, <3>1, Moves
  <2> QED
    BY <2>2, <2>3
<1> QED
  BY <1>4, <1>5, <1>6, <1>7, <1>8

(* The steps of the handlers that judge candidates. *)
LEMMA AttemptsMoveOnce ==
  ASSUME IInv, NEW id \in Id, NEW v \in Verifier, Attempt(v)
  PROVE  Challenge(id)!Next \/ UNCHANGED Challenge(id)!vars
<1>0. /\ TypeOK /\ CountedInFile
      /\ Readable(id) \/ Unput(id) => owner[id] # None
      /\ ~ (Readable(id) /\ Unput(id))
  BY DrawnPhases DEF IInv
<1>1. UNCHANGED <<owner, request>> /\ (Unput(id)' <=> Unput(id))
  BY DEF Attempt, Unput, RequestAt
<1> DEFINE i == verify[v].id
<1>2. i \in Id
  BY <1>0 DEF Attempt, AttemptRefused, AttemptWrong, AttemptRight, Judges, VerifyAt, TypeOK,
              VerifyState, Idle
<1>3. ASSUME UNCHANGED <<judged[id], id \in verified>>, file'[id] = file[id]
      PROVE  Challenge(id)!Next \/ UNCHANGED Challenge(id)!vars
  BY <1>0, <1>1, <1>3, Moves DEF Readable
<1>4. CASE AttemptRefused(v)
  <2>1. UNCHANGED <<judged, verified>> /\ file' = [file EXCEPT ![i] = None]
    BY <1>4 DEF AttemptRefused, Removed, history
  <2>2. CASE id = i
    <3>1. ~ Readable(id)'
      BY <1>0, <2>1, <2>2 DEF TypeOK, Readable
    <3> QED
      BY <1>0, <1>1, <2>1, <3>1, Moves
  <2> QED
    BY <1>0, <1>3, <2>1, <2>2 DEF TypeOK
<1>5. CASE AttemptWrong(v)
  <2>1. /\ Readable(i) /\ file[i].attempts + 1 <= MaxAttempts
        /\ file' = Counted(i) /\ judged' = [judged EXCEPT ![i] = @ + 1] /\ verified' = verified
    BY <1>5 DEF AttemptWrong, Answered, Judges
  <2>2. CASE id = i
    <3>1. file[id] \in File /\ judged[id] \in Nat /\ judged[id] <= file[id].attempts
      BY <1>0, <2>1, <2>2 DEF CountedInFile, TypeOK, Readable
    <3>2. file[id].attempts \in Nat /\ judged[id] < MaxAttempts
      BY <2>1, <2>2, <3>1, OtpAssumption DEF File
    <3>3. file'[id] = [file[id] EXCEPT !.attempts = @ + 1]
      BY <1>0, <2>1, <2>2 DEF Counted, TypeOK
    <3>4. file'[id] \in File
      BY <2>1, <2>2, <3>1, <3>2, <3>3, OtpAssumption DEF File
    <3>5. Readable(id)'
      BY <3>4, FilesDiffer DEF Readable
    <3>6. PhaseOf(id) = "open" /\ PhaseOf(id)' = "open"
      BY <2>1, <2>2, <3>5, Phases, PhasesNext
    <3>7. judged'[id] = judged[id] + 1
      BY <1>0, <2>1, <2>2 DEF TypeOK
    <3> QED
      BY <2>1, <3>2, <3>6, <3>7 DEF Challenge!Next, Challenge!Guess
  <2> QED
    BY <1>0, <1>2, <1>3, <2>1, <2>2 DEF TypeOK, Counted
<1>6. CASE AttemptRight(v)
  <2>1. /\ Readable(i) /\ file' = [file EXCEPT ![i] = None]
        /\ judged' = judged /\ verified' = verified \cup {i}
    BY <1>6 DEF AttemptRight, Judges, Removed
  <2>2. CASE id = i
    <3>1. ~ Readable(id)' /\ owner'[id] # None /\ ~ Unput(id)'
      BY <1>0, <1>1, <2>1, <2>2 DEF TypeOK, Readable
    <3>2. PhaseOf(id) = "open" /\ PhaseOf(id)' = "closed"
      BY <2>1, <2>2, <3>1, Phases, PhasesNext
    <3> QED
      BY <2>1, <2>2, <3>2 DEF Challenge!Next, Challenge!Accept
  <2> QED
    BY <1>0, <1>2, <1>3, <2>1, <2>2 DEF TypeOK
<1> QED
  BY <1>4, <1>5, <1>6 DEF Attempt

(* A failed file operation closes a challenge, or leaves it as it is. *)
LEMMA FailuresMoveOnce ==
  ASSUME IInv, NEW id \in Id, NEW v \in Verifier, AttemptFails(v)
  PROVE  Challenge(id)!Next \/ UNCHANGED Challenge(id)!vars
<1>0. /\ TypeOK
      /\ Readable(id) \/ Unput(id) => owner[id] # None
      /\ ~ (Readable(id) /\ Unput(id))
  BY DrawnPhases DEF IInv
<1>1. UNCHANGED <<judged, verified, owner, request>> /\ (Unput(id)' <=> Unput(id))
  BY DEF AttemptFails, history, Unput, RequestAt
<1>2. \/ file'[id] = file[id]
      \/ file'[id] \in {None, Torn} /\ (file'[id] = None \/ Readable(id))
      \/ file'[id] \in File /\ Readable(id)
  BY <1>0, FailureLeaves
<1>3. \/ Readable(id)' <=> Readable(id)
      \/ ~ Readable(id)' /\ Readable(id)
  BY <1>2, FilesDiffer DEF Readable
<1> QED
  BY <1>0, <1>1, <1>3, Moves

(* What a crash does to a challenge is to close it, or to leave it as it is;
   unless its file was just put. *)
LEMMA CrashMovesOnce ==
  ASSUME IInv, NEW id \in Id, Crash
  PROVE  Challenge(id)!Next \/ UNCHANGED Challenge(id)!vars
<1>0. /\ TypeOK
      /\ Readable(id) \/ Unput(id) => owner[id] # None
      /\ ~ (Readable(id) /\ Unput(id))
  BY DrawnPhases DEF IInv
<1>1. UNCHANGED <<judged, verified, owner>> /\ file' \in CrashedFiles
  BY DEF Crash, history
<1>2. ~ Unput(id)'
  BY DEF Crash, Unput, RequestAt, Idle
<1>3. \/ file'[id] = file[id]
      \/ file'[id] \in {None, Torn}
      \/ file'[id] \in File /\ Unput(id)
      \/ file'[id] \in File /\ Readable(id)
  BY <1>0, <1>1, CrashLeaves DEF Unput
<1>4. \/ ~ Readable(id)'
      \/ Readable(id)' /\ (Readable(id) \/ Unput(id))
  BY <1>3 DEF Readable
<1> QED
  BY <1>0, <1>1, <1>2, <1>4, Moves

(* Every step moves every challenge as a one-time challenge moves, or not. *)
LEMMA ChallengeStep ==
  ASSUME IInv, [Next]_vars, NEW id \in Id
  PROVE  Challenge(id)!Next \/ UNCHANGED Challenge(id)!vars
<1>1. CASE UNCHANGED <<file, owner, request, judged, verified>>
  <2>1. UNCHANGED <<PhaseOf(id), judged[id], id \in verified>>
    BY <1>1 DEF PhaseOf, Readable, RequestAt
  <2> QED
    BY <2>1 DEF Challenge!vars
<1>2. ASSUME NEW v \in Verifier, NEW i \in Id, NEW right \in BOOLEAN, Verify(v, i, right)
      PROVE  UNCHANGED <<file, owner, request, judged, verified>>
  BY <1>2 DEF Verify, store, history
<1>3. ASSUME NEW v \in Verifier, Issue(v)
      PROVE  UNCHANGED <<file, owner, request, judged, verified>>
  BY <1>3 DEF Issue, store, history
<1>4. Tick => UNCHANGED <<file, owner, request, judged, verified>>
  BY DEF Tick, store, history, handlers
<1>5. UNCHANGED vars => UNCHANGED <<file, owner, request, judged, verified>>
  BY DEF vars, store, history, handlers
<1> QED
  BY <1>1, <1>2, <1>3, <1>4, <1>5, RequestsMoveOnce, AttemptsMoveOnce, FailuresMoveOnce,
     CrashMovesOnce
  DEF Next

(* At the start every challenge is new. *)
LEMMA ChallengeInit ==
  ASSUME Init, NEW id \in Id
  PROVE  Challenge(id)!Init
<1>1. ~ Readable(id) /\ owner[id] = None
  BY DEF Init, Readable
<1>2. PhaseOf(id) = "new"
  BY <1>1, Phases
<1> QED
  BY <1>2 DEF Init, Challenge!Init

(* Each challenge of the issuer implements a one-time challenge: opened once,
   by the request that drew it; accepted once, while open; closed for good
   after that, after its attempts, its expiry, its failed mail or a torn
   file; whatever the other challenges and handlers do, and over crashes. *)
THEOREM ChallengesImplementOneTime ==
  ASSUME NEW id \in Id
  PROVE  Spec => Challenge(id)!Spec
<1>1. Init => Challenge(id)!Init
  BY ChallengeInit
<1>2. IInv /\ [Next]_vars => [Challenge(id)!Next]_(Challenge(id)!vars)
  BY ChallengeStep
<1> QED
  BY <1>1, <1>2, Invariance, PTL DEF Spec, Challenge!Spec

(* All of them at once, in the form that the run otp_concurrent checks. *)
THEOREM IssuerKeepsChallengesOneTime == Spec => ChallengesAreOneTime
<1>1. Init => \A id \in Id : Challenge(id)!Init
  BY ChallengeInit
<1>2. IInv /\ [Next]_vars =>
        [\A id \in Id : Challenge(id)!Next \/ UNCHANGED Challenge(id)!vars]_vars
  BY ChallengeStep
<1> QED
  BY <1>1, <1>2, Invariance, PTL DEF Spec, ChallengesAreOneTime
==============================================================================
