------------------------ MODULE SlidingWindow_proofs ------------------------
(***************************************************************************)
(* The window limit, for every number of callers and keys, every limit and *)
(* every length of the window.                                             *)
(***************************************************************************)
EXTENDS SlidingWindow, FiniteSetTheorems, TLAPS

Reading(c) == operation[c].phase = "read"

(* An operation that is under way is for one key. *)
OneKey == \A c \in Callers : operation[c].phase # "idle" => \E k \in Keys : operation[c].key = {k}

(* Only the head of the queue reads, so that nobody writes between its read
   and its write. *)
ReadsAtHead == \A c \in Callers : Reading(c) => pending # <<>> /\ Head(pending) = c

(* What it read is still so, and its clock is one the process has seen. *)
ReadIsCurrent ==
  \A c \in Callers : Reading(c) => operation[c].seen = state /\ operation[c].current <= now

(* An event of the file's history that the file no longer keeps has left the
   window, of the present and of the operation under way. *)
Left(e, t) == granted[e].at + windowMs <= t
ForgottenHaveLeft ==
  \A e \in 1 .. Len(granted) :
    e \notin state[granted[e].key] =>
      /\ Left(e, now)
      /\ \A c \in Callers : Reading(c) => Left(e, operation[c].current)

LimiterInv ==
  /\ LimiterTypeOK
  /\ OneKey
  /\ ReadsAtHead
  /\ ReadIsCurrent
  /\ ForgottenHaveLeft
  /\ WindowLimit

(* Initially the invariant holds. *)
LEMMA InitLimiterInv == LimiterInit => LimiterInv
<1> SUFFICES ASSUME LimiterInit PROVE LimiterInv
  OBVIOUS
<1>1. LimiterTypeOK
  BY LimiterAssumption DEF LimiterInit, LimiterTypeOK, LimiterFiles, NoEvents, Operations,
       NoOperation
<1>2. OneKey /\ ReadsAtHead /\ ReadIsCurrent /\ ForgottenHaveLeft
  BY DEF LimiterInit, OneKey, ReadsAtHead, ReadIsCurrent, ForgottenHaveLeft, Reading,
       NoOperation
<1>3. WindowLimit
  <2>1. \A k \in Keys, t \in 0 .. MaxTime : EventsIn(k, t) = {}
    BY DEF EventsIn, LimiterInit
  <2>2. Cardinality({}) = 0
    BY FS_EmptySet
  <2> QED
    BY <2>1, <2>2, LimiterAssumption DEF WindowLimit
<1> QED
  BY <1>1, <1>2, <1>3 DEF LimiterInv

(* The key of an operation that is under way. *)
LEMMA KeyOfOperation ==
  ASSUME NEW c \in Callers, OneKey, operation[c].phase # "idle"
  PROVE  Key(c) \in Keys /\ operation[c].key = {Key(c)}
<1>1. \E k \in Keys : operation[c].key = {k}
  BY DEF OneKey
<1> QED
  BY <1>1 DEF Key

(* Nothing that matters to the limit changes unless an event is granted. *)
LEMMA SameEvents ==
  ASSUME UNCHANGED granted, WindowLimit
  PROVE  WindowLimit'
<1>1. \A k \in Keys, t \in 0 .. MaxTime : EventsIn(k, t)' = EventsIn(k, t)
  BY DEF EventsIn
<1> QED
  BY <1>1 DEF WindowLimit

(* Each granted event has a key and a timestamp. *)
LEMMA GrantedEvents ==
  ASSUME LimiterTypeOK
  PROVE  \A e \in 1 .. Len(granted) : granted[e] \in [key : Keys, at : 0 .. MaxTime]
<1> DEFINE Event == [key : Keys, at : 0 .. MaxTime]
<1>1. granted \in Seq(Event)
  BY DEF LimiterTypeOK
<1> HIDE DEF Event
<1>2. \A e \in 1 .. Len(granted) : granted[e] \in Event
  BY <1>1
<1> QED
  BY <1>2 DEF Event

(* A granted event is the last of the history. *)
LEMMA GrantedAppends ==
  ASSUME LimiterTypeOK, NEW c \in Callers, Granted(c),
         Key(c) \in Keys, operation[c].current \in 0 .. MaxTime
  PROVE  /\ granted' \in Seq([key : Keys, at : 0 .. MaxTime])
         /\ Len(granted') = Len(granted) + 1
         /\ granted'[Len(granted) + 1] = [key |-> Key(c), at |-> operation[c].current]
         /\ \A e \in 1 .. Len(granted) :
              granted'[e] = granted[e] /\ granted[e] \in [key : Keys, at : 0 .. MaxTime]
<1> DEFINE Event == [key : Keys, at : 0 .. MaxTime]
           event == [key |-> Key(c), at |-> operation[c].current]
<1>1. event \in Event
  OBVIOUS
<1>2. granted \in Seq(Event) /\ granted' = Append(granted, event)
  BY DEF LimiterTypeOK, Granted
<1> HIDE DEF Event, event
<1>3. /\ granted' \in Seq(Event)
      /\ Len(granted') = Len(granted) + 1
      /\ granted'[Len(granted) + 1] = event
      /\ \A e \in 1 .. Len(granted) : granted'[e] = granted[e] /\ granted[e] \in Event
  BY <1>1, <1>2
<1> QED
  BY <1>3 DEF Event, event

(* The event that is granted and those it shares a window with. *)
LEMMA GrantedKeepsLimit ==
  ASSUME LimiterInv, NEW c \in Callers, Granted(c)
  PROVE  WindowLimit'
<1> SUFFICES ASSUME NEW k \in Keys, NEW t \in 0 .. MaxTime
             PROVE  Cardinality(EventsIn(k, t)') <= maxEvents
  BY DEF WindowLimit
<1> USE LimiterAssumption
<1> DEFINE new == Len(granted) + 1
           current == operation[c].current
<1>1. /\ Key(c) \in Keys
      /\ current \in 0 .. MaxTime /\ operation[c].seen = state
      /\ Len(granted) \in Nat
  BY KeyOfOperation DEF LimiterInv, LimiterTypeOK, Operations, Granted, ReadIsCurrent, Reading
<1>2. /\ Len(granted') = new
      /\ granted'[new] = [key |-> Key(c), at |-> current]
      /\ \A e \in 1 .. Len(granted) : granted'[e] = granted[e] /\ granted[e] \in [key : Keys, at : 0 .. MaxTime]
  BY <1>1, GrantedAppends DEF LimiterInv
<1>3. EventsIn(k, t)' \subseteq EventsIn(k, t) \cup {new}
  BY <1>1, <1>2 DEF EventsIn
<1>4. IsFiniteSet(EventsIn(k, t)) /\ IsFiniteSet(EventsIn(k, t)')
  <2>1. IsFiniteSet(1 .. Len(granted)) /\ IsFiniteSet(1 .. new)
    BY <1>1, FS_Interval
  <2> QED
    BY <1>2, <2>1, FS_Subset DEF EventsIn
<1>5. CASE new \notin EventsIn(k, t)'
  <2>1. EventsIn(k, t)' \subseteq EventsIn(k, t)
    BY <1>3, <1>5
  <2>2. Cardinality(EventsIn(k, t)') <= Cardinality(EventsIn(k, t))
    BY <1>4, <2>1, FS_Subset
  <2>3. Cardinality(EventsIn(k, t)) <= maxEvents
    BY DEF LimiterInv, WindowLimit
  <2> QED
    BY <1>4, <2>2, <2>3, FS_CardinalityType
<1>6. CASE new \in EventsIn(k, t)'
  <2>1. k = Key(c) /\ current <= t
    BY <1>2, <1>6 DEF EventsIn
  <2>2. EventsIn(k, t) \subseteq InWindow(c, k)
    <3> SUFFICES ASSUME NEW e \in EventsIn(k, t) PROVE e \in InWindow(c, k)
      OBVIOUS
    <3>1. /\ e \in 1 .. Len(granted) /\ granted[e].key = k
          /\ granted[e].at + windowMs > t
          /\ granted[e].at \in 0 .. MaxTime
      BY <1>2 DEF EventsIn
    <3>2. granted[e].at + windowMs > current
      BY <1>1, <2>1, <3>1
    <3>3. e \in state[k]
      BY <1>1, <3>1, <3>2 DEF LimiterInv, ForgottenHaveLeft, Left, Reading, Granted
    <3> QED
      BY <1>1, <3>2, <3>3 DEF InWindow, Recent
  <2>3. IsFiniteSet(InWindow(c, k))
    <3>1. InWindow(c, k) \subseteq 1 .. MaxGrants
      BY <1>1 DEF InWindow, Recent, LimiterInv, LimiterTypeOK, LimiterFiles, Events
    <3>2. IsFiniteSet(1 .. MaxGrants)
      BY FS_Interval
    <3> QED
      BY <3>1, <3>2, FS_Subset
  <2>4. Cardinality(EventsIn(k, t)) < maxEvents
    <3>1. Cardinality(EventsIn(k, t)) <= Cardinality(InWindow(c, k))
      BY <2>2, <2>3, FS_Subset
    <3>2. Cardinality(InWindow(c, k)) < maxEvents
      BY <2>1 DEF Granted
    <3>3. Cardinality(EventsIn(k, t)) \in Nat /\ Cardinality(InWindow(c, k)) \in Nat
      BY <1>4, <2>3, FS_CardinalityType
    <3> QED
      BY <3>1, <3>2, <3>3
  <2>5. Cardinality(EventsIn(k, t) \cup {new}) <= Cardinality(EventsIn(k, t)) + 1
    <3>1. Cardinality(EventsIn(k, t) \cup {new})
            = IF new \in EventsIn(k, t) THEN Cardinality(EventsIn(k, t))
                                        ELSE Cardinality(EventsIn(k, t)) + 1
      BY <1>4, FS_AddElement, Zenon
    <3>2. Cardinality(EventsIn(k, t)) \in Nat
      BY <1>4, FS_CardinalityType
    <3> QED
      BY <3>1, <3>2
  <2>6. Cardinality(EventsIn(k, t)') <= Cardinality(EventsIn(k, t) \cup {new})
    <3>1. IsFiniteSet(EventsIn(k, t) \cup {new})
      BY <1>4, FS_AddElement
    <3> QED
      BY <1>3, <3>1, FS_Subset
  <2>7. /\ Cardinality(EventsIn(k, t)) \in Nat
        /\ Cardinality(EventsIn(k, t)') \in Nat
        /\ Cardinality(EventsIn(k, t) \cup {new}) \in Nat
    BY <1>4, FS_AddElement, FS_CardinalityType
  <2> QED
    BY <2>4, <2>5, <2>6, <2>7
<1> QED
  BY <1>5, <1>6

(* The rest of the invariant, for the operation that is granted. *)
LEMMA GrantedKeepsInv ==
  ASSUME LimiterInv, NEW c \in Callers, Granted(c)
  PROVE  LimiterInv'
<1> USE LimiterAssumption DEF LimiterInv
<1> DEFINE new == Len(granted) + 1
<1>1. /\ Key(c) \in Keys /\ operation[c].current \in 0 .. MaxTime
      /\ operation[c].seen = state /\ operation[c].current <= now
      /\ Len(granted) \in Nat /\ new \in Events
      /\ pending # <<>> /\ Head(pending) = c
      /\ now \in Nat
  BY KeyOfOperation
     DEF LimiterTypeOK, Operations, Granted, ReadIsCurrent, ReadsAtHead, Reading, Events
<1>2. /\ granted' \in Seq([key : Keys, at : 0 .. MaxTime])
      /\ Len(granted') = new
      /\ granted'[new] = [key |-> Key(c), at |-> operation[c].current]
      /\ \A e \in 1 .. Len(granted) : granted'[e] = granted[e] /\ granted[e] \in [key : Keys, at : 0 .. MaxTime]
  BY <1>1, GrantedAppends
<1>3. /\ state' \in LimiterFiles
      /\ new \in state'[Key(c)]
      /\ \A k \in Keys : InWindow(c, k) \subseteq state'[k]
  BY <1>1, <1>2 DEF Granted, InWindow, Recent, LimiterTypeOK, LimiterFiles
<1>4. pending' \in Seq(Callers) /\ operation' \in [Callers -> Operations]
      /\ \A d \in Callers : operation'[d] = IF d = c THEN NoOperation ELSE operation[d]
  BY <1>1 DEF Granted, Done, LimiterTypeOK, Operations, NoOperation, LimiterFiles, NoEvents
<1>5. LimiterTypeOK'
  BY <1>1, <1>2, <1>3, <1>4 DEF Granted, LimiterTypeOK, Events
<1>6. \A d \in Callers : ~ Reading(d)'
  BY <1>1, <1>4 DEF ReadsAtHead, Reading, NoOperation
<1>7. OneKey'
  BY <1>4 DEF OneKey, NoOperation
<1>8. ForgottenHaveLeft'
  <2> SUFFICES ASSUME NEW e \in 1 .. Len(granted'), e \notin state'[granted'[e].key]
               PROVE  Left(e, now)'
    BY <1>6 DEF ForgottenHaveLeft
  <2>1. e \in 1 .. Len(granted)
    BY <1>1, <1>2, <1>3
  <2>2. granted'[e] = granted[e] /\ granted[e].key \in Keys /\ granted[e].at \in Nat
    BY <1>2, <2>1
  <2>3. e \notin InWindow(c, granted[e].key)
    BY <1>3, <2>2
  <2>4. CASE e \notin state[granted[e].key]
    BY <2>1, <2>2, <2>4 DEF ForgottenHaveLeft, Left, Granted
  <2>5. CASE e \in state[granted[e].key]
    BY <1>1, <2>2, <2>3, <2>5 DEF InWindow, Recent, Left, Granted
  <2> QED
    BY <2>4, <2>5
<1> QED
  BY <1>5, <1>6, <1>7, <1>8, GrantedKeepsLimit DEF ReadsAtHead, ReadIsCurrent

(* An operation ends without an event. *)
LEMMA DoneKeepsInv ==
  ASSUME LimiterInv, NEW c \in Callers, Reading(c), Done(c), UNCHANGED <<now, state, granted>>
  PROVE  LimiterInv'
<1> USE DEF LimiterInv
<1>1. pending # <<>> /\ Head(pending) = c
  BY DEF ReadsAtHead
<1>2. pending' \in Seq(Callers) /\ operation' \in [Callers -> Operations]
      /\ \A d \in Callers : operation'[d] = IF d = c THEN NoOperation ELSE operation[d]
  BY <1>1, LimiterAssumption DEF Done, LimiterTypeOK, Operations, NoOperation, LimiterFiles,
       NoEvents
<1>3. LimiterTypeOK'
  BY <1>2 DEF LimiterTypeOK
<1>4. \A d \in Callers : ~ Reading(d)'
  BY <1>1, <1>2 DEF ReadsAtHead, Reading, NoOperation
<1>5. OneKey'
  BY <1>2 DEF OneKey, NoOperation
<1>6. ForgottenHaveLeft'
  BY <1>4 DEF ForgottenHaveLeft, Left
<1> QED
  BY <1>3, <1>4, <1>5, <1>6, SameEvents DEF ReadsAtHead, ReadIsCurrent

(* Every step, and every stutter, keeps the invariant. *)
LEMMA StepKeepsInv == LimiterInv /\ [LimiterNext]_limiterVars => LimiterInv'
<1> SUFFICES ASSUME LimiterInv, [LimiterNext]_limiterVars PROVE LimiterInv'
  OBVIOUS
<1> USE LimiterAssumption DEF LimiterInv
<1>1. ASSUME NEW c \in Callers, NEW k \in Keys, consume(c, k) PROVE LimiterInv'
  <2>1. /\ pending' = Append(pending, c) /\ pending' \in Seq(Callers)
        /\ pending # <<>> => pending' # <<>> /\ Head(pending') = Head(pending)
    BY <1>1 DEF consume, LimiterTypeOK
  <2>2. /\ operation' \in [Callers -> Operations]
        /\ operation'[c].key = {k} /\ operation'[c].phase = "queued"
        /\ \A d \in Callers \ {c} : operation'[d] = operation[d]
    <3>0. NoOperation \in Operations
      BY LimiterAssumption DEF Operations, NoOperation, LimiterFiles, NoEvents
    <3>1. [NoOperation EXCEPT !.phase = "queued", !.key = {k}] \in Operations
      BY <3>0 DEF Operations
    <3> QED
      BY <1>1, <3>1 DEF consume, LimiterTypeOK, NoOperation
  <2>3. UNCHANGED <<now, state, granted>>
    BY <1>1 DEF consume
  <2>4. LimiterTypeOK' /\ OneKey' /\ ReadsAtHead'
    BY <2>1, <2>2, <2>3 DEF LimiterTypeOK, OneKey, ReadsAtHead, Reading
  <2>5. ReadIsCurrent' /\ ForgottenHaveLeft'
    BY <2>2, <2>3 DEF ReadIsCurrent, ForgottenHaveLeft, Reading, Left
  <2> QED
    BY <2>3, <2>4, <2>5, SameEvents
<1>2. ASSUME NEW c \in Callers, readState(c) PROVE LimiterInv'
  <2>1. /\ operation' \in [Callers -> Operations]
        /\ operation'[c].key = operation[c].key /\ operation[c].phase # "idle"
        /\ operation'[c].current = now /\ operation'[c].seen = state
        /\ \A d \in Callers \ {c} : operation'[d] = operation[d]
    <3>1. operation[c] \in Operations /\ now \in 0 .. MaxTime /\ state \in LimiterFiles
      BY DEF LimiterTypeOK
    <3>2. [operation[c] EXCEPT !.phase = "read", !.current = now, !.seen = state] \in Operations
      BY <3>1 DEF Operations
    <3>3. operation' = [operation EXCEPT ![c] =
            [operation[c] EXCEPT !.phase = "read", !.current = now, !.seen = state]]
      BY <1>2 DEF readState, LimiterTypeOK
    <3> QED
      BY <1>2, <3>1, <3>2, <3>3 DEF readState, Serial, LimiterTypeOK, Operations
  <2>2. UNCHANGED <<now, state, granted, pending>> /\ pending # <<>> /\ Head(pending) = c
    BY <1>2 DEF readState, Serial
  <2>3. LimiterTypeOK' /\ OneKey' /\ ReadsAtHead'
    BY <2>1, <2>2 DEF LimiterTypeOK, OneKey, ReadsAtHead, Reading
  <2>4. ReadIsCurrent'
    BY <2>1, <2>2 DEF ReadIsCurrent, Reading, LimiterTypeOK
  <2>5. ForgottenHaveLeft'
    BY <2>1, <2>2 DEF ForgottenHaveLeft, Reading, Left
  <2> QED
    BY <2>2, <2>3, <2>4, <2>5, SameEvents
<1>3. ASSUME NEW c \in Callers, Refused(c) \/ WriteFails(c) PROVE LimiterInv'
  BY <1>3, DoneKeepsInv DEF Refused, WriteFails, Reading
<1>4. CASE LimiterCrash
  <2>1. \A c \in Callers : operation'[c] = NoOperation
    BY <1>4 DEF LimiterCrash
  <2>2. UNCHANGED <<now, state, granted>> /\ pending' = <<>>
    BY <1>4 DEF LimiterCrash
  <2>3. LimiterTypeOK'
    BY <1>4 DEF LimiterCrash, LimiterTypeOK, Operations, NoOperation, LimiterFiles, NoEvents
  <2>4. OneKey' /\ ReadsAtHead' /\ ReadIsCurrent' /\ ForgottenHaveLeft'
    BY <2>1, <2>2 DEF OneKey, ReadsAtHead, ReadIsCurrent, ForgottenHaveLeft, Reading, Left,
         NoOperation
  <2> QED
    BY <2>2, <2>3, <2>4, SameEvents
<1>5. CASE Tick
  <2>1. now' = now + 1 /\ now' \in 0 .. MaxTime /\ UNCHANGED <<state, granted, pending, operation>>
    BY <1>5 DEF Tick, LimiterTypeOK
  <2>2. LimiterTypeOK' /\ OneKey' /\ ReadsAtHead'
    BY <2>1 DEF LimiterTypeOK, OneKey, ReadsAtHead, Reading
  <2>3. ReadIsCurrent'
    BY <2>1 DEF ReadIsCurrent, Reading, LimiterTypeOK, Operations
  <2>4. ForgottenHaveLeft'
    <3>1. \A e \in 1 .. Len(granted) : granted[e].at \in Nat
      BY GrantedEvents
    <3>2. \A e \in 1 .. Len(granted) : Left(e, now) => Left(e, now + 1)
      BY <3>1, LimiterAssumption DEF Left, LimiterTypeOK
    <3> QED
      BY <2>1, <3>2 DEF ForgottenHaveLeft, Reading, Left
  <2> QED
    BY <2>1, <2>2, <2>3, <2>4, SameEvents
<1>6. CASE UNCHANGED limiterVars
  <2>1. LimiterTypeOK' /\ OneKey' /\ ReadsAtHead' /\ ReadIsCurrent' /\ ForgottenHaveLeft'
    BY <1>6 DEF limiterVars, LimiterTypeOK, OneKey, ReadsAtHead, ReadIsCurrent,
         ForgottenHaveLeft, Reading, Left
  <2> QED
    BY <1>6, <2>1, SameEvents DEF limiterVars
<1> QED
  BY <1>1, <1>2, <1>3, <1>4, <1>5, <1>6, GrantedKeepsInv DEF LimiterNext

(* The limiter's file, queue and operations keep their types: no time is
   recorded that the clock has not reached, no event that was not granted. *)
THEOREM LimiterTypeCorrect == LimiterSpec => []LimiterTypeOK
<1>1. LimiterInv => LimiterTypeOK
  BY DEF LimiterInv
<1> QED
  BY <1>1, InitLimiterInv, StepKeepsInv, PTL DEF LimiterSpec

(* The limit itself (file-rate-limiter.ts consume()): whatever overlaps,
   fails to be written or is cut off by a restart, no window of windowMs holds
   more than maxEvents events of a key. *)
THEOREM NeverOverTheLimit == LimiterSpec => []WindowLimit
<1>1. LimiterInv => WindowLimit
  BY DEF LimiterInv
<1> QED
  BY <1>1, InitLimiterInv, StepKeepsInv, PTL DEF LimiterSpec

-----------------------------------------------------------------------------
(* The limiter is exact: what it counts is what was granted. *)

(* The file holds events of the key they were granted to. *)
FileIsHistory ==
  \A k \in Keys : \A e \in state[k] : e \in 1 .. Len(granted) /\ granted[e].key = k

(* No event is later than the clock, nor than the clock of the operation that
   read the file it is in. *)
ClockIsAhead ==
  \A e \in 1 .. Len(granted) :
    /\ granted[e].at <= now
    /\ \A c \in Callers : Reading(c) => granted[e].at <= operation[c].current

(* Unless an event is granted or a file is read, neither changes. *)
LEMMA QuietStep ==
  ASSUME LimiterInv, FileIsHistory, ClockIsAhead, UNCHANGED <<state, granted>>,
         now' \in {now, now + 1},
         \A c \in Callers : Reading(c)' => Reading(c) /\ operation'[c] = operation[c]
  PROVE  FileIsHistory' /\ ClockIsAhead'
<1>1. \A e \in 1 .. Len(granted) : granted[e].at \in Nat
  BY GrantedEvents DEF LimiterInv
<1>2. now \in Nat
  BY LimiterAssumption DEF LimiterInv, LimiterTypeOK
<1>3. FileIsHistory'
  BY DEF FileIsHistory
<1>4. ClockIsAhead'
  BY <1>1, <1>2 DEF ClockIsAhead, Reading
<1> QED
  BY <1>3, <1>4

(* A grant adds an event of the operation's key and clock to both. *)
LEMMA GrantedStep ==
  ASSUME LimiterInv, FileIsHistory, ClockIsAhead, NEW c \in Callers, Granted(c)
  PROVE  FileIsHistory' /\ ClockIsAhead'
<1> USE LimiterAssumption DEF LimiterInv
<1> DEFINE new == Len(granted) + 1
<1>1. /\ Key(c) \in Keys /\ operation[c].current \in 0 .. MaxTime
      /\ operation[c].seen = state /\ operation[c].current <= now
      /\ Len(granted) \in Nat /\ Head(pending) = c
      /\ now \in Nat /\ now' = now
  BY KeyOfOperation
     DEF LimiterTypeOK, Operations, Granted, ReadIsCurrent, ReadsAtHead, Reading
<1>2. /\ Len(granted') = new
      /\ granted'[new] = [key |-> Key(c), at |-> operation[c].current]
      /\ \A e \in 1 .. Len(granted) : granted'[e] = granted[e]
  BY <1>1, GrantedAppends
<1>3. /\ state \in LimiterFiles
      /\ \A k \in Keys : state'[k] = InWindow(c, k) \cup IF k = Key(c) THEN {new} ELSE {}
  BY <1>2 DEF Granted, LimiterTypeOK
<1>4. \A k \in Keys : InWindow(c, k) \subseteq state[k]
  BY <1>1 DEF InWindow, Recent
<1>5. FileIsHistory'
  <2> SUFFICES ASSUME NEW k \in Keys, NEW e \in state'[k]
               PROVE  e \in 1 .. new /\ granted'[e].key = k
    BY <1>2 DEF FileIsHistory
  <2>1. CASE e \in state[k]
    BY <1>1, <1>2, <2>1 DEF FileIsHistory
  <2>2. CASE k = Key(c) /\ e = new
    BY <1>1, <1>2, <2>2
  <2> QED
    BY <1>3, <1>4, <2>1, <2>2
<1>6. \A d \in Callers : ~ Reading(d)'
  <2>1. \A d \in Callers : operation'[d] = IF d = c THEN NoOperation ELSE operation[d]
    BY DEF Granted, Done, LimiterTypeOK
  <2> QED
    BY <1>1, <2>1 DEF ReadsAtHead, Reading, NoOperation
<1>7. ClockIsAhead'
  <2> SUFFICES ASSUME NEW e \in 1 .. new PROVE granted'[e].at <= now'
    BY <1>2, <1>6 DEF ClockIsAhead
  <2>1. CASE e = new
    BY <1>1, <1>2, <2>1
  <2>2. CASE e \in 1 .. Len(granted)
    BY <1>1, <1>2, <2>2 DEF ClockIsAhead
  <2> QED
    BY <1>1, <2>1, <2>2
<1> QED
  BY <1>5, <1>7

(* Every step keeps the file to the history and the clock ahead of it. *)
LEMMA ExactStep ==
  LimiterInv /\ FileIsHistory /\ ClockIsAhead /\ [LimiterNext]_limiterVars
    => FileIsHistory' /\ ClockIsAhead'
<1> SUFFICES ASSUME LimiterInv, FileIsHistory, ClockIsAhead, [LimiterNext]_limiterVars
             PROVE  FileIsHistory' /\ ClockIsAhead'
  OBVIOUS
<1>0. operation \in [Callers -> Operations]
  BY DEF LimiterInv, LimiterTypeOK
<1>1. ASSUME NEW c \in Callers, NEW k \in Keys, consume(c, k)
      PROVE  FileIsHistory' /\ ClockIsAhead'
  <2>1. \A d \in Callers : Reading(d)' => Reading(d) /\ operation'[d] = operation[d]
    BY <1>0, <1>1 DEF consume, Reading, NoOperation
  <2> QED
    BY <1>1, <2>1, QuietStep DEF consume
<1>2. ASSUME NEW c \in Callers, readState(c) PROVE FileIsHistory' /\ ClockIsAhead'
  <2>1. /\ operation'[c].current = now
        /\ \A d \in Callers \ {c} : operation'[d] = operation[d]
        /\ UNCHANGED <<now, state, granted>>
    BY <1>0, <1>2 DEF readState, Operations
  <2>2. FileIsHistory'
    BY <2>1 DEF FileIsHistory
  <2>3. ClockIsAhead'
    BY <2>1 DEF ClockIsAhead, Reading
  <2> QED
    BY <2>2, <2>3
<1>3. ASSUME NEW c \in Callers, Refused(c) \/ WriteFails(c)
      PROVE  FileIsHistory' /\ ClockIsAhead'
  <2>1. \A d \in Callers : Reading(d)' => Reading(d) /\ operation'[d] = operation[d]
    BY <1>0, <1>3 DEF Refused, WriteFails, Done, Reading, NoOperation
  <2> QED
    BY <1>3, <2>1, QuietStep DEF Refused, WriteFails
<1>4. CASE LimiterCrash
  <2>1. \A d \in Callers : ~ Reading(d)'
    BY <1>4 DEF LimiterCrash, Reading, NoOperation
  <2> QED
    BY <1>4, <2>1, QuietStep DEF LimiterCrash
<1>5. CASE Tick
  <2>1. \A d \in Callers : Reading(d)' => Reading(d) /\ operation'[d] = operation[d]
    BY <1>5 DEF Tick, Reading
  <2> QED
    BY <1>5, <2>1, QuietStep DEF Tick
<1>6. CASE UNCHANGED limiterVars
  <2>1. \A d \in Callers : Reading(d)' => Reading(d) /\ operation'[d] = operation[d]
    BY <1>6 DEF limiterVars, Reading
  <2> QED
    BY <1>6, <2>1, QuietStep DEF limiterVars
<1> QED
  BY <1>1, <1>2, <1>3, <1>4, <1>5, <1>6, GrantedStep DEF LimiterNext

(* What an operation counts in the file it has read is exactly what its key
   was granted in the window that ends at its clock. *)
CountIsExact ==
  \A c \in Callers : Reading(c) =>
    InWindow(c, Key(c)) = EventsIn(Key(c), operation[c].current)

(* The history is counted in full and nothing else is. *)
LEMMA Counts ==
  ASSUME LimiterInv, FileIsHistory, ClockIsAhead
  PROVE  CountIsExact
<1> SUFFICES ASSUME NEW c \in Callers, Reading(c)
             PROVE  InWindow(c, Key(c)) = EventsIn(Key(c), operation[c].current)
  BY DEF CountIsExact
<1> DEFINE k == Key(c)
           t == operation[c].current
<1>1. k \in Keys /\ operation[c].seen = state
  BY KeyOfOperation DEF LimiterInv, Reading, ReadIsCurrent
<1>2. /\ t \in Nat
      /\ \A e \in 1 .. Len(granted) : granted[e].at \in Nat /\ granted[e].at <= t
  BY GrantedEvents, LimiterAssumption DEF LimiterInv, LimiterTypeOK, Operations, ClockIsAhead
<1>3. \A e \in state[k] : e \in 1 .. Len(granted) /\ granted[e].key = k
  BY <1>1 DEF FileIsHistory
<1>4. ASSUME NEW e \in 1 .. Len(granted), granted[e].key = k, granted[e].at + windowMs > t
      PROVE  e \in state[k]
  BY <1>2, <1>4, LimiterAssumption DEF LimiterInv, ForgottenHaveLeft, Left
<1>5. InWindow(c, k) = {e \in state[k] : granted[e].at + windowMs > t}
  BY <1>1 DEF InWindow, Recent
<1>6. EventsIn(k, t) = {e \in 1 .. Len(granted) :
                         granted[e].key = k /\ granted[e].at <= t /\ granted[e].at + windowMs > t}
  BY DEF EventsIn
<1> HIDE DEF k, t
<1> QED
  BY <1>2, <1>3, <1>4, <1>5, <1>6 DEF k, t

(* The limiter decides on the whole history of grants though its file forgets
   most of it: no event is forgotten too early, counted for another key, or
   counted after it left the window (file-rate-limiter.ts:32, :41). *)
THEOREM LimiterCountsExactly == LimiterSpec => []CountIsExact
<1>1. LimiterInit => FileIsHistory /\ ClockIsAhead
  BY DEF LimiterInit, FileIsHistory, ClockIsAhead, NoEvents
<1>2. LimiterInv /\ FileIsHistory /\ ClockIsAhead => CountIsExact
  BY Counts
<1> QED
  BY <1>1, <1>2, InitLimiterInv, StepKeepsInv, ExactStep, PTL DEF LimiterSpec

(* A request is refused only if its key has had all of maxEvents in the
   window: the limiter is no stricter than it says, whatever failed, crashed
   or was refused before. *)
RefusedOnlyAtLimit ==
  [][\A c \in Callers : Refused(c) =>
       Cardinality(EventsIn(Key(c), operation[c].current)) = maxEvents]_limiterVars

(* The limiter never refuses what its documented limit allows: the converse of
   NeverOverTheLimit, for the refusal of file-rate-limiter.ts:35. *)
THEOREM NeverUnderTheLimit == LimiterSpec => RefusedOnlyAtLimit
<1>1. LimiterInv /\ CountIsExact =>
        \A c \in Callers : Refused(c) =>
          Cardinality(EventsIn(Key(c), operation[c].current)) = maxEvents
  <2> SUFFICES ASSUME LimiterInv, CountIsExact, NEW c \in Callers, Refused(c)
               PROVE  Cardinality(EventsIn(Key(c), operation[c].current)) = maxEvents
    OBVIOUS
  <2> DEFINE E == EventsIn(Key(c), operation[c].current)
  <2>1. Key(c) \in Keys /\ operation[c].current \in 0 .. MaxTime
    BY KeyOfOperation DEF LimiterInv, LimiterTypeOK, Operations, Refused
  <2>2. Cardinality(E) <= maxEvents
    BY <2>1 DEF LimiterInv, WindowLimit
  <2>3. Cardinality(E) >= maxEvents
    BY DEF Refused, Reading, CountIsExact
  <2>4. Cardinality(E) \in Nat
    <3>1. E \subseteq 1 .. Len(granted) /\ Len(granted) \in Nat
      BY DEF EventsIn, LimiterInv, LimiterTypeOK
    <3>2. IsFiniteSet(1 .. Len(granted))
      BY <3>1, FS_Interval
    <3> HIDE DEF E
    <3>3. IsFiniteSet(E)
      BY <3>1, <3>2, FS_Subset
    <3> QED
      BY <3>3, FS_CardinalityType
  <2> HIDE DEF E
  <2>5. Cardinality(E) = maxEvents
    BY <2>2, <2>3, <2>4, LimiterAssumption
  <2> QED
    BY <2>5 DEF E
<1>2. LimiterInv /\ CountIsExact /\ [LimiterNext]_limiterVars =>
        [\A c \in Callers : Refused(c) =>
           Cardinality(EventsIn(Key(c), operation[c].current)) = maxEvents]_limiterVars
  BY <1>1
<1> QED
  BY <1>2, InitLimiterInv, StepKeepsInv, LimiterCountsExactly, PTL
     DEF LimiterSpec, RefusedOnlyAtLimit

=============================================================================
