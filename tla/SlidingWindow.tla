---------------------------- MODULE SlidingWindow ----------------------------
(***************************************************************************)
(* The issuer's rate limiters (file-rate-limiter.ts; rate-limit.ts is the  *)
(* same without a file): each key gets at most maxEvents in any window.    *)
(*                                                                         *)
(* consume() queues behind the calls before it, reads the clock and the    *)
(* file, and writes the file through a temporary one and a rename.  A call *)
(* that is granted is an event; the file keeps the events that are still   *)
(* in the window.  The clock never goes back.  The program replaces the    *)
(* file whole: one that cannot be parsed, and is taken for empty, was      *)
(* damaged by someone else and is left out.                                *)
(***************************************************************************)
EXTENDS Naturals, FiniteSets, Sequences

CONSTANTS
  Callers,      \* requests that may overlap
  Keys,
  maxEvents,
  windowMs,
  MaxTime,      \* bound of the clock
  MaxGrants     \* bound of the events that are granted

ASSUME LimiterAssumption ==
  /\ maxEvents \in Nat \ {0}
  /\ windowMs \in Nat \ {0}
  /\ MaxTime \in Nat
  /\ MaxGrants \in Nat

VARIABLES
  now,          \* the clock
  state,        \* the file: the events it keeps of each key
  granted,      \* all events ever granted: their keys and timestamps
  pending,      \* the queue of operations
  operation     \* what each caller's operation knows

limiterVars == <<now, state, granted, pending, operation>>

Events == 1 .. MaxGrants
LimiterFiles == [Keys -> SUBSET Events]
NoEvents == [k \in Keys |-> {}]

Operations == [phase : {"idle", "queued", "read"}, key : SUBSET Keys,
               current : 0 .. MaxTime, seen : LimiterFiles]
NoOperation == [phase |-> "idle", key |-> {}, current |-> 0, seen |-> NoEvents]
Key(c) == CHOOSE k \in Keys : operation[c].key = {k}

LimiterTypeOK ==
  /\ now \in 0 .. MaxTime
  /\ state \in LimiterFiles
  /\ granted \in Seq([key : Keys, at : 0 .. MaxTime])
  /\ Len(granted) <= MaxGrants
  /\ pending \in Seq(Callers)
  /\ operation \in [Callers -> Operations]

LimiterInit ==
  /\ now = 0
  /\ state = NoEvents
  /\ granted = <<>>
  /\ pending = <<>>
  /\ operation = [c \in Callers |-> NoOperation]

-----------------------------------------------------------------------------

consume(c, k) ==
  /\ operation[c].phase = "idle"
  /\ operation' = [operation EXCEPT ![c] = [NoOperation EXCEPT !.phase = "queued", !.key = {k}]]
  /\ pending' = Append(pending, c)
  /\ UNCHANGED <<now, state, granted>>

\* Mutant of Serial: operations overlap.
Overlapping(c) == operation[c].phase = "queued"

(* The operation of c is queued and those before it are over. *)
Serial(c) ==
  /\ operation[c].phase = "queued"
  /\ pending # <<>> /\ Head(pending) = c

readState(c) ==
  /\ Serial(c)
  /\ operation' = [operation EXCEPT ![c].phase = "read", ![c].current = now, ![c].seen = state]
  /\ UNCHANGED <<now, state, granted, pending>>

(* The events of k in file state s that are in the window that ends now. *)
Recent(s, k, current) == {e \in s[k] : granted[e].at + windowMs > current}
InWindow(c, k) == Recent(operation[c].seen, k, operation[c].current)

Done(c) ==
  /\ operation' = [operation EXCEPT ![c] = NoOperation]
  /\ pending' = Tail(pending)

(* Recorded first, granted then. *)
Granted(c) ==
  /\ operation[c].phase = "read"
  /\ Cardinality(InWindow(c, Key(c))) < maxEvents
  /\ Len(granted) < MaxGrants
  /\ granted' = Append(granted, [key |-> Key(c), at |-> operation[c].current])
  /\ state' = [k \in Keys |->
                 InWindow(c, k) \cup IF k = Key(c) THEN {Len(granted')} ELSE {}]
  /\ Done(c)
  /\ UNCHANGED now

Refused(c) ==
  /\ operation[c].phase = "read"
  /\ Cardinality(InWindow(c, Key(c))) >= maxEvents
  /\ Done(c)
  /\ UNCHANGED <<now, state, granted>>

(* The directory, the temporary file or the rename fails: the call rejects
   and the next operation starts all the same. *)
WriteFails(c) ==
  /\ operation[c].phase = "read"
  /\ Cardinality(InWindow(c, Key(c))) < maxEvents
  /\ Done(c)
  /\ UNCHANGED <<now, state, granted>>

(* The process dies; the file is the old one or the new one. *)
LimiterCrash ==
  /\ operation' = [c \in Callers |-> NoOperation]
  /\ pending' = <<>>
  /\ UNCHANGED <<now, state, granted>>

Tick ==
  /\ now < MaxTime
  /\ now' = now + 1
  /\ UNCHANGED <<state, granted, pending, operation>>

LimiterNext ==
  \/ \E c \in Callers, k \in Keys : consume(c, k)
  \/ \E c \in Callers : readState(c) \/ Granted(c) \/ Refused(c) \/ WriteFails(c)
  \/ LimiterCrash \/ Tick

LimiterSpec == LimiterInit /\ [][LimiterNext]_limiterVars

-----------------------------------------------------------------------------

(* No key is granted more than maxEvents within any window of windowMs,
   wherever the window starts, over overlapping calls, failed writes and
   restarts. *)
EventsIn(k, t) ==
  {e \in 1 .. Len(granted) :
     /\ granted[e].key = k
     /\ granted[e].at <= t /\ granted[e].at + windowMs > t}
WindowLimit ==
  \A k \in Keys, t \in 0 .. MaxTime : Cardinality(EventsIn(k, t)) <= maxEvents

=============================================================================
