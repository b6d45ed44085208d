------------------------- MODULE PriorityLockProofs -------------------------
(***************************************************************************)
(* The preference lock keeps its promise for any threads of either         *)
(* priority.                                                               *)
(***************************************************************************)
EXTENDS PriorityLock, FiniteSetTheorems, TLAPS

\* Threads of high priority that the WaitGroup counts.
Registered == {h \in High : at[h] \notin {"out", "waking"}}

\* Each thread is at a place of its own operations, ...
PlaceInv ==
  /\ \A h \in High : at[h] \notin {"queue", "wait", "asleep", "woken"}
  /\ \A l \in Low : at[l] # "waking"

\* ... holds what it has taken there, ...
HolderInv ==
  \A t \in Thread :
    /\ holder["lowPriorityMutex"] = t <=> t \in Low /\ at[t] \notin {"out", "queue"}
    /\ holder["nextToAccess"] = t <=> at[t] \in {"data", "holding"}
    /\ holder["dataMutex"] = t <=> at[t] \in {"holding", "in"}

\* ... and the WaitGroup knows who is counted and who sleeps.
CounterInv == counter = Cardinality(Registered)

WaiterInv == waiters = 1 <=> \E l \in Low : at[l] = "asleep"

IInv == TypeOK /\ PlaceInv /\ HolderInv /\ CounterInv /\ WaiterInv
-----------------------------------------------------------------------------
(***************************************************************************)
(* What the counter says about the threads.                                *)
(***************************************************************************)
LEMMA RegisteredFinite == IsFiniteSet(Registered)
  BY PriorityAssumption, FS_Subset DEF Registered

\* A counter of zero means that nobody of high priority is on the way.
LEMMA NobodyRegistered ==
  ASSUME CounterInv, counter = 0
  PROVE  \A h \in High : at[h] \in {"out", "waking"}
<1>1. Registered = {}
  BY RegisteredFinite, FS_EmptySet DEF CounterInv
<1>2. QED BY <1>1 DEF Registered

\* The Done of a counted thread does not make the counter negative.
LEMMA OneLess ==
  ASSUME IInv, NEW h \in High, at[h] = "leaving"
  PROVE  counter - 1 \in Nat /\ counter - 1 = Cardinality(Registered \ {h})
<1>1. h \in Registered
  BY DEF Registered
<1>2. /\ IsFiniteSet(Registered \ {h})
      /\ Cardinality(Registered \ {h}) = Cardinality(Registered) - 1
  BY <1>1, RegisteredFinite, FS_RemoveElement
<1>3. Cardinality(Registered \ {h}) \in Nat
  BY <1>2, FS_CardinalityType
<1>4. QED BY <1>2, <1>3 DEF IInv, CounterInv

\* A step of a thread that neither registers nor withdraws it.
LEMMA SameRegistered ==
  ASSUME TypeOK, NEW t \in Thread, NEW to,
         at' = [at EXCEPT ![t] = to],
         t \in High => (at[t] \in {"out", "waking"} <=> to \in {"out", "waking"})
  PROVE  Registered' = Registered
  BY PriorityAssumption DEF Registered, TypeOK, Thread
-----------------------------------------------------------------------------
LEMMA InitInv == Init => IInv
<1>1. Init => Registered = {}
  BY DEF Init, Registered, Thread
<1>2. Init => CounterInv
  BY <1>1, FS_EmptySet DEF Init, CounterInv
<1>3. Init => TypeOK /\ PlaceInv /\ WaiterInv
  <2> SUFFICES ASSUME Init PROVE TypeOK /\ PlaceInv /\ WaiterInv
    OBVIOUS
  <2>1. \A t \in Thread : at[t] = "out"
    BY DEF Init
  <2>2. TypeOK
    <3>1. at \in [Thread -> {"out"}]
      BY DEF Init
    <3>2. holder \in [Mutex -> Thread \cup {Free}]
      BY DEF Init
    <3>3. counter \in Nat /\ waiters \in 0..1
      BY DEF Init
    <3>4. panicked \in BOOLEAN
      BY DEF Init
    <3>5. QED BY <3>1, <3>2, <3>3, <3>4 DEF TypeOK
  <2>3. PlaceInv /\ WaiterInv
    BY <2>1 DEF Init, PlaceInv, WaiterInv, Thread
  <2>4. QED BY <2>2, <2>3
<1>4. Init => HolderInv
  BY PriorityAssumption DEF Init, HolderInv, Thread, Mutex
<1>5. QED BY <1>2, <1>3, <1>4 DEF IInv

LEMMA LowInv ==
  ASSUME IInv, NEW l \in Low, Lock(l) \/ LowStep(l)
  PROVE  IInv'
<1> l \in Thread /\ l \notin High
  BY PriorityAssumption DEF Thread
<1> USE DEF IInv
<1>1. CASE Lock(l)
  <2>1. Registered' = Registered
    BY <1>1, SameRegistered DEF Lock, Goes
  <2>2. QED
    BY <1>1, <2>1, PriorityAssumption
    DEF Lock, Goes, TypeOK, PlaceInv, HolderInv, CounterInv, WaiterInv, Thread, Mutex
<1>2. CASE TakeLowPriority(l)
  <2>1. Registered' = Registered
    BY <1>2, SameRegistered DEF TakeLowPriority, Goes
  <2>2. QED
    BY <1>2, <2>1, PriorityAssumption
    DEF TakeLowPriority, Takes, Goes, TypeOK, PlaceInv, HolderInv, CounterInv, WaiterInv,
        Thread, Mutex
<1>3. CASE WaitPasses(l)
  <2>1. Registered' = Registered
    BY <1>3, SameRegistered DEF WaitPasses, Goes
  <2>2. QED
    BY <1>3, <2>1, PriorityAssumption
    DEF WaitPasses, Goes, TypeOK, PlaceInv, HolderInv, CounterInv, WaiterInv, Thread, Mutex
<1>4. CASE WaitSleeps(l)
  <2>1. Registered' = Registered
    BY <1>4, SameRegistered DEF WaitSleeps, Goes
  <2>2. \A k \in Low : k # l => at[k] \in {"out", "queue"}
    BY <1>4 DEF WaitSleeps, Goes, HolderInv, Thread
  <2>3. waiters = 0
    BY <1>4, <2>2 DEF WaitSleeps, Goes, WaiterInv, TypeOK
  <2>4. QED
    BY <1>4, <2>1, <2>3, PriorityAssumption
    DEF WaitSleeps, Goes, TypeOK, PlaceInv, HolderInv, CounterInv, WaiterInv, Thread, Mutex
<1>5. CASE WaitReturns(l)
  <2>1. CASE counter = 0
    <3>1. Goes(l, "woken", "next") /\ UNCHANGED <<holder, counter, waiters, panicked>>
      BY <1>5, <2>1 DEF WaitReturns
    <3>2. Registered' = Registered
      BY <3>1, SameRegistered DEF Goes
    <3>3. QED
      BY <3>1, <3>2, PriorityAssumption
      DEF Goes, TypeOK, PlaceInv, HolderInv, CounterInv, WaiterInv, Thread, Mutex
  <2>2. CASE counter # 0
    BY <1>5, <2>2
    DEF WaitReturns, Panics, TypeOK, PlaceInv, HolderInv, CounterInv, WaiterInv, Registered
  <2>3. QED BY <2>1, <2>2
<1>6. CASE DropLowPriority(l)
  <2>1. Registered' = Registered
    BY <1>6, SameRegistered DEF DropLowPriority, Goes
  <2>2. QED
    BY <1>6, <2>1, PriorityAssumption
    DEF DropLowPriority, Drops, Goes, TypeOK, PlaceInv, HolderInv, CounterInv, WaiterInv,
        Thread, Mutex
<1>7. QED BY <1>1, <1>2, <1>3, <1>4, <1>5, <1>6 DEF LowStep

LEMMA HighInv ==
  ASSUME IInv, NEW h \in High, HighPriorityLock(h) \/ HighStep(h)
  PROVE  IInv'
<1> h \in Thread /\ h \notin Low
  BY PriorityAssumption DEF Thread
<1> USE DEF IInv
<1>1. CASE HighPriorityLock(h) /\ counter = 0 /\ waiters > 0
  <2>1. panicked' = TRUE /\ UNCHANGED <<at, holder, counter, waiters>>
    BY <1>1 DEF HighPriorityLock, Panics
  <2>2. TypeOK' /\ PlaceInv'
    BY <2>1 DEF TypeOK, PlaceInv
  <2>3. HolderInv'
    BY <2>1 DEF HolderInv
  <2>4. CounterInv' /\ WaiterInv'
    BY <2>1 DEF CounterInv, WaiterInv, Registered
  <2>5. QED BY <2>2, <2>3, <2>4
<1>2. CASE HighPriorityLock(h) /\ ~(counter = 0 /\ waiters > 0)
  <2>1. /\ Goes(h, "out", "next")
        /\ counter' = counter + 1
        /\ UNCHANGED <<holder, waiters, panicked>>
    BY <1>2 DEF HighPriorityLock, Counted
  <2>2. Registered' = Registered \cup {h} /\ h \notin Registered
    BY <2>1 DEF Registered, Goes, TypeOK
  <2>3. CounterInv'
    BY <2>1, <2>2, RegisteredFinite, FS_AddElement DEF CounterInv
  <2>4. QED
    BY <2>1, <2>3, PriorityAssumption
    DEF Goes, TypeOK, PlaceInv, HolderInv, WaiterInv, Thread, Mutex
<1>3. CASE Done(h)
  <2> DEFINE to == IF counter = 1 /\ waiters > 0 THEN "waking" ELSE "out"
  <2>1. /\ at[h] = "leaving"
        /\ at' = [at EXCEPT ![h] = to]
        /\ to \in {"out", "waking"}
        /\ counter' = counter - 1
        /\ UNCHANGED <<holder, waiters, panicked>>
    BY <1>3 DEF Done, Goes
  <2> HIDE DEF to
  <2>2. Registered' = Registered \ {h}
    BY <2>1 DEF Registered, TypeOK
  <2>3. counter' \in Nat /\ CounterInv'
    BY <2>1, <2>2, OneLess DEF CounterInv
  <2>4. QED
    BY <2>1, <2>3, PriorityAssumption
    DEF TypeOK, PlaceInv, HolderInv, WaiterInv, Thread, Mutex
<1>4. CASE DoneWakes(h)
  <2>1. /\ at[h] = "waking"
        /\ at' = [t \in Thread |-> IF t = h THEN "out"
                                   ELSE IF at[t] = "asleep" THEN "woken" ELSE at[t]]
        /\ waiters' = 0
        /\ UNCHANGED <<holder, counter, panicked>>
    BY <1>4 DEF DoneWakes, Woken
  <2>2. Registered' = Registered
    BY <2>1 DEF Registered, PlaceInv, Thread
  <2>3. QED
    BY <2>1, <2>2, PriorityAssumption
    DEF TypeOK, PlaceInv, HolderInv, CounterInv, WaiterInv, Thread, Mutex
<1>5. QED BY <1>1, <1>2, <1>3, <1>4 DEF HighStep

LEMMA AnyInv ==
  ASSUME IInv, NEW t \in Thread, AnyStep(t)
  PROVE  IInv'
<1> USE DEF IInv
<1>1. CASE TakeNext(t)
  <2>1. Registered' = Registered
    BY <1>1, SameRegistered DEF TakeNext, Goes
  <2>2. QED
    BY <1>1, <2>1, PriorityAssumption
    DEF TakeNext, Takes, Goes, TypeOK, PlaceInv, HolderInv, CounterInv, WaiterInv, Thread, Mutex
<1>2. CASE TakeData(t)
  <2>1. Registered' = Registered
    BY <1>2, SameRegistered DEF TakeData, Goes
  <2>2. QED
    BY <1>2, <2>1, PriorityAssumption
    DEF TakeData, Takes, Goes, TypeOK, PlaceInv, HolderInv, CounterInv, WaiterInv, Thread, Mutex
<1>3. CASE DropNext(t)
  <2>1. Registered' = Registered
    BY <1>3, SameRegistered DEF DropNext, Goes
  <2>2. QED
    BY <1>3, <2>1, PriorityAssumption
    DEF DropNext, Drops, Goes, TypeOK, PlaceInv, HolderInv, CounterInv, WaiterInv, Thread, Mutex
<1>4. CASE DropData(t)
  <2>1. Registered' = Registered
    BY <1>4, SameRegistered DEF DropData, Goes
  <2>2. QED
    BY <1>4, <2>1, PriorityAssumption
    DEF DropData, Drops, Goes, TypeOK, PlaceInv, HolderInv, CounterInv, WaiterInv, Thread, Mutex
<1>5. QED BY <1>1, <1>2, <1>3, <1>4 DEF AnyStep

LEMMA Inductive == Spec => []IInv
<1>1. IInv /\ [Next]_vars => IInv'
  <2> SUFFICES ASSUME IInv, [Next]_vars PROVE IInv'
    OBVIOUS
  <2>1. CASE UNCHANGED vars
    BY <2>1
    DEF vars, IInv, TypeOK, PlaceInv, HolderInv, CounterInv, WaiterInv, Registered
  <2>2. CASE Next
    BY <2>2, LowInv, HighInv, AnyInv DEF Next
  <2>3. QED BY <2>1, <2>2
<1>2. QED BY <1>1, InitInv, PTL DEF Spec

(***************************************************************************)
(* Types; in particular a Done never makes the counter of the WaitGroup    *)
(* negative, which would panic (priority_lock.go:42 and 50).               *)
(***************************************************************************)
THEOREM TypeCorrect == Spec => []TypeOK
<1>1. IInv => TypeOK
  BY DEF IInv
<1>2. QED BY <1>1, Inductive, PTL
(***************************************************************************)
(* One thread at a time has the data, and while a thread of low priority   *)
(* is anywhere between the end of its Wait and its Unlock, no other one of *)
(* low priority is: whoever asks with HighPriorityLock is overtaken by one *)
(* at most (priority_lock.go:28-51), for any number of threads.            *)
(***************************************************************************)
OneInside == \A t, u \in Thread : at[t] = "in" /\ at[u] = "in" => t = u

OneLowAdmitted ==
  \A k, l \in Low : at[k] \notin {"out", "queue"} /\ at[l] \notin {"out", "queue"} => k = l

THEOREM MutualExclusion == Spec => [](OneInside /\ OneLowAdmitted)
<1>1. HolderInv => OneInside
  BY DEF HolderInv, OneInside
<1>2. HolderInv => OneLowAdmitted
  BY DEF HolderInv, OneLowAdmitted, Thread
<1>3. IInv => OneInside /\ OneLowAdmitted
  BY <1>1, <1>2 DEF IInv
<1>4. QED BY <1>3, Inductive, PTL
-----------------------------------------------------------------------------
(***************************************************************************)
(* The refinement.                                                         *)
(***************************************************************************)
PhaseOf(place) ==
  CASE place \in {"next", "data"}  -> "waiting"
    [] place \in {"holding", "in"} -> "inside"
    [] place = "leaving"           -> "leaving"
    [] OTHER                       -> "away"

Phases == [t \in Thread |-> Phase(t)]

LEMMA PhaseNames ==
  /\ \A p \in {"out", "queue", "wait", "asleep", "woken", "waking"} : PhaseOf(p) = "away"
  /\ PhaseOf("next") = "waiting" /\ PhaseOf("data") = "waiting"
  /\ PhaseOf("holding") = "inside" /\ PhaseOf("in") = "inside"
  /\ PhaseOf("leaving") = "leaving"
BY DEF PhaseOf

\* A step of one thread is a move of its phase.
LEMMA PhaseMove ==
  ASSUME TypeOK, NEW t \in Thread, NEW from, NEW to, Goes(t, from, to)
  PROVE  Preference!Moves(t, PhaseOf(from), PhaseOf(to))
<1>1. \A u \in Thread : Phases[u] = PhaseOf(at[u])
  BY DEF Phases, Phase, PhaseOf
<1>2. \A u \in Thread : Phases'[u] = PhaseOf(at'[u])
  BY DEF Phases, Phase, PhaseOf
<1>3. \A u \in Thread : at'[u] = IF u = t THEN to ELSE at[u]
  BY DEF Goes, TypeOK
<1>4. at[t] = from
  BY DEF Goes
<1>5. Phases = [u \in Thread |-> Phases[u]] /\ Phases' = [u \in Thread |-> Phases'[u]]
  BY DEF Phases
<1>6. Phases[t] = PhaseOf(from) /\ Phases' = [Phases EXCEPT ![t] = PhaseOf(to)]
  BY <1>1, <1>2, <1>3, <1>4, <1>5
<1>7. QED BY <1>6 DEF Preference!Moves, Phases

\* One within the same phase does not show.
LEMMA PhaseStays ==
  ASSUME TypeOK, NEW t \in Thread, NEW from, NEW to, Goes(t, from, to),
         PhaseOf(from) = PhaseOf(to)
  PROVE  Phases' = Phases
<1>1. Preference!Moves(t, PhaseOf(from), PhaseOf(from))
  BY PhaseMove
<1>2. Phases' = [Phases EXCEPT ![t] = Phases[t]]
  BY <1>1 DEF Preference!Moves, Phases
<1>3. QED BY <1>2 DEF Phases

LEMMA PhaseStep ==
  ASSUME IInv, Next
  PROVE  Preference!Next \/ Phases' = Phases
<1> TypeOK
  BY DEF IInv
<1> USE DEF Thread
<1>1. CASE \E l \in Low : Lock(l) \/ LowStep(l)
  <2> PICK l \in Low : Lock(l) \/ LowStep(l)
    BY <1>1
  <2>1. CASE Lock(l) \/ TakeLowPriority(l) \/ WaitSleeps(l)
    <3>1. Goes(l, "out", "queue") \/ Goes(l, "queue", "wait") \/ Goes(l, "wait", "asleep")
      BY <2>1 DEF Lock, TakeLowPriority, WaitSleeps
    <3>2. QED BY <3>1, PhaseNames, PhaseStays
  <2>2. CASE DropLowPriority(l)
    <3>1. Preference!Return(l)
      BY <2>2, PhaseNames, PhaseMove DEF DropLowPriority, Preference!Return
    <3>2. QED BY <3>1 DEF Preference!Next, Preference!Thread
  <2>3. CASE WaitReturns(l) /\ counter # 0
    BY <2>3 DEF WaitReturns, Panics, Phases, Phase
  <2>4. CASE WaitPasses(l) \/ (WaitReturns(l) /\ counter = 0)
    <3>1. /\ Goes(l, "wait", "next") \/ Goes(l, "woken", "next")
          /\ counter = 0
      BY <2>4 DEF WaitPasses, WaitReturns, HighPriorityBusy, TypeOK
    <3>2. \A k \in Low : k # l => at[k] \in {"out", "queue"}
      BY <3>1 DEF Goes, IInv, HolderInv
    <3>3. \A h \in High : at[h] \in {"out", "waking"}
      BY <3>1, NobodyRegistered DEF IInv
    <3>4. \A t \in Thread : Phases[t] = "away"
      BY <3>1, <3>2, <3>3 DEF Phases, Phase, Goes
    <3>5. Preference!Moves(l, "away", "waiting")
      BY <3>1, PhaseNames, PhaseMove
    <3>6. Preference!Admit(l)
      BY <3>4, <3>5 DEF Preference!Admit, Preference!Thread, Phases
    <3>7. QED BY <3>6 DEF Preference!Next
  <2>5. QED BY <2>1, <2>2, <2>3, <2>4 DEF LowStep
<1>2. CASE \E h \in High : HighPriorityLock(h) \/ HighStep(h)
  <2> PICK h \in High : HighPriorityLock(h) \/ HighStep(h)
    BY <1>2
  <2>1. CASE HighPriorityLock(h)
    <3>1. CASE Goes(h, "out", "next")
      <4>1. Preference!Register(h)
        BY <3>1, PhaseNames, PhaseMove DEF Preference!Register
      <4>2. QED BY <4>1 DEF Preference!Next
    <3>2. CASE Panics
      BY <3>2 DEF Panics, Phases, Phase
    <3>3. QED BY <2>1, <3>1, <3>2 DEF HighPriorityLock
  <2>2. CASE Done(h)
    <3>1. Goes(h, "leaving", "waking") \/ Goes(h, "leaving", "out")
      BY <2>2 DEF Done
    <3>2. Preference!Return(h)
      BY <3>1, PhaseNames, PhaseMove DEF Preference!Return
    <3>3. QED BY <3>2 DEF Preference!Next, Preference!Thread
  <2>3. CASE DoneWakes(h)
    <3>1. \A t \in Thread : Phase(t)' = Phase(t)
      BY <2>3 DEF DoneWakes, Woken, Phase
    <3>2. QED BY <3>1 DEF Phases
  <2>4. QED BY <2>1, <2>2, <2>3 DEF HighStep
<1>3. CASE \E t \in Thread : AnyStep(t)
  <2> PICK t \in Thread : AnyStep(t)
    BY <1>3
  <2>1. CASE TakeNext(t) \/ DropNext(t)
    <3>1. Goes(t, "next", "data") \/ Goes(t, "holding", "in")
      BY <2>1 DEF TakeNext, DropNext
    <3>2. QED BY <3>1, PhaseNames, PhaseStays
  <2>2. CASE TakeData(t)
    <3>1. \A u \in Thread : at[u] \notin {"holding", "in"}
      BY <2>2, PriorityAssumption DEF TakeData, Takes, IInv, HolderInv
    <3>2. \A u \in Thread : Phases[u] # "inside"
      BY <3>1 DEF Phases, Phase
    <3>3. Preference!Moves(t, "waiting", "inside")
      BY <2>2, PhaseNames, PhaseMove DEF TakeData
    <3>4. Preference!Enter(t)
      BY <3>2, <3>3 DEF Preference!Enter, Preference!Thread, Phases
    <3>5. QED BY <3>4 DEF Preference!Next, Preference!Thread
  <2>3. CASE DropData(t)
    <3>1. Preference!Leave(t)
      BY <2>3, PhaseNames, PhaseMove DEF DropData, Preference!Leave
    <3>2. QED BY <3>1 DEF Preference!Next, Preference!Thread
  <2>4. QED BY <2>1, <2>2, <2>3 DEF AnyStep
<1>4. QED BY <1>1, <1>2, <1>3 DEF Next

(***************************************************************************)
(* The lock is a preference lock (priority_lock.go:28-51): one thread at a *)
(* time has the data, and one of low priority is admitted only while all   *)
(* others are away, however many there are.                                *)
(***************************************************************************)
THEOREM ImplementsPriorityMutex == Spec => IsPriorityMutex
<1>1. Init => Preference!Init
  BY DEF Init, Preference!Init, Preference!Thread, Thread, Phase
<1>2. IInv /\ [Next]_vars => [Preference!Next]_Phases
  <2>1. ASSUME UNCHANGED vars PROVE UNCHANGED Phases
    BY <2>1 DEF vars, Phases, Phase
  <2>2. QED BY <2>1, PhaseStep
<1>3. QED
  BY <1>1, <1>2, Inductive, PTL DEF Spec, IsPriorityMutex, Preference!Spec, Phases
=============================================================================
