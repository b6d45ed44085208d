---------------------------- MODULE PriorityLock ----------------------------
(***************************************************************************)
(* The preference lock of the peer, peer/priority_lock.go: three mutexes   *)
(* and a WaitGroup that counts the threads of high priority.  The peer     *)
(* makes one (peer/proxy_connection.go:60) and does not take it.           *)
(*                                                                         *)
(* Mutexes and WaitGroup are those of Go 1.20.  Wait looks at the counter  *)
(* and goes to sleep; the Done that makes the counter zero wakes it in a   *)
(* second step.  An Add between these two panics ("Add called concurrently *)
(* with Wait"), and one before the sleeper is up makes the sleeper panic   *)
(* ("WaitGroup is reused before previous Wait has returned").              *)
(***************************************************************************)
EXTENDS Naturals, FiniteSets

CONSTANTS Low, High, Free

ASSUME PriorityAssumption ==
  /\ Low \cap High = {}
  /\ IsFiniteSet(High)
  /\ Free \notin Low \cup High

VARIABLES
  at,        \* where each thread is
  holder,    \* who has each mutex
  counter,   \* highPriorityWaiting: threads counted
  waiters,   \* and threads asleep on it
  panicked

vars == <<at, holder, counter, waiters, panicked>>

Thread == Low \cup High
Mutex  == {"lowPriorityMutex", "nextToAccess", "dataMutex"}

TypeOK ==
  /\ at \in [Thread -> {"out", "queue", "wait", "asleep", "woken", "next",
                        "data", "holding", "in", "leaving", "waking"}]
  /\ holder \in [Mutex -> Thread \cup {Free}]
  /\ counter \in Nat
  /\ waiters \in 0..1
  /\ panicked \in BOOLEAN

Init ==
  /\ at = [t \in Thread |-> "out"]
  /\ holder = [m \in Mutex |-> Free]
  /\ counter = 0
  /\ waiters = 0
  /\ panicked = FALSE

Goes(t, from, to) ==
  /\ at[t] = from
  /\ at' = [at EXCEPT ![t] = to]

Takes(t, m) ==
  /\ holder[m] = Free
  /\ holder' = [holder EXCEPT ![m] = t]

Drops(m) == holder' = [holder EXCEPT ![m] = Free]

Panics ==
  /\ panicked' = TRUE
  /\ UNCHANGED <<at, holder, counter, waiters>>
-----------------------------------------------------------------------------
(***************************************************************************)
(* Lock up to Wait.                                                        *)
(***************************************************************************)
Lock(l) ==
  /\ Goes(l, "out", "queue")
  /\ UNCHANGED <<holder, counter, waiters, panicked>>

TakeLowPriority(l) ==
  /\ Goes(l, "queue", "wait")
  /\ Takes(l, "lowPriorityMutex")
  /\ UNCHANGED <<counter, waiters, panicked>>

\* Mutant: the WaitGroup is passed by.
NeverBusy == FALSE

HighPriorityBusy == counter > 0

WaitPasses(l) ==
  /\ ~HighPriorityBusy
  /\ Goes(l, "wait", "next")
  /\ UNCHANGED <<holder, counter, waiters, panicked>>

WaitSleeps(l) ==
  /\ HighPriorityBusy
  /\ Goes(l, "wait", "asleep")
  /\ waiters' = waiters + 1
  /\ UNCHANGED <<holder, counter, panicked>>

WaitReturns(l) ==
  /\ at[l] = "woken"
  /\ IF counter = 0
     THEN Goes(l, "woken", "next") /\ UNCHANGED <<holder, counter, waiters, panicked>>
     ELSE Panics
-----------------------------------------------------------------------------
(***************************************************************************)
(* HighPriorityLock up to Add.                                             *)
(***************************************************************************)
\* Mutant: the thread is not counted.
NotCounted == counter

Counted == counter + 1

HighPriorityLock(h) ==
  /\ at[h] = "out"
  /\ IF counter = 0 /\ waiters > 0
     THEN Panics
     ELSE /\ Goes(h, "out", "next")
          /\ counter' = Counted
          /\ UNCHANGED <<holder, waiters, panicked>>
-----------------------------------------------------------------------------
(***************************************************************************)
(* What both have in common: the order is that of nextToAccess.            *)
(***************************************************************************)
TakeNext(t) ==
  /\ Goes(t, "next", "data")
  /\ Takes(t, "nextToAccess")
  /\ UNCHANGED <<counter, waiters, panicked>>

TakeData(t) ==
  /\ Goes(t, "data", "holding")
  /\ Takes(t, "dataMutex")
  /\ UNCHANGED <<counter, waiters, panicked>>

\* Mutant: nextToAccess is not given back.
StaysNext(t) ==
  /\ Goes(t, "holding", "in")
  /\ UNCHANGED <<holder, counter, waiters, panicked>>

DropNext(t) ==
  /\ Goes(t, "holding", "in")
  /\ Drops("nextToAccess")
  /\ UNCHANGED <<counter, waiters, panicked>>

DropData(t) ==
  /\ Goes(t, "in", "leaving")
  /\ Drops("dataMutex")
  /\ UNCHANGED <<counter, waiters, panicked>>

\* Unlock.
DropLowPriority(l) ==
  /\ Goes(l, "leaving", "out")
  /\ Drops("lowPriorityMutex")
  /\ UNCHANGED <<counter, waiters, panicked>>

\* HighPriorityUnlock: Done.
Done(h) ==
  /\ Goes(h, "leaving", IF counter = 1 /\ waiters > 0 THEN "waking" ELSE "out")
  /\ counter' = counter - 1
  /\ UNCHANGED <<holder, waiters, panicked>>

\* Mutant: the sleeper is left asleep.
SleepsOn(h) == [at EXCEPT ![h] = "out"]

Woken(h) ==
  [t \in Thread |-> IF t = h THEN "out" ELSE IF at[t] = "asleep" THEN "woken" ELSE at[t]]

DoneWakes(h) ==
  /\ at[h] = "waking"
  /\ at' = Woken(h)
  /\ waiters' = 0
  /\ UNCHANGED <<holder, counter, panicked>>
-----------------------------------------------------------------------------
LowStep(l) ==
  \/ TakeLowPriority(l) \/ WaitPasses(l) \/ WaitSleeps(l) \/ WaitReturns(l)
  \/ DropLowPriority(l)

HighStep(h) == Done(h) \/ DoneWakes(h)

AnyStep(t) == TakeNext(t) \/ TakeData(t) \/ DropNext(t) \/ DropData(t)

Next ==
  /\ ~panicked
  /\ \/ \E l \in Low : Lock(l) \/ LowStep(l)
     \/ \E h \in High : HighPriorityLock(h) \/ HighStep(h)
     \/ \E t \in Thread : AnyStep(t)

Spec == Init /\ [][Next]_vars

(***************************************************************************)
(* Fairness: a thread that is between Lock and the end of Unlock goes on,  *)
(* and what it holds it gives back.  A mutex of Go goes in the end to      *)
(* whoever waits for it (its starvation mode), hence strong fairness.      *)
(***************************************************************************)
Fairness ==
  /\ \A l \in Low : SF_vars(~panicked /\ (LowStep(l) \/ AnyStep(l)))
  /\ \A h \in High : SF_vars(~panicked /\ (HighStep(h) \/ AnyStep(h)))

FairSpec == Spec /\ Fairness
-----------------------------------------------------------------------------
(***************************************************************************)
(* The lock is a preference lock (priority_lock.go:28-51): one thread has  *)
(* the data at a time, and a thread of low priority is past Wait only      *)
(* since a moment when no other one of either priority was on its way.     *)
(***************************************************************************)
Phase(t) ==
  CASE at[t] \in {"next", "data"}  -> "waiting"
    [] at[t] \in {"holding", "in"} -> "inside"
    [] at[t] = "leaving"           -> "leaving"
    [] OTHER                       -> "away"

Preference == INSTANCE PriorityMutex WITH phase <- [t \in Thread |-> Phase(t)]

IsPriorityMutex == Preference!Spec

(***************************************************************************)
(* Whoever asks with HighPriorityLock gets in, whatever the others do, or  *)
(* the program has panicked.                                               *)
(***************************************************************************)
HighGetsIn == \A h \in High : at[h] = "next" ~> at[h] = "in" \/ panicked

(***************************************************************************)
(* A thread of low priority may wait for ever behind those of high         *)
(* priority, but not once they stay away: no wake-up of Wait is lost.      *)
(***************************************************************************)
LowGetsIn ==
  <>[](\A h \in High : at[h] = "out")
    => \A l \in Low : at[l] = "queue" ~> at[l] = "in" \/ panicked
=============================================================================
