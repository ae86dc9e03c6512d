---------------------------- MODULE SharedCounter ----------------------------
(***************************************************************************)
(* Review_FinalExam/C18_MultiThread.c: threads of which one half adds and  *)
(* the other subtracts.  thread_inc holds the mutex for its whole loop,    *)
(* thread_des takes it for every step.  num += 1 is a load and a store.    *)
(***************************************************************************)
EXTENDS Integers

CONSTANTS
  NUM_THREAD,   \* 100 in the code
  STEPS,        \* rounds of a thread, 100000 in the code
  None

Thread == 0 .. NUM_THREAD - 1
Inc == {t \in Thread : t % 2 = 0}
Des == Thread \ Inc

ASSUME CounterAssumption == NUM_THREAD \in Nat /\ STEPS \in Nat \ {0} /\ None \notin Thread

VARIABLES
  num, mutex,   \* the globals; mutex is its holder or None
  destroyed,    \* is the mutex destroyed?
  created,      \* main's i, one more after pthread_mutex_destroy(), two at the end
  tpc, round, reg,      \* per thread: control, i, and the register of num += 1
  added, taken  \* history: how many steps of either kind were done

vars == <<num, mutex, destroyed, created, tpc, round, reg, added, taken>>

TypeOK ==
  /\ num \in Int /\ mutex \in Thread \cup {None}
  /\ destroyed \in BOOLEAN /\ created \in 0 .. NUM_THREAD + 2
  /\ tpc \in [Thread -> {"none", "lock", "load", "store", "unlock", "done"}]
  /\ round \in [Thread -> 0 .. STEPS] /\ reg \in [Thread -> Int]
  /\ added \in Nat /\ taken \in Nat

Init ==
  /\ num = 0 /\ mutex = None /\ destroyed = FALSE /\ created = 0
  /\ tpc = [t \in Thread |-> "none"] /\ round = [t \in Thread |-> 0]
  /\ reg = [t \in Thread |-> 0]
  /\ added = 0 /\ taken = 0

Running == created < NUM_THREAD + 2
Goto(t, s) == tpc' = [tpc EXCEPT ![t] = s]

-----------------------------------------------------------------------------
(* main *)

\* pthread_create(), whose failure goes unnoticed.
Create ==
  /\ created < NUM_THREAD /\ created' = created + 1
  /\ Goto(created, "lock") \/ UNCHANGED tpc
  /\ UNCHANGED <<num, mutex, destroyed, round, reg, added, taken>>

\* pthread_join() is given the address of the thread's name: what it then does
\* is undefined.  It may return at once, while the threads run.  A mutex that
\* they hold may refuse to be destroyed.
Destroy ==
  /\ created = NUM_THREAD /\ created' = created + 1 /\ destroyed' \in {mutex = None, TRUE}
  /\ UNCHANGED <<num, mutex, tpc, round, reg, added, taken>>

\* The process ends with main, or by a signal in pthread_join().
Return ==
  /\ created \in {NUM_THREAD, NUM_THREAD + 1} /\ created' = NUM_THREAD + 2
  /\ UNCHANGED <<num, mutex, destroyed, tpc, round, reg, added, taken>>

-----------------------------------------------------------------------------
(* The threads. *)

\* A call for a destroyed mutex may fail, which nobody looks at.
Lock(t) == (mutex = None /\ mutex' = t) \/ (destroyed /\ UNCHANGED mutex)

\* Mutation: the increments are not protected.
IncUnlocked(t) ==
  /\ Running /\ t \in Inc /\ tpc[t] = "lock" /\ Goto(t, "load")
  /\ UNCHANGED <<num, mutex, destroyed, created, round, reg, added, taken>>

IncLock(t) ==
  /\ Running /\ t \in Inc /\ tpc[t] = "lock" /\ Lock(t) /\ Goto(t, "load")
  /\ UNCHANGED <<num, destroyed, created, round, reg, added, taken>>

DesLock(t) ==
  /\ Running /\ t \in Des /\ tpc[t] = "lock" /\ Lock(t) /\ Goto(t, "load")
  /\ UNCHANGED <<num, destroyed, created, round, reg, added, taken>>

Load(t) ==
  /\ Running /\ tpc[t] = "load"
  /\ reg' = [reg EXCEPT ![t] = num] /\ Goto(t, "store")
  /\ UNCHANGED <<num, mutex, destroyed, created, round, added, taken>>

IncStore(t) ==
  /\ Running /\ t \in Inc /\ tpc[t] = "store"
  /\ num' = reg[t] + 1 /\ added' = added + 1
  /\ round' = [round EXCEPT ![t] = @ + 1]
  /\ Goto(t, IF round'[t] < STEPS THEN "load" ELSE "unlock")
  /\ UNCHANGED <<mutex, destroyed, created, reg, taken>>

DesStore(t) ==
  /\ Running /\ t \in Des /\ tpc[t] = "store"
  /\ num' = reg[t] - 1 /\ taken' = taken + 1
  /\ round' = [round EXCEPT ![t] = @ + 1]
  /\ Goto(t, "unlock")
  /\ UNCHANGED <<mutex, destroyed, created, reg, added>>

Unlock(t) ==
  /\ Running /\ tpc[t] = "unlock"
  /\ mutex' = None \/ (destroyed /\ UNCHANGED mutex)
  /\ Goto(t, IF t \in Des /\ round[t] < STEPS THEN "lock" ELSE "done")
  /\ UNCHANGED <<num, destroyed, created, round, reg, added, taken>>

-----------------------------------------------------------------------------

ThreadStep(t) ==
  IncLock(t) \/ DesLock(t) \/ Load(t) \/ IncStore(t) \/ DesStore(t) \/ Unlock(t)

Next == Create \/ Destroy \/ Return \/ \E t \in Thread : ThreadStep(t)

Spec == Init /\ [][Next]_vars

-----------------------------------------------------------------------------

(* No step is lost although the two halves lock at different grains: num   *)
(* is always what was added less what was taken (l.36, l.46), also when    *)
(* main prints it - but not after l.27, should threads run then.           *)
NoLostUpdate == destroyed \/ num = added - taken
=============================================================================
