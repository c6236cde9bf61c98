--------------------------- MODULE StormTimerProofs ---------------------------
(***************************************************************************)
(* Timers are safe for every number of Timers, kernel table entries,       *)
(* pending callbacks, queued Tasks and nested waits: TimerInv is inductive *)
(* and implies the properties that MCTimer_all checks on an instance.      *)
(***************************************************************************)
EXTENDS StormTimer, TaskQueueProofs

(* OneShotOnce speaks of dyn_tq, self and is_periodic only: a step that    *)
(* changes none of them keeps it.                                          *)
LEMMA OneShotStable ==
  ASSUME OneShotOnce, UNCHANGED <<dyn_tq, self, is_periodic>>
  PROVE  OneShotOnce'
BY DEF OneShotOnce, Queued

(* In the initial state nothing is registered, pending or queued.          *)
LEMMA TimerInit == Init => TimerInv
<1> SUFFICES ASSUME Init PROVE TimerInv
  OBVIOUS
<1>1. TypeOK
  BY DEF Init, TqInit, TypeOK, TqTypeOK
<1>2. FiringIsFront
  BY DEF Init, TqInit, FiringIsFront
<1>3. TableAgrees
  BY TimerAssumption DEF Init, TableAgrees
<1>4. PendingRegistered
  BY DEF Init, PendingRegistered
<1>5. OneShotOnce
  BY DEF Init, TqInit, OneShotOnce, Queued
<1> QED BY <1>1, <1>2, <1>3, <1>4, <1>5 DEF TimerInv

(* The payload thread's own steps leave the Timers alone, and queue no     *)
(* function of a Timer.                                                    *)
LEMMA LoopStep ==
  ASSUME TimerInv, Loop, UNCHANGED timerVars
  PROVE  TimerInv'
<1> USE DEF TimerInv
<1>1. TqTypeOK /\ FiringIsFront
  BY DEF TypeOK
<1>2. TqTypeOK' /\ FiringIsFront'
  BY <1>1, TqStep DEF Loop
<1>3. TypeOK' /\ TableAgrees' /\ PendingRegistered'
  BY <1>2 DEF TypeOK, TableAgrees, PendingRegistered, timerVars, objVars
<1>4. OneShotOnce'
  <2>1. UNCHANGED <<self, is_periodic>>
    BY DEF timerVars, objVars
  <2>2. CASE UNCHANGED dyn_tq
    BY <2>1, <2>2, OneShotStable
  <2>3. CASE run_one_pop
    <3>1. dyn_tq # <<>> /\ dyn_tq' = Tail(dyn_tq)
      BY <1>1, <2>3 DEF run_one_pop, FiringIsFront
    <3>2. /\ Len(dyn_tq') = Len(dyn_tq) - 1
          /\ Len(dyn_tq) \in Nat \ {0}
          /\ \A i \in 1..Len(dyn_tq') : dyn_tq'[i] = dyn_tq[i + 1]
      BY <1>1, <3>1, PopProperties
    <3>3. \A i \in 1..Len(dyn_tq') : i + 1 \in 1..Len(dyn_tq)
      BY <3>2
    <3>4. ASSUME NEW t \in Timers, ~is_periodic'[t]
          PROVE  /\ Queued(t)' => ~self'[t]
                 /\ \A i, j \in 1..Len(dyn_tq') :
                      dyn_tq'[i] = t /\ dyn_tq'[j] = t => i = j
      <4>1. Queued(t)' => Queued(t)
        BY <3>2, <3>3 DEF Queued
      <4>2. ASSUME NEW i \in 1..Len(dyn_tq'), NEW j \in 1..Len(dyn_tq'),
                   dyn_tq'[i] = t, dyn_tq'[j] = t
            PROVE  i = j
        <5>1. i + 1 = j + 1
          BY <2>1, <3>2, <3>3, <3>4, <4>2 DEF OneShotOnce
        <5> QED BY <5>1, <3>2
      <4> QED BY <2>1, <3>4, <4>1, <4>2 DEF OneShotOnce
    <3> QED BY <3>4 DEF OneShotOnce
  <2>4. CASE \E f \in Fns \ Timers : UserAdd(f)
    <3>1. PICK f \in Fns \ Timers : tq_add(f)
      BY <2>4 DEF UserAdd
    <3>2. /\ Len(dyn_tq') = Len(dyn_tq) + 1
          /\ dyn_tq'[Len(dyn_tq) + 1] = f
          /\ \A i \in 1..Len(dyn_tq) : dyn_tq'[i] = dyn_tq[i]
          /\ Len(dyn_tq) \in Nat
      BY <1>1, <3>1, AddProperties, LenProperties DEF TqTypeOK
    <3>3. ASSUME NEW t \in Timers, NEW i \in 1..Len(dyn_tq'), dyn_tq'[i] = t
          PROVE  i \in 1..Len(dyn_tq) /\ dyn_tq[i] = t
      BY <3>2, <3>3
    <3> QED BY <2>1, <3>3 DEF OneShotOnce, Queued
  <2> QED
    BY <2>2, <2>3, <2>4
    DEF Loop, MainDone, run_one_fire, scheduler_wait, user_wait, wait_returns
<1> QED BY <1>2, <1>3, <1>4

(* Creating a Timer: the new object was neither registered nor queued, and *)
(* the kernel gives it an entry nobody has, or none.                       *)
LEMMA CreateStep ==
  ASSUME NEW t \in Timers, NEW periodic \in BOOLEAN, NEW keep \in BOOLEAN,
         TimerInv, Timer_create(t, periodic, keep)
  PROVE  TimerInv'
<1> USE DEF TimerInv
<1>1. /\ ~self[t] /\ ~Queued(t) /\ k_timer_start(t)
      /\ self' = [self EXCEPT ![t] = TRUE]
      /\ held' = [held EXCEPT ![t] = keep]
      /\ is_periodic' = [is_periodic EXCEPT ![t] = periodic]
      /\ cancelled' = [cancelled EXCEPT ![t] = FALSE]
      /\ UNCHANGED <<dyn_tq, base, firing, frames, pending>>
  BY DEF Timer_create, Timer_new, Alive, tqVars
<1>2. id' \in [Timers -> Slots \cup {NoSlot}]
      /\ ktimer' \in [Slots -> Timers \cup {NoTimer}]
  BY <1>1 DEF k_timer_start, TypeOK
<1>3. TypeOK' /\ FiringIsFront'
  BY <1>1, <1>2 DEF TypeOK, TqTypeOK, FiringIsFront
<1>4. TableAgrees'
  BY <1>1, TimerAssumption DEF TableAgrees, TypeOK, k_timer_start
<1>5. PendingRegistered'
  <2>1. pending[t] = 0
    BY <1>1 DEF PendingRegistered, TypeOK
  <2>2. \A u \in Timers \ {t} : id'[u] = id[u]
    BY <1>1 DEF k_timer_start, TypeOK
  <2> QED BY <1>1, <2>1, <2>2 DEF PendingRegistered, TypeOK
<1>6. OneShotOnce'
  <2>1. \A i \in 1..Len(dyn_tq) : dyn_tq[i] # t
    BY <1>1 DEF Queued
  <2> QED BY <1>1, <2>1 DEF OneShotOnce, Queued, TypeOK
<1> QED BY <1>3, <1>4, <1>5, <1>6

(* Cancelling a Timer gives back the entry that is its own, if it has one. *)
LEMMA CancelStep ==
  ASSUME NEW t \in Timers, TimerInv, Timer_cancel(t)
  PROVE  TimerInv'
<1> USE DEF TimerInv
<1>1. /\ self[t] /\ k_timer_cancel(id[t])
      /\ self' = [self EXCEPT ![t] = FALSE]
      /\ cancelled' = [cancelled EXCEPT ![t] = TRUE]
      /\ UNCHANGED <<dyn_tq, base, firing, frames, held, is_periodic, id>>
  BY DEF Timer_cancel, tqVars
<1>2. CASE id[t] \in Slots
  <2>1. ktimer[id[t]] = t
    BY <1>1, <1>2 DEF TableAgrees
  <2>2. /\ ktimer' = [ktimer EXCEPT ![id[t]] = NoTimer]
        /\ pending' = [pending EXCEPT ![t] = 0]
    BY <1>1, <1>2, <2>1, TimerAssumption DEF k_timer_cancel
  <2>3. TypeOK' /\ FiringIsFront'
    BY <1>1, <2>2 DEF TypeOK, TqTypeOK, FiringIsFront
  <2>4. TableAgrees'
    BY <1>1, <1>2, <2>1, <2>2, TimerAssumption DEF TableAgrees, TypeOK
  <2>5. PendingRegistered'
    BY <1>1, <2>2 DEF PendingRegistered, TypeOK
  <2>6. OneShotOnce'
    BY <1>1 DEF OneShotOnce, Queued, TypeOK
  <2> QED BY <2>3, <2>4, <2>5, <2>6
<1>3. CASE id[t] \notin Slots
  <2>1. UNCHANGED <<ktimer, pending>> /\ pending[t] = 0
    BY <1>1, <1>3 DEF k_timer_cancel, PendingRegistered, TypeOK
  <2>2. TypeOK' /\ FiringIsFront'
    BY <1>1, <2>1 DEF TypeOK, TqTypeOK, FiringIsFront
  <2>3. TableAgrees'
    BY <1>1, <1>3, <2>1 DEF TableAgrees, TypeOK
  <2>4. PendingRegistered'
    BY <1>1, <2>1 DEF PendingRegistered, TypeOK
  <2>5. OneShotOnce'
    BY <1>1 DEF OneShotOnce, Queued, TypeOK
  <2> QED BY <2>2, <2>3, <2>4, <2>5
<1> QED BY <1>2, <1>3

(* Dropping a shared_ptr changes nothing the invariant speaks of.          *)
LEMMA ReleaseStep ==
  ASSUME NEW t \in Timers, TimerInv, Timer_release(t)
  PROVE  TimerInv'
<1> USE DEF TimerInv
<1>1. /\ held' = [held EXCEPT ![t] = FALSE]
      /\ UNCHANGED <<dyn_tq, base, firing, frames, self, is_periodic, id,
                     cancelled, ktimer, pending>>
  BY DEF Timer_release, tqVars
<1>2. TypeOK' /\ FiringIsFront'
  BY <1>1 DEF TypeOK, TqTypeOK, FiringIsFront
<1>3. TableAgrees' /\ PendingRegistered'
  BY <1>1 DEF TableAgrees, PendingRegistered
<1>4. OneShotOnce'
  BY <1>1, OneShotStable
<1> QED BY <1>2, <1>3, <1>4

(* The kernel issues a callback for a registered Timer.                    *)
LEMMA DueStep ==
  ASSUME NEW s \in Slots, TimerInv, k_timer_due(s)
  PROVE  TimerInv'
<1> USE DEF TimerInv
<1> DEFINE t == ktimer[s]
<1>1. /\ t \in Timers
      /\ pending[t] < (IF is_periodic[t] THEN MaxPending ELSE 1)
      /\ pending' = [pending EXCEPT ![t] = @ + 1]
      /\ UNCHANGED <<dyn_tq, base, firing, frames, self, held, is_periodic, id,
                     cancelled, ktimer>>
  BY DEF k_timer_due, tqVars, objVars, TypeOK
<1>2. TypeOK' /\ FiringIsFront'
  BY <1>1 DEF TypeOK, TqTypeOK, FiringIsFront
<1>3. TableAgrees'
  BY <1>1 DEF TableAgrees
<1>4. PendingRegistered'
  <2>1. self[t] /\ id[t] = s
    BY <1>1 DEF TableAgrees
  <2> QED BY <1>1, <2>1 DEF PendingRegistered, TypeOK
<1>5. OneShotOnce'
  BY <1>1, OneShotStable
<1> QED BY <1>2, <1>3, <1>4, <1>5

(* The kernel calls back.  Of a one-shot Timer it gives back the entry and *)
(* fire() clears self in the same step, so that both stay in agreement and *)
(* the function enters dyn_tq this once.                                   *)
LEMMA CallbackStep ==
  ASSUME NEW t \in Timers, TimerInv, tmr_callback(t)
  PROVE  TimerInv'
<1> USE DEF TimerInv
<1>1. /\ pending[t] > 0
      /\ pending' = [pending EXCEPT ![t] = @ - 1]
      /\ ktimer' = IF is_periodic[t] THEN ktimer
                                     ELSE [ktimer EXCEPT ![id[t]] = NoTimer]
      /\ tq_add(t)
      /\ self' = IF is_periodic[t] THEN self ELSE [self EXCEPT ![t] = FALSE]
      /\ frames' = Pumped
      /\ UNCHANGED <<base, firing, held, is_periodic, id, cancelled>>
  BY DEF tmr_callback, k_timer_take, Timer_fire
<1>2. self[t] /\ id[t] \in Slots /\ ktimer[id[t]] = t
  BY <1>1 DEF PendingRegistered, TableAgrees
<1>3. t \in Fns /\ TqTypeOK
  BY TimerAssumption DEF TypeOK
<1>4. TqTypeOK' /\ FiringIsFront'
  BY <1>1, <1>3, PumpedType, AddStep
<1>5. TypeOK'
  <2>1. pending' \in [Timers -> Nat]
    BY <1>1 DEF TypeOK
  <2>2. ktimer' \in [Slots -> Timers \cup {NoTimer}]
    BY <1>1 DEF TypeOK
  <2>3. self' \in [Timers -> BOOLEAN]
    BY <1>1 DEF TypeOK
  <2> QED BY <1>1, <1>4, <2>1, <2>2, <2>3 DEF TypeOK
<1>6. TableAgrees'
  BY <1>1, <1>2, TimerAssumption DEF TableAgrees, TypeOK
<1>7. PendingRegistered'
  BY <1>1, <1>2 DEF PendingRegistered, TypeOK
<1>8. OneShotOnce'
  <2>1. /\ Len(dyn_tq') = Len(dyn_tq) + 1
        /\ dyn_tq'[Len(dyn_tq) + 1] = t
        /\ \A i \in 1..Len(dyn_tq) : dyn_tq'[i] = dyn_tq[i]
        /\ Len(dyn_tq) \in Nat
    BY <1>1, <1>3, AddProperties, LenProperties DEF TqTypeOK
  <2>2. ASSUME NEW u \in Timers, ~is_periodic'[u]
        PROVE  /\ Queued(u)' => ~self'[u]
               /\ \A i, j \in 1..Len(dyn_tq') :
                    dyn_tq'[i] = u /\ dyn_tq'[j] = u => i = j
    <3>1. CASE u = t
      <4>1. ~self'[t]
        BY <1>1, <2>2, <3>1 DEF TypeOK
      <4>2. \A i \in 1..Len(dyn_tq) : dyn_tq[i] # t
        BY <1>1, <1>2, <2>2, <3>1 DEF OneShotOnce, Queued
      <4> QED BY <2>1, <3>1, <4>1, <4>2
    <3>2. CASE u # t
      <4>1. self'[u] = self[u] /\ is_periodic'[u] = is_periodic[u]
        BY <1>1, <3>2 DEF TypeOK
      <4>2. ASSUME NEW i \in 1..Len(dyn_tq'), dyn_tq'[i] = u
            PROVE  i \in 1..Len(dyn_tq) /\ dyn_tq[i] = u
        BY <2>1, <3>2, <4>2
      <4> QED BY <2>2, <4>1, <4>2 DEF OneShotOnce, Queued
    <3> QED BY <3>1, <3>2
  <2> QED BY <2>2 DEF OneShotOnce
<1> QED BY <1>4, <1>5, <1>6, <1>7, <1>8

(* TimerInv is inductive: one lemma per operation of the Timer, of the     *)
(* kernel and of the payload thread.                                       *)
LEMMA TimerNext == TimerInv /\ [Next]_vars => TimerInv'
<1> SUFFICES ASSUME TimerInv, [Next]_vars PROVE TimerInv'
  OBVIOUS
<1>1. CASE Loop /\ UNCHANGED timerVars
  BY <1>1, LoopStep
<1>2. CASE \E t \in Timers, periodic, keep \in BOOLEAN :
             Timer_create(t, periodic, keep)
  BY <1>2, CreateStep
<1>3. CASE \E t \in Timers :
             Timer_cancel(t) \/ Timer_release(t) \/ tmr_callback(t)
  BY <1>3, CancelStep, ReleaseStep, CallbackStep
<1>4. CASE \E s \in Slots : k_timer_due(s)
  BY <1>4, DueStep
<1>5. CASE UNCHANGED vars
  <2>1. UNCHANGED <<dyn_tq, base, firing, frames, self, held, is_periodic, id,
                    cancelled, ktimer, pending>>
    BY <1>5 DEF vars, tqVars, timerVars, objVars
  <2>2. OneShotOnce'
    BY <2>1, OneShotStable DEF TimerInv
  <2> QED BY <2>1, <2>2 DEF TimerInv, TypeOK, TqTypeOK, FiringIsFront,
                            TableAgrees, PendingRegistered
<1> QED BY <1>1, <1>2, <1>3, <1>4, <1>5 DEF Next

(* The kernel's table, its pending callbacks, the Timers' self references  *)
(* and dyn_tq agree in every reachable state.                              *)
THEOREM TimerInvariant == Spec => []TimerInv
<1> QED BY TimerInit, TimerNext, PTL DEF Spec

(* Type correctness of the payload thread, the Timers and the kernel.      *)
THEOREM TimerTypes == Spec => []TypeOK
<1>1. TimerInv => TypeOK
  BY DEF TimerInv
<1> QED BY <1>1, TimerInvariant, PTL

(* The raw Timer* that Timer::Timer() gives to the kernel never dangles.   *)
THEOREM TimerPointersLive == Spec => []KernelPointersLive
<1>1. TimerInv => KernelPointersLive
  <2> SUFFICES ASSUME TimerInv PROVE KernelPointersLive
    OBVIOUS
  <2> QED
    BY DEF TimerInv, TypeOK, TableAgrees, PendingRegistered,
           KernelPointersLive, Alive
<1> QED BY <1>1, TimerInvariant, PTL

(* The function run_one() executes is owned by the Task at the front of    *)
(* dyn_tq, whatever it does to its own Timer.                              *)
THEOREM TimerRunningFnOwned == Spec => []RunningFnOwned
<1>1. TimerInv => RunningFnOwned
  BY FiringQueued DEF TimerInv, TypeOK, RunningFnOwned, FnOwned
<1> QED BY <1>1, TimerInvariant, PTL

(* The function of a one-shot Timer is posted at most once.                *)
THEOREM TimerOneShotOnce == Spec => []OneShotOnce
<1>1. TimerInv => OneShotOnce
  BY DEF TimerInv
<1> QED BY <1>1, TimerInvariant, PTL

(* A table entry is given back only by cancel() or the one shot of the     *)
(* Timer it belongs to, never through a stale id.                          *)
THEOREM TimerEntryReleasedByOwner == Spec => EntryReleasedByOwner
<1> DEFINE Owner == \A s \in Slots :
             ktimer[s] # NoTimer /\ ktimer'[s] # ktimer[s] => ~self'[ktimer[s]]
<1>1. TimerInv /\ [Next]_vars => [Owner]_vars
  <2> SUFFICES ASSUME TimerInv, Next, NEW s \in Slots,
                      ktimer[s] # NoTimer, ktimer'[s] # ktimer[s]
               PROVE  ~self'[ktimer[s]]
    OBVIOUS
  <2>0. ktimer[s] \in Timers /\ id[ktimer[s]] = s /\ TypeOK /\ TableAgrees
    BY DEF TimerInv, TypeOK, TableAgrees
  <2>1. CASE Loop /\ UNCHANGED timerVars
    BY <2>1 DEF timerVars
  <2>2. ASSUME NEW t \in Timers, NEW periodic \in BOOLEAN, NEW keep \in BOOLEAN,
               Timer_create(t, periodic, keep)
        PROVE  FALSE
    BY <2>0, <2>2 DEF Timer_create, Timer_new, k_timer_start, TypeOK
  <2>3. ASSUME NEW t \in Timers, Timer_cancel(t)
        PROVE  ~self'[ktimer[s]]
    <3>1. self[t] /\ k_timer_cancel(id[t]) /\ self' = [self EXCEPT ![t] = FALSE]
      BY <2>3 DEF Timer_cancel
    <3>2. id[t] = s
      BY <2>0, <3>1 DEF k_timer_cancel, TypeOK
    <3>3. ktimer[s] = t
      BY <2>0, <3>1, <3>2 DEF TableAgrees
    <3> QED BY <2>0, <3>1, <3>3 DEF TypeOK
  <2>4. ASSUME NEW t \in Timers, Timer_release(t)
        PROVE  FALSE
    BY <2>4 DEF Timer_release
  <2>5. ASSUME NEW t \in Timers, tmr_callback(t)
        PROVE  ~self'[ktimer[s]]
    <3>1. /\ pending[t] > 0
          /\ ktimer' = IF is_periodic[t] THEN ktimer
                                         ELSE [ktimer EXCEPT ![id[t]] = NoTimer]
          /\ self' = IF is_periodic[t] THEN self ELSE [self EXCEPT ![t] = FALSE]
      BY <2>5 DEF tmr_callback, k_timer_take, Timer_fire
    <3>2. ~is_periodic[t] /\ id[t] = s
      BY <2>0, <3>1 DEF TypeOK
    <3>3. self[t]
      BY <3>1 DEF TimerInv, PendingRegistered
    <3>4. ktimer[s] = t
      BY <2>0, <3>2, <3>3 DEF TableAgrees
    <3> QED BY <2>0, <3>1, <3>2, <3>4 DEF TypeOK
  <2>6. ASSUME NEW r \in Slots, k_timer_due(r)
        PROVE  FALSE
    BY <2>6 DEF k_timer_due
  <2> QED BY <2>1, <2>2, <2>3, <2>4, <2>5, <2>6 DEF Next
<1> QED BY <1>1, TimerInvariant, PTL DEF Spec, EntryReleasedByOwner

(* No Task is posted for a Timer after its cancel().                       *)
THEOREM TimerCancelledNotQueued == Spec => CancelledNotQueued
<1> DEFINE Silent == \A t \in Timers :
             cancelled[t] /\ Len(dyn_tq') > Len(dyn_tq)
               => dyn_tq'[Len(dyn_tq')] # t
<1>1. TimerInv /\ [Next]_vars => [Silent]_vars
  <2> SUFFICES ASSUME TimerInv, Next, NEW t \in Timers, cancelled[t],
                      Len(dyn_tq') > Len(dyn_tq)
               PROVE  dyn_tq'[Len(dyn_tq')] # t
    OBVIOUS
  <2>0. dyn_tq \in Seq(Fns) /\ Len(dyn_tq) \in Nat /\ TqTypeOK
    BY LenProperties DEF TimerInv, TypeOK, TqTypeOK
  <2>1. ASSUME NEW f \in Fns, tq_add(f)
        PROVE  dyn_tq'[Len(dyn_tq')] = f
    BY <2>0, <2>1, AddProperties
  <2>2. CASE UNCHANGED dyn_tq
    BY <2>0, <2>2
  <2>3. CASE run_one_pop
    <3>1. Len(dyn_tq') = Len(dyn_tq) - 1
      BY <2>0, <2>3, PopProperties DEF run_one_pop, TimerInv, FiringIsFront
    <3> QED BY <2>0, <3>1
  <2>4. CASE \E f \in Fns \ Timers : UserAdd(f)
    BY <2>1, <2>4 DEF UserAdd
  <2>5. CASE \E u \in Timers : tmr_callback(u)
    <3>1. PICK u \in Timers : tmr_callback(u)
      BY <2>5
    <3>2. tq_add(u) /\ pending[u] > 0 /\ u \in Fns
      BY <3>1, TimerAssumption DEF tmr_callback, Timer_fire, k_timer_take
    <3>3. ~cancelled[u]
      BY <3>2 DEF TimerInv, PendingRegistered
    <3> QED BY <2>1, <3>2, <3>3
  <2> QED
    BY <2>2, <2>3, <2>4, <2>5
    DEF Next, Loop, MainDone, run_one_fire, scheduler_wait, user_wait,
        wait_returns, Timer_create, Timer_cancel, Timer_release, k_timer_due,
        tqVars
<1> QED BY <1>1, TimerInvariant, PTL DEF Spec, CancelledNotQueued
=============================================================================
