------------------------------ MODULE StormTimer ------------------------------
(***************************************************************************)
(* storm::Timer (test/libstorm.cc, test/libstorm.h) over the task queue    *)
(* and the kernel's timer driver.                                          *)
(*                                                                         *)
(* A member of Timers stands for a Timer object together with the          *)
(* std::function it owns.  The object is alive while its own "circle       *)
(* reference" self or a shared_ptr of the user refers to it; the function  *)
(* also while a Task in dyn_tq does.  The name is used again for a new     *)
(* Timer once neither is left.                                             *)
(*                                                                         *)
(* The kernel side is external: a table of timers, addressed by the id     *)
(* that syscall 0x201 returns and holding the raw pointer this, and the    *)
(* callbacks issued but not yet run.  A one-shot timer's table entry is    *)
(* given back when its callback runs; syscall 0x205 gives the entry back   *)
(* and withdraws the callbacks still pending in the kernel, which is what  *)
(* the comment above tmr_callback() relies on.                             *)
(***************************************************************************)
EXTENDS TaskQueue

CONSTANTS
  Timers,     \* Timer objects
  Slots,      \* ids of the kernel's timer table
  NoTimer,    \* free table entry
  NoSlot,     \* what 0x201 returns when the table is full
  MaxPending  \* bound: unrun kernel callbacks of one timer

ASSUME TimerAssumption ==
  /\ Timers \subseteq Fns
  /\ NoTimer \notin Timers
  /\ NoSlot \notin Slots
  /\ MaxPending \in Nat \ {0}

VARIABLES
  self,         \* Timer::self is set
  held,         \* user code keeps a shared_ptr to the Timer
  is_periodic,  \* Timer::is_periodic
  id,           \* Timer::id
  cancelled,    \* history: cancel() took effect on this Timer
  ktimer,       \* kernel: table entry -> the Timer* it calls back
  pending       \* kernel: callbacks issued and not yet run

objVars == <<self, held, is_periodic, id, cancelled>>
timerVars == <<objVars, ktimer, pending>>
vars == <<tqVars, timerVars>>

Alive(t) == self[t] \/ held[t]

FnOwned(f) == Queued(f) \/ (f \in Timers /\ Alive(f))

Init ==
  /\ TqInit
  /\ self = [t \in Timers |-> FALSE]
  /\ held = [t \in Timers |-> FALSE]
  /\ is_periodic = [t \in Timers |-> FALSE]
  /\ id = [t \in Timers |-> NoSlot]
  /\ cancelled = [t \in Timers |-> FALSE]
  /\ ktimer = [s \in Slots |-> NoTimer]
  /\ pending = [t \in Timers |-> 0]

-----------------------------------------------------------------------------
(* Kernel, external.                                                       *)

(* Syscall 0x201: take a free table entry, or report failure (the table is *)
(* full, or holds entries of others that this module does not show).       *)
k_timer_start(t) ==
  \/ \E s \in Slots :
       /\ ktimer[s] = NoTimer
       /\ ktimer' = [ktimer EXCEPT ![s] = t]
       /\ id' = [id EXCEPT ![t] = s]
  \/ id' = [id EXCEPT ![t] = NoSlot] /\ UNCHANGED ktimer

(* Syscall 0x205 on table entry s.                                         *)
k_timer_cancel(s) ==
  IF s \in Slots /\ ktimer[s] # NoTimer
    THEN /\ ktimer' = [ktimer EXCEPT ![s] = NoTimer]
         /\ pending' = [pending EXCEPT ![ktimer[s]] = 0]
    ELSE UNCHANGED <<ktimer, pending>>

(* A table entry comes due and the kernel issues a callback; a one-shot    *)
(* entry comes due once.                                                   *)
k_timer_due(s) ==
  LET t == ktimer[s] IN
  /\ t # NoTimer
  /\ Len(dyn_tq) < MaxQueued
  /\ pending[t] < (IF is_periodic[t] THEN MaxPending ELSE 1)
  /\ pending' = [pending EXCEPT ![t] = @ + 1]
  /\ UNCHANGED <<tqVars, objVars, ktimer>>

(* The kernel takes one pending callback of t; a one-shot gives its table  *)
(* entry back.                                                             *)
k_timer_take(t) ==
  /\ pending[t] > 0
  /\ pending' = [pending EXCEPT ![t] = @ - 1]
  /\ ktimer' = IF is_periodic[t] THEN ktimer
                                 ELSE [ktimer EXCEPT ![id[t]] = NoTimer]

-----------------------------------------------------------------------------
(* Payload.                                                                *)

(* The constructor: note the kind, register this with the kernel.          *)
Timer_new(t, periodic) ==
  /\ is_periodic' = [is_periodic EXCEPT ![t] = periodic]
  /\ k_timer_start(t)

(* Timer::once() and Timer::periodic(): construct and set the circle       *)
(* reference, whether or not the kernel took the timer.  The caller keeps  *)
(* the result or not.                                                      *)
Timer_create(t, periodic, keep) ==
  /\ UserCode
  /\ ~Alive(t) /\ ~Queued(t)
  /\ Timer_new(t, periodic)
  /\ self' = [self EXCEPT ![t] = TRUE]
  /\ held' = [held EXCEPT ![t] = keep]
  /\ cancelled' = [cancelled EXCEPT ![t] = FALSE]
  /\ UNCHANGED <<tqVars, pending>>

(* Mutant: cancel() does not look at self.                                 *)
Timer_cancel_unguarded(t) ==
  /\ UserCode /\ held[t]
  /\ k_timer_cancel(id[t])
  /\ self' = [self EXCEPT ![t] = FALSE]
  /\ cancelled' = [cancelled EXCEPT ![t] = TRUE]
  /\ UNCHANGED <<tqVars, held, is_periodic, id>>

(* Mutant: cancel() does not tell the kernel.                              *)
Timer_cancel_local(t) ==
  /\ UserCode /\ held[t]
  /\ self[t]
  /\ self' = [self EXCEPT ![t] = FALSE]
  /\ cancelled' = [cancelled EXCEPT ![t] = TRUE]
  /\ UNCHANGED <<tqVars, held, is_periodic, id, ktimer, pending>>

(* Timer::cancel(); when self is not set it does nothing.                  *)
Timer_cancel(t) ==
  /\ UserCode /\ held[t]
  /\ self[t]
  /\ k_timer_cancel(id[t])
  /\ self' = [self EXCEPT ![t] = FALSE]
  /\ cancelled' = [cancelled EXCEPT ![t] = TRUE]
  /\ UNCHANGED <<tqVars, held, is_periodic, id>>

(* User code lets go of its shared_ptr.                                    *)
Timer_release(t) ==
  /\ UserCode /\ held[t]
  /\ held' = [held EXCEPT ![t] = FALSE]
  /\ UNCHANGED <<tqVars, self, is_periodic, id, cancelled, ktimer, pending>>

(* Mutant: fire() undangles periodic Timers too.                           *)
Timer_fire_all_reset(t) ==
  /\ tq_add(t)
  /\ self' = [self EXCEPT ![t] = FALSE]

(* Mutant: fire() never undangles.                                         *)
Timer_fire_no_reset(t) ==
  /\ tq_add(t)
  /\ UNCHANGED self

(* Timer::fire(): post the callback; a one-shot Timer undangles itself.    *)
Timer_fire(t) ==
  /\ tq_add(t)
  /\ self' = IF is_periodic[t] THEN self ELSE [self EXCEPT ![t] = FALSE]

(* The kernel calls tmr_callback(this).                                    *)
tmr_callback(t) ==
  /\ CallbackPoint
  /\ k_timer_take(t)
  /\ Timer_fire(t)
  /\ frames' = Pumped
  /\ UNCHANGED <<base, firing, held, is_periodic, id, cancelled>>

Loop ==
  \/ MainDone
  \/ run_one_fire
  \/ run_one_pop
  \/ scheduler_wait
  \/ user_wait
  \/ wait_returns(\A t \in Timers : pending[t] = 0)
  \/ \E f \in Fns \ Timers : UserAdd(f)

Next ==
  \/ Loop /\ UNCHANGED timerVars
  \/ \E t \in Timers :
       \/ \E periodic, keep \in BOOLEAN : Timer_create(t, periodic, keep)
       \/ Timer_cancel(t)
       \/ Timer_release(t)
       \/ tmr_callback(t)
  \/ \E s \in Slots : k_timer_due(s)

Spec == Init /\ [][Next]_vars

(* The scheduler keeps going; main() and user functions that now and then  *)
(* wait or poll return in the end; the kernel, when it has control, runs   *)
(* what it issued, and its timers come due.  Coming due is disabled now    *)
(* and then by the bound MaxQueued only, hence strong.                     *)
Fairness ==
  /\ SF_vars(MainDone /\ UNCHANGED timerVars)
  /\ WF_vars(run_one_fire /\ UNCHANGED timerVars)
  /\ SF_vars(run_one_pop /\ UNCHANGED timerVars)
  /\ WF_vars(scheduler_wait /\ UNCHANGED timerVars)
  /\ SF_vars(wait_returns(\A t \in Timers : pending[t] = 0)
               /\ UNCHANGED timerVars)
  /\ \A t \in Timers : WF_vars(KernelRuns /\ tmr_callback(t))
  /\ \A s \in Slots : SF_vars(k_timer_due(s))

FairSpec == Spec /\ Fairness

-----------------------------------------------------------------------------
(* Type invariant of the payload thread, the Timer objects and the kernel. *)
TypeOK ==
  /\ TqTypeOK
  /\ self \in [Timers -> BOOLEAN]
  /\ held \in [Timers -> BOOLEAN]
  /\ is_periodic \in [Timers -> BOOLEAN]
  /\ id \in [Timers -> Slots \cup {NoSlot}]
  /\ cancelled \in [Timers -> BOOLEAN]
  /\ ktimer \in [Slots -> Timers \cup {NoTimer}]
  /\ pending \in [Timers -> Nat]

(* The raw Timer* given to the kernel is never dangling: while the kernel  *)
(* may still call tmr_callback(t), the Timer t has not been deconstructed  *)
(* (the safety argument in the comment above tmr_callback()).              *)
KernelPointersLive ==
  /\ \A s \in Slots : ktimer[s] # NoTimer => Alive(ktimer[s])
  /\ \A t \in Timers : pending[t] > 0 => Alive(t)

(* The std::function that run_one() is executing is owned throughout, even *)
(* if it cancels its Timer and drops the last shared_ptr to it: the Task   *)
(* is popped only after fire() returned.                                   *)
RunningFnOwned == firing # NoFn => FnOwned(firing)

(* A one-shot Timer that was not yet fired is not queued, and one that was *)
(* is queued at most once: fire() clears self before the kernel could call *)
(* it again.                                                               *)
OneShotOnce ==
  \A t \in Timers : ~is_periodic[t] =>
    /\ Queued(t) => ~self[t]
    /\ \A i, j \in 1..Len(dyn_tq) : dyn_tq[i] = t /\ dyn_tq[j] = t => i = j

(* The kernel table and the Timer objects agree: an entry points to the    *)
(* Timer that has this id and its self reference, and such a Timer has its *)
(* entry.                                                                  *)
TableAgrees ==
  \A t \in Timers, s \in Slots : ktimer[s] = t <=> self[t] /\ id[t] = s

(* A callback is pending only for a Timer with a table entry, at most one  *)
(* for a one-shot; a cancelled Timer has no self reference.                *)
PendingRegistered ==
  \A t \in Timers :
    /\ pending[t] > 0 => self[t] /\ id[t] \in Slots
    /\ ~is_periodic[t] => pending[t] <= 1
    /\ cancelled[t] => ~self[t]

(* The inductive invariant from which the properties above and below       *)
(* follow: the kernel's table, its pending callbacks, the self references  *)
(* and dyn_tq stay in step through every operation.                        *)
TimerInv ==
  /\ TypeOK
  /\ FiringIsFront
  /\ TableAgrees
  /\ PendingRegistered
  /\ OneShotOnce

(* The kernel entry of a Timer is released only together with that Timer's *)
(* own self reference: cancel() with an id that the kernel has meanwhile   *)
(* given to another Timer never happens.                                   *)
EntryReleasedByOwner ==
  [][\A s \in Slots :
       ktimer[s] # NoTimer /\ ktimer'[s] # ktimer[s] => ~self'[ktimer[s]]]_vars

(* Once cancel() took effect, no further Task for the Timer is queued: the *)
(* only late runs are those of Tasks queued before cancel().               *)
CancelledNotQueued ==
  [][\A t \in Timers :
       cancelled[t] /\ Len(dyn_tq') > Len(dyn_tq)
         => dyn_tq'[Len(dyn_tq')] # t]_vars

(* The comment above tmr_callback() says of cancel() that it "also purges  *)
(* any previously issued callbacks from the task queue": no function of a  *)
(* cancelled Timer is started.                                             *)
CancelPurgesTaskQueue ==
  [][\A t \in Timers : cancelled[t] /\ firing # t => firing' # t]_vars

(* A callback is owed for t: the kernel timer runs, or a Task is queued.   *)
Owed(t) == (self[t] /\ id[t] \in Slots) \/ Queued(t)

(* User code posts a Task, or runs a callback itself with                  *)
(* k_run_callback().                                                       *)
UserPumps ==
  /\ UserCode
  /\ (\E f \in Fns \ Timers : UserAdd(f)) \/ (\E t \in Timers : tmr_callback(t))

(* Every Timer the kernel accepted runs its function or is cancelled.      *)
(* That holds unless user code keeps dyn_tq filled for ever (scheduler()   *)
(* asks the kernel for callbacks only when dyn_tq is empty), waits for a   *)
(* callback that never comes, or let main() return (see below).            *)
TimersRun ==
  \/ []<><<UserPumps>>_vars
  \/ <>[]UserBlocked
  \/ \A t \in Timers :
       Owed(t) ~> (firing = t \/ cancelled[t] \/ base = "idle")

(* _start2() says of main() returning that "we would still execute any     *)
(* callbacks that it asked for".                                           *)
CallbacksSurviveMain ==
  \A t \in Timers : (base = "idle" /\ Owed(t)) ~> (firing = t)
=============================================================================
