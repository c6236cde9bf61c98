------------------------------ MODULE TaskQueue ------------------------------
(***************************************************************************)
(* The payload's only thread (test/libstorm.cc, namespace storm::tq): the  *)
(* task queue dyn_tq, the scheduler loop that drains it, and the points at *)
(* which the kernel may call back into the payload.                        *)
(*                                                                         *)
(* The kernel never preempts the payload: it calls a registered callback   *)
(* only from inside k_wait_callback() or k_run_callback(), or by itself    *)
(* once main() has returned.  The component modules (StormTimer,           *)
(* StormGpio, StormUdp, StormI2c) extend this one, add the state of their  *)
(* component and of the kernel driver it uses, and say which callbacks are *)
(* pending.                                                                *)
(***************************************************************************)
EXTENDS Naturals, Sequences

CONSTANTS
  Fns,       \* the std::function objects that can be targets of a Task
  NoFn,      \* no Task is being fired
  Handlers,  \* objects whose user callback the kernel runs directly
  MainEnds,  \* how main() may end: a subset of {"scheduler", "return"}
  MaxQueued, \* bound: new events arrive only while dyn_tq is shorter
  MaxDepth   \* bound: user code re-enters the kernel only below this depth

ASSUME TaskQueueAssumption ==
  /\ NoFn \notin Fns
  /\ "wait" \notin Handlers /\ "ran" \notin Handlers
  /\ MainEnds \subseteq {"scheduler", "return"}
  /\ MaxQueued \in Nat /\ MaxDepth \in Nat

VARIABLES
  dyn_tq,  \* std::queue<Task>: each Task is its shared function object
  base,    \* bottom of the call stack: main(), scheduler(), or main returned
  firing,  \* the function run_one() is executing, between fire() and pop()
  frames   \* what is stacked above: k_wait_callback() and direct handlers

tqVars == <<dyn_tq, base, firing, frames>>

Queued(f) == \E i \in 1..Len(dyn_tq) : dyn_tq[i] = f

Top == frames[Len(frames)]

Pop(seq) == SubSeq(seq, 1, Len(seq) - 1)

(***************************************************************************)
(* Who has control.  A "wait" frame is k_wait_callback() before it ran a   *)
(* callback, a "ran" frame the same call after it ran one.                 *)
(***************************************************************************)
InWait == frames # <<>> /\ Top \in {"wait", "ran"}

UserCode == IF frames = <<>> THEN base = "main" \/ firing # NoFn
                             ELSE Top \in Handlers

KernelRuns == IF frames = <<>> THEN base = "idle" ELSE InWait

AtLoopTop == base = "sched" /\ firing = NoFn /\ frames = <<>>

(* The kernel may call back: it has control, or user code asked for one    *)
(* callback with k_run_callback().                                         *)
CallbackPoint == KernelRuns \/ (UserCode /\ Len(frames) < MaxDepth)

(* A function of the user's waits for a callback that has not come.        *)
UserBlocked ==
  /\ frames # <<>> /\ Top = "wait"
  /\ base = "main" \/ firing # NoFn \/ Len(frames) > 1

Pumped == IF InWait THEN [frames EXCEPT ![Len(frames)] = "ran"] ELSE frames

-----------------------------------------------------------------------------
TqInit ==
  /\ dyn_tq = <<>>
  /\ base = "main"
  /\ firing = NoFn
  /\ frames = <<>>

(* Mutant: the Task gets a target that was already moved from.             *)
tq_add_moved(f) == dyn_tq' = Append(dyn_tq, NoFn)

tq_add(f) == dyn_tq' = Append(dyn_tq, f)

(* User code calls tq::add() itself, with a function only the Task owns.   *)
UserAdd(f) ==
  /\ UserCode
  /\ Len(dyn_tq) < MaxQueued
  /\ tq_add(f)
  /\ UNCHANGED <<base, firing, frames>>

(* main() ends: it calls tq::scheduler(), which never returns, or it       *)
(* returns through _start2() to the kernel.                                *)
MainDone ==
  /\ base = "main" /\ frames = <<>>
  /\ \/ "scheduler" \in MainEnds /\ base' = "sched"
     \/ "return" \in MainEnds /\ base' = "idle"
  /\ UNCHANGED <<dyn_tq, firing, frames>>

(* Mutant: the Task is popped before it is fired.                          *)
run_one_fire_popped ==
  /\ AtLoopTop
  /\ dyn_tq # <<>>
  /\ firing' = Head(dyn_tq)
  /\ dyn_tq' = Tail(dyn_tq)
  /\ UNCHANGED <<base, frames>>

(* run_one() up to the call of the user's function: the Task stays at the  *)
(* front of dyn_tq while it runs.                                          *)
run_one_fire ==
  /\ AtLoopTop
  /\ dyn_tq # <<>>
  /\ firing' = Head(dyn_tq)
  /\ UNCHANGED <<dyn_tq, base, frames>>

(* Mutant: the fired Task is never popped.                                 *)
run_one_pop_kept ==
  /\ firing # NoFn /\ frames = <<>>
  /\ firing' = NoFn
  /\ UNCHANGED <<dyn_tq, base, frames>>

(* The user's function returns and run_one() pops the front Task.          *)
run_one_pop ==
  /\ firing # NoFn /\ frames = <<>>
  /\ dyn_tq' = Tail(dyn_tq)
  /\ firing' = NoFn
  /\ UNCHANGED <<base, frames>>

(* Mutant: the scheduler runs one Task between two waits, not all of them. *)
scheduler_wait_early ==
  /\ AtLoopTop
  /\ frames' = Append(frames, "wait")
  /\ UNCHANGED <<dyn_tq, base, firing>>

(* run_one() returned false: the scheduler blocks in k_wait_callback().    *)
scheduler_wait ==
  /\ AtLoopTop
  /\ dyn_tq = <<>>
  /\ frames' = Append(frames, "wait")
  /\ UNCHANGED <<dyn_tq, base, firing>>

(* User code calls k_wait_callback() to make an asynchronous call          *)
(* synchronous.                                                            *)
user_wait ==
  /\ UserCode
  /\ Len(frames) < MaxDepth
  /\ frames' = Append(frames, "wait")
  /\ UNCHANGED <<dyn_tq, base, firing>>

(* k_wait_callback() returns once it ran a callback and none is left.      *)
wait_returns(nothingPending) ==
  /\ frames # <<>> /\ Top = "ran"
  /\ nothingPending
  /\ frames' = Pop(frames)
  /\ UNCHANGED <<dyn_tq, base, firing>>

-----------------------------------------------------------------------------
TqTypeOK ==
  /\ dyn_tq \in Seq(Fns)
  /\ base \in {"main", "sched", "idle"}
  /\ firing \in Fns \cup {NoFn}
  /\ frames \in Seq({"wait", "ran"} \cup Handlers)

(* The Task being fired is the front of dyn_tq: nothing a user function    *)
(* does (posting, cancelling, waiting) can replace it.                     *)
FiringIsFront ==
  firing # NoFn => /\ base = "sched"
                   /\ dyn_tq # <<>>
                   /\ firing = Head(dyn_tq)
=============================================================================
