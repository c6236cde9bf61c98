------------------------------ MODULE StormGpio ------------------------------
(***************************************************************************)
(* GPIO interrupts (test/libstorm.cc, namespace storm::gpio): the array    *)
(* irq_ptrs of registered callbacks, enable_irq(), disable_irq() and the   *)
(* kernel's call of irq_callback(idx).                                     *)
(*                                                                         *)
(* The array has NumPtrs entries.  Index NumPtrs, which irq_callback()'s   *)
(* test idx <= 20 admits and pin GP0 uses, is the word behind the array:   *)
(* in the build under test/ it is another zero-initialised object, so an   *)
(* access reads and writes that object as if it were one more entry.       *)
(*                                                                         *)
(* The kernel side is external: whether a pin's interrupt is on, and the   *)
(* interrupts noticed but not yet passed to irq_callback().  Switching a   *)
(* pin off does not withdraw the latter, and switching one on may be       *)
(* refused, which enable_irq() does not notice.                            *)
(***************************************************************************)
EXTENDS TaskQueue

CONSTANTS
  NumPtrs,    \* length of irq_ptrs (20 in the code)
  Pins,       \* the Pin::idx values in use
  IrqFns,     \* callbacks passed to enable_irq(); NoFn stands for nullptr
  MaxPending  \* bound: interrupts of one pin not yet passed on

ASSUME GpioAssumption ==
  /\ NumPtrs \in Nat
  /\ Pins \subseteq 0..NumPtrs
  /\ IrqFns \subseteq Fns
  /\ MaxPending \in Nat \ {0}

VARIABLES
  irq_ptrs,  \* the registered callback of each index, NoFn for nullptr
  held,      \* user code keeps a shared_ptr to the function
  kirq,      \* kernel: the pin's interrupt is switched on
  pending,   \* kernel: interrupts not yet passed to irq_callback()
  refused,   \* history: pins whose callback was registered and refused
  bare       \* history: pins switched on by an enable_irq() with nullptr

notes == <<refused, bare>>
gpioVars == <<irq_ptrs, held, kirq, pending, notes>>
vars == <<tqVars, gpioVars>>

Registered(f) == \E p \in DOMAIN irq_ptrs : irq_ptrs[p] = f

FnOwned(f) == Queued(f) \/ (f \in IrqFns /\ (held[f] \/ Registered(f)))

Init ==
  /\ TqInit
  /\ irq_ptrs = [p \in 0..NumPtrs |-> NoFn]
  /\ held = [f \in IrqFns |-> FALSE]
  /\ kirq = [p \in Pins |-> FALSE]
  /\ pending = [p \in Pins |-> 0]
  /\ refused = {} /\ bare = {}

-----------------------------------------------------------------------------
(* The pin sees its edge (external).                                       *)
k_irq(p) ==
  /\ kirq[p]
  /\ Len(dyn_tq) < MaxQueued
  /\ pending[p] < MaxPending
  /\ pending' = [pending EXCEPT ![p] = @ + 1]
  /\ UNCHANGED <<tqVars, irq_ptrs, held, kirq, notes>>

(* Mutant: disable_irq() does not tell the kernel.                         *)
disable_irq_local(p) ==
  /\ UserCode
  /\ irq_ptrs[p] # NoFn
  /\ irq_ptrs' = [irq_ptrs EXCEPT ![p] = NoFn]
  /\ refused' = refused \ {p}
  /\ UNCHANGED <<tqVars, held, kirq, pending, bare>>

(* Mutant: disable_irq() leaves the callback registered.                   *)
disable_irq_no_reset(p) ==
  /\ UserCode
  /\ irq_ptrs[p] # NoFn
  /\ kirq' = [kirq EXCEPT ![p] = FALSE]
  /\ refused' = refused \ {p}
  /\ UNCHANGED <<tqVars, irq_ptrs, held, pending, bare>>

(* disable_irq(); it does nothing when no callback is registered.          *)
disable_irq(p) ==
  /\ UserCode
  /\ irq_ptrs[p] # NoFn
  /\ kirq' = [kirq EXCEPT ![p] = FALSE]
  /\ irq_ptrs' = [irq_ptrs EXCEPT ![p] = NoFn]
  /\ refused' = refused \ {p}
  /\ UNCHANGED <<tqVars, held, pending, bare>>

(* enable_irq() with nullptr, or with a function that user code already    *)
(* holds or makes for the call, and keeps or not.  It disables the pin     *)
(* first, so that whatever was registered is replaced.  The kernel         *)
(* switches the interrupt on or refuses and leaves it as it is then; the   *)
(* result is not looked at.                                                *)
enable_irq(p, f, keep, accepted) ==
  /\ UserCode
  /\ f # NoFn => held[f] \/ ~FnOwned(f)
  /\ irq_ptrs' = [irq_ptrs EXCEPT ![p] = f]
  /\ kirq' = [kirq EXCEPT ![p] = accepted \/ (@ /\ irq_ptrs[p] = NoFn)]
  /\ held' = [g \in IrqFns |-> IF g = f THEN keep ELSE held[g]]
  /\ refused' = IF accepted \/ f = NoFn THEN refused \ {p}
                                        ELSE refused \cup {p}
  /\ bare' = IF kirq'[p] /\ f = NoFn THEN bare \cup {p} ELSE bare \ {p}
  /\ UNCHANGED <<tqVars, pending>>

(* User code lets go of a function it kept.                                *)
release(f) ==
  /\ UserCode
  /\ held[f]
  /\ held' = [held EXCEPT ![f] = FALSE]
  /\ UNCHANGED <<tqVars, irq_ptrs, kirq, pending, notes>>

(* Mutant: irq_callback() does not test for a null pointer.                *)
irq_callback_unchecked(idx) ==
  /\ CallbackPoint
  /\ pending[idx] > 0
  /\ pending' = [pending EXCEPT ![idx] = @ - 1]
  /\ tq_add(irq_ptrs[idx])
  /\ frames' = Pumped
  /\ UNCHANGED <<base, firing, irq_ptrs, held, kirq, notes>>

(* The kernel calls irq_callback(idx).                                     *)
irq_callback(idx) ==
  /\ CallbackPoint
  /\ pending[idx] > 0
  /\ pending' = [pending EXCEPT ![idx] = @ - 1]
  /\ IF idx <= NumPtrs /\ irq_ptrs[idx] # NoFn
       THEN tq_add(irq_ptrs[idx])
       ELSE UNCHANGED dyn_tq
  /\ frames' = Pumped
  /\ UNCHANGED <<base, firing, irq_ptrs, held, kirq, notes>>

Loop ==
  \/ MainDone
  \/ run_one_fire
  \/ run_one_pop
  \/ scheduler_wait
  \/ user_wait
  \/ wait_returns(\A p \in Pins : pending[p] = 0)
  \/ \E f \in Fns \ IrqFns : UserAdd(f)

Next ==
  \/ Loop /\ UNCHANGED gpioVars
  \/ \E p \in Pins :
       \/ disable_irq(p)
       \/ \E f \in IrqFns \cup {NoFn}, keep, accepted \in BOOLEAN :
            enable_irq(p, f, keep, accepted)
       \/ irq_callback(p)
       \/ k_irq(p)
  \/ \E f \in IrqFns : release(f)

Spec == Init /\ [][Next]_vars

(* As for timers: main() ends, user functions return, the scheduler and    *)
(* the kernel keep going.  No edge is ever guaranteed to come.             *)
Fairness ==
  /\ SF_vars(MainDone /\ UNCHANGED gpioVars)
  /\ WF_vars(run_one_fire /\ UNCHANGED gpioVars)
  /\ SF_vars(run_one_pop /\ UNCHANGED gpioVars)
  /\ WF_vars(scheduler_wait /\ UNCHANGED gpioVars)
  /\ SF_vars(wait_returns(\A p \in Pins : pending[p] = 0)
               /\ UNCHANGED gpioVars)
  /\ \A p \in Pins : WF_vars(KernelRuns /\ irq_callback(p))

FairSpec == Spec /\ Fairness

-----------------------------------------------------------------------------
(* Type invariant; a Task always has a target to call, so Task::fire()     *)
(* never calls through a null shared_ptr.                                  *)
TypeOK ==
  /\ TqTypeOK
  /\ irq_ptrs \in [0..NumPtrs -> IrqFns \cup {NoFn}]
  /\ held \in [IrqFns -> BOOLEAN]
  /\ kirq \in [Pins -> BOOLEAN]
  /\ pending \in [Pins -> Nat]
  /\ refused \subseteq Pins /\ bare \subseteq Pins

(* The function that run_one() is executing is owned throughout, even if   *)
(* it disables or re-registers its own pin and drops its shared_ptr.       *)
RunningFnOwned == firing # NoFn => FnOwned(firing)

(* enable_irq() and disable_irq() keep the kernel and irq_ptrs in step,    *)
(* whatever was registered before: a pin has a callback only while its     *)
(* interrupt is on or the kernel refused to switch it on, and its          *)
(* interrupt is on only while it has a callback or was registered with     *)
(* nullptr, which disable_irq() then does not undo.                        *)
RegistrationAgrees ==
  \A p \in Pins :
    /\ irq_ptrs[p] # NoFn => kirq[p] \/ p \in refused
    /\ kirq[p] => irq_ptrs[p] # NoFn \/ p \in bare
    /\ p \in bare => irq_ptrs[p] = NoFn

(* The inductive invariant: the payload thread and the registrations.      *)
GpioInv ==
  /\ TypeOK
  /\ FiringIsFront
  /\ RegistrationAgrees

(* An interrupt noticed before disable_irq() and passed on after it runs   *)
(* nothing: irq_callback() finds no callback and drops it.  So does one of *)
(* a pin registered with nullptr.  A pin that was registered again and     *)
(* refused is not off in this sense: its new callback gets the interrupts  *)
(* that are left.                                                          *)
LateIrqDropped ==
  [][\A p \in Pins :
       /\ p \in bare \/ (~kirq[p] /\ p \notin refused)
       /\ pending'[p] < pending[p]
       => dyn_tq' = dyn_tq]_vars

(* Registering a callback never changes memory behind the array declared   *)
(* as irq_ptrs [20].                                                       *)
StaysInArray == irq_ptrs[NumPtrs] = NoFn

(* User code posts a Task, or runs a callback itself with                  *)
(* k_run_callback().                                                       *)
UserPumps ==
  /\ UserCode
  /\ (\E f \in Fns \ IrqFns : UserAdd(f)) \/ (\E p \in Pins : irq_callback(p))

(* An interrupt of a pin switched on without a callback is passed on.      *)
BareIrq == \E p \in bare : irq_callback(p)

(* An interrupt noticed while f is its pin's callback runs f, unless the   *)
(* pin gets another callback or none.  The exceptions are those of         *)
(* TimersRun: user code keeps dyn_tq filled for ever, waits for a callback *)
(* that never comes, or let main() return; and a pin switched on without a *)
(* callback may keep k_wait_callback() busy for ever.                      *)
InterruptsServed ==
  \/ []<><<UserPumps \/ BareIrq>>_vars
  \/ <>[]UserBlocked
  \/ \A p \in Pins, f \in IrqFns :
       (pending[p] > 0 /\ irq_ptrs[p] = f)
         ~> (firing = f \/ irq_ptrs[p] # f \/ base = "idle")
=============================================================================
