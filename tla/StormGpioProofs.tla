--------------------------- MODULE StormGpioProofs ---------------------------
(***************************************************************************)
(* GPIO interrupts are safe for every set of pins, length of irq_ptrs,     *)
(* number of interrupts not yet passed on, queued Tasks and nested waits:  *)
(* GpioInv is inductive and implies the properties that MCGpio_all checks  *)
(* on an instance.                                                         *)
(***************************************************************************)
EXTENDS StormGpio, TaskQueueProofs

(* In the initial state nothing is registered, pending or queued.          *)
LEMMA GpioInit == Init => GpioInv
<1> SUFFICES ASSUME Init PROVE GpioInv
  OBVIOUS
<1>1. TypeOK
  BY DEF Init, TqInit, TypeOK, TqTypeOK
<1>2. FiringIsFront
  BY DEF Init, TqInit, FiringIsFront
<1>3. RegistrationAgrees
  BY GpioAssumption DEF Init, RegistrationAgrees
<1> QED BY <1>1, <1>2, <1>3 DEF GpioInv

(* The payload thread's own steps leave the registrations alone.           *)
LEMMA GpioLoopStep ==
  ASSUME GpioInv, Loop, UNCHANGED gpioVars
  PROVE  GpioInv'
<1>1. TqTypeOK /\ FiringIsFront
  BY DEF GpioInv, TypeOK
<1>2. TqTypeOK' /\ FiringIsFront'
  BY <1>1, TqStep DEF Loop
<1> QED BY <1>2 DEF GpioInv, TypeOK, RegistrationAgrees, gpioVars, notes

(* disable_irq() takes the callback out of irq_ptrs and switches the       *)
(* kernel's interrupt off in the same call.                                *)
LEMMA DisableStep ==
  ASSUME NEW p \in Pins, GpioInv, disable_irq(p)
  PROVE  GpioInv'
<1> USE DEF GpioInv
<1>1. /\ kirq' = [kirq EXCEPT ![p] = FALSE]
      /\ irq_ptrs' = [irq_ptrs EXCEPT ![p] = NoFn]
      /\ irq_ptrs[p] # NoFn
      /\ refused' = refused \ {p}
      /\ UNCHANGED <<dyn_tq, base, firing, frames, held, pending, bare>>
  BY DEF disable_irq, tqVars
<1>2. TypeOK' /\ FiringIsFront'
  BY <1>1 DEF TypeOK, TqTypeOK, FiringIsFront
<1>3. RegistrationAgrees'
  BY <1>1, GpioAssumption DEF TypeOK, RegistrationAgrees
<1> QED BY <1>2, <1>3

(* enable_irq() replaces whatever was registered for the pin: behind it    *)
(* the interrupt is on, or the refusal is noted, and it is on without a    *)
(* callback only when nullptr was passed.                                  *)
LEMMA EnableStep ==
  ASSUME NEW p \in Pins, NEW f \in IrqFns \cup {NoFn},
         NEW keep \in BOOLEAN, NEW accepted \in BOOLEAN,
         GpioInv, enable_irq(p, f, keep, accepted)
  PROVE  GpioInv'
<1> USE DEF GpioInv
<1>0. p \in 0..NumPtrs
  BY GpioAssumption
<1>1. /\ irq_ptrs' = [irq_ptrs EXCEPT ![p] = f]
      /\ kirq' = [kirq EXCEPT ![p] = accepted \/ (@ /\ irq_ptrs[p] = NoFn)]
      /\ held' = [g \in IrqFns |-> IF g = f THEN keep ELSE held[g]]
      /\ refused' = IF accepted \/ f = NoFn THEN refused \ {p}
                                            ELSE refused \cup {p}
      /\ bare' = IF kirq'[p] /\ f = NoFn THEN bare \cup {p} ELSE bare \ {p}
      /\ UNCHANGED <<dyn_tq, base, firing, frames, pending>>
  BY DEF enable_irq, tqVars
<1>2. kirq' \in [Pins -> BOOLEAN]
  BY <1>1, Zenon DEF TypeOK
<1>3. held' \in [IrqFns -> BOOLEAN]
  BY <1>1, Zenon DEF TypeOK
<1>4. /\ irq_ptrs' \in [0..NumPtrs -> IrqFns \cup {NoFn}]
      /\ refused' \subseteq Pins /\ bare' \subseteq Pins
  BY <1>0, <1>1 DEF TypeOK
<1>5. TqTypeOK' /\ FiringIsFront'
  BY <1>1 DEF TypeOK, TqTypeOK, FiringIsFront
<1>6. TypeOK'
  BY <1>1, <1>2, <1>3, <1>4, <1>5 DEF TypeOK
<1>7. RegistrationAgrees'
  <2> SUFFICES ASSUME NEW q \in Pins
               PROVE  /\ irq_ptrs'[q] # NoFn => kirq'[q] \/ q \in refused'
                      /\ kirq'[q] => irq_ptrs'[q] # NoFn \/ q \in bare'
                      /\ q \in bare' => irq_ptrs'[q] = NoFn
    BY DEF RegistrationAgrees
  <2>1. CASE q = p
    <3>1. irq_ptrs'[q] = f
      BY <1>0, <1>1, <2>1 DEF TypeOK
    <3>2. accepted => kirq'[q]
      BY <1>1, <2>1, Zenon DEF TypeOK
    <3> QED BY <1>1, <2>1, <3>1, <3>2
  <2>2. CASE q # p
    <3>1. irq_ptrs'[q] = irq_ptrs[q] /\ kirq'[q] = kirq[q]
      <4>1. q \in 0..NumPtrs
        BY GpioAssumption
      <4> QED BY <1>0, <1>1, <2>2, <4>1, Zenon DEF TypeOK
    <3>2. (q \in refused' <=> q \in refused) /\ (q \in bare' <=> q \in bare)
      BY <1>1, <2>2
    <3> QED BY <3>1, <3>2 DEF RegistrationAgrees
  <2> QED BY <2>1, <2>2
<1> QED BY <1>5, <1>6, <1>7

(* Dropping a shared_ptr changes nothing the invariant speaks of.          *)
LEMMA GpioReleaseStep ==
  ASSUME NEW f \in IrqFns, GpioInv, release(f)
  PROVE  GpioInv'
BY DEF GpioInv, release, tqVars, notes, TypeOK, TqTypeOK, FiringIsFront,
       RegistrationAgrees

(* The kernel notices an edge.                                             *)
LEMMA IrqStep ==
  ASSUME NEW p \in Pins, GpioInv, k_irq(p)
  PROVE  GpioInv'
BY DEF GpioInv, k_irq, tqVars, notes, TypeOK, TqTypeOK, FiringIsFront,
       RegistrationAgrees

(* irq_callback() posts what is registered for the index, if anything: a   *)
(* Task never gets a null function.                                        *)
LEMMA IrqCallbackStep ==
  ASSUME NEW p \in Pins, GpioInv, irq_callback(p)
  PROVE  GpioInv'
<1> USE DEF GpioInv
<1>1. /\ pending[p] > 0
      /\ pending' = [pending EXCEPT ![p] = @ - 1]
      /\ IF p <= NumPtrs /\ irq_ptrs[p] # NoFn THEN tq_add(irq_ptrs[p])
                                               ELSE UNCHANGED dyn_tq
      /\ frames' = Pumped
      /\ UNCHANGED <<base, firing, irq_ptrs, held, kirq, refused, bare>>
  BY DEF irq_callback, notes
<1>2. TqTypeOK /\ frames' \in Seq(FrameSet)
  BY <1>1, PumpedType DEF TypeOK
<1>3. TqTypeOK' /\ FiringIsFront'
  <2>1. CASE UNCHANGED dyn_tq
    BY <1>1, <1>2, <2>1 DEF TqTypeOK, FiringIsFront, FrameSet
  <2>2. CASE irq_ptrs[p] # NoFn /\ tq_add(irq_ptrs[p])
    <3>1. irq_ptrs[p] \in Fns
      BY <2>2, GpioAssumption DEF TypeOK
    <3> QED BY <1>1, <1>2, <2>2, <3>1, AddStep
  <2> QED BY <1>1, <2>1, <2>2
<1>4. pending' \in [Pins -> Nat]
  BY <1>1 DEF TypeOK
<1> QED BY <1>1, <1>3, <1>4 DEF TypeOK, RegistrationAgrees

(* GpioInv is inductive.                                                   *)
LEMMA GpioNext == GpioInv /\ [Next]_vars => GpioInv'
<1> SUFFICES ASSUME GpioInv, [Next]_vars PROVE GpioInv'
  OBVIOUS
<1>1. CASE Loop /\ UNCHANGED gpioVars
  BY <1>1, GpioLoopStep
<1>2. CASE \E p \in Pins, f \in IrqFns \cup {NoFn},
               keep \in BOOLEAN, accepted \in BOOLEAN :
             enable_irq(p, f, keep, accepted)
  BY <1>2, EnableStep
<1>3. CASE \E p \in Pins : disable_irq(p) \/ irq_callback(p) \/ k_irq(p)
  BY <1>3, DisableStep, IrqCallbackStep, IrqStep
<1>4. CASE \E f \in IrqFns : release(f)
  BY <1>4, GpioReleaseStep
<1>5. CASE UNCHANGED vars
  BY <1>5 DEF vars, tqVars, gpioVars, notes, GpioInv, TypeOK, TqTypeOK,
              FiringIsFront, RegistrationAgrees
<1> QED BY <1>1, <1>2, <1>3, <1>4, <1>5 DEF Next

(* The thread's state and the registrations are well formed in every       *)
(* reachable state: in particular dyn_tq holds no null function, although  *)
(* interrupts may be passed on after disable_irq().                        *)
THEOREM GpioInvariant == Spec => []GpioInv
<1> QED BY GpioInit, GpioNext, PTL DEF Spec

(* The function run_one() executes is owned by the Task at the front of    *)
(* dyn_tq, even if it disables or re-registers its own pin.                *)
THEOREM GpioRunningFnOwned == Spec => []RunningFnOwned
<1>1. GpioInv => RunningFnOwned
  BY FiringQueued DEF GpioInv, TypeOK, RunningFnOwned, FnOwned
<1> QED BY <1>1, GpioInvariant, PTL

(* enable_irq() and disable_irq() keep the kernel and irq_ptrs in step,    *)
(* but for registrations that the kernel refused or that passed nullptr.   *)
THEOREM GpioRegistrationAgrees == Spec => []RegistrationAgrees
<1>1. GpioInv => RegistrationAgrees
  BY DEF GpioInv
<1> QED BY <1>1, GpioInvariant, PTL

(* irq_callback() drops the interrupt of a pin that was disabled in the    *)
(* meantime, or that was switched on with nullptr.                         *)
THEOREM GpioLateIrqDropped == Spec => LateIrqDropped
<1> DEFINE Dropped == \A p \in Pins :
             /\ p \in bare \/ (~kirq[p] /\ p \notin refused)
             /\ pending'[p] < pending[p]
             => dyn_tq' = dyn_tq
<1>1. GpioInv /\ [Next]_vars => [Dropped]_vars
  <2> SUFFICES ASSUME GpioInv, Next, NEW p \in Pins,
                      p \in bare \/ (~kirq[p] /\ p \notin refused),
                      pending'[p] < pending[p]
               PROVE  dyn_tq' = dyn_tq
    OBVIOUS
  <2>0. pending \in [Pins -> Nat] /\ irq_ptrs[p] = NoFn
    BY DEF GpioInv, TypeOK, RegistrationAgrees
  <2>1. CASE UNCHANGED pending
    BY <2>0, <2>1
  <2>2. ASSUME NEW q \in Pins, k_irq(q)
        PROVE  FALSE
    BY <2>0, <2>2 DEF k_irq
  <2>3. ASSUME NEW q \in Pins, irq_callback(q)
        PROVE  dyn_tq' = dyn_tq
    <3>1. q = p
      BY <2>0, <2>3 DEF irq_callback
    <3> QED BY <2>0, <2>3, <3>1 DEF irq_callback
  <2> QED
    BY <2>1, <2>2, <2>3
    DEF Next, gpioVars, disable_irq, enable_irq, release
<1> QED BY <1>1, GpioInvariant, PTL DEF Spec, LateIrqDropped
=============================================================================
