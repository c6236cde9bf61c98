--------------------------- MODULE TempSensorProofs ---------------------------
(***************************************************************************)
(* I2C operations are safe for every set of operations and buffers, every  *)
(* user program over them and every depth of nested waits: I2cInv is       *)
(* inductive, and the buffers lent to the kernel have one owner.           *)
(*                                                                         *)
(* On top of them and of its Timer the temperature application is safe:    *)
(* TempInv is inductive, for every number of operations, buffers, Timers   *)
(* and kernel table entries.                                               *)
(***************************************************************************)
EXTENDS TempSensor, TaskQueueProofs

-----------------------------------------------------------------------------
(* The I2C operations, under any user program.                             *)

(* Which callbacks are running depends on the operations on the call stack *)
(* alone: a step that adds or marks a k_wait_callback() changes nothing.   *)
SameOps ==
  /\ \A o \in Ops : Running(o)' <=> Running(o)
  /\ \A i, j \in 1..Len(frames') : frames'[i] \in Ops /\ frames'[i] = frames'[j]
                                     => i = j

(* The constants: the frames of k_wait_callback() are no operations.       *)
LEMMA WaitNotOp == "wait" \notin Ops /\ "ran" \notin Ops /\ Handlers = Ops
BY I2cAssumption, TaskQueueAssumption

(* Entering k_wait_callback().                                             *)
LEMMA WaitSameOps ==
  ASSUME TqTypeOK, OneStage, frames' = Append(frames, "wait")
  PROVE  SameOps
<1>1. /\ Len(frames) \in Nat
      /\ Len(frames') = Len(frames) + 1
      /\ frames'[Len(frames) + 1] = "wait"
      /\ \A i \in 1..Len(frames) : frames'[i] = frames[i]
  BY AppendProperties, LenProperties DEF TqTypeOK
<1>2. \A i \in 1..Len(frames') : frames'[i] \in Ops => i \in 1..Len(frames)
  BY <1>1, WaitNotOp
<1>3. 1..Len(frames) \subseteq 1..Len(frames')
  BY <1>1
<1>4. \A o \in Ops : Running(o)' <=> Running(o)
  BY <1>1, <1>2, <1>3 DEF Running
<1>5. \A i, j \in 1..Len(frames') : frames'[i] \in Ops /\ frames'[i] = frames'[j]
                                      => i = j
  BY <1>1, <1>2 DEF OneStage
<1> QED BY <1>4, <1>5 DEF SameOps

(* Marking k_wait_callback() as having run a callback.                     *)
LEMMA PumpedOps ==
  ASSUME TqTypeOK
  PROVE  /\ Len(Pumped) = Len(frames)
         /\ \A i \in 1..Len(frames) :
              \/ Pumped[i] = frames[i]
              \/ Pumped[i] \notin Ops /\ frames[i] \notin Ops
<1>1. frames \in Seq({"wait", "ran"} \cup Handlers)
  BY DEF TqTypeOK
<1>2. CASE InWait
  <2>1. Len(frames) \in 1..Len(frames) /\ Len(frames) \in Nat
    BY <1>1, <1>2, EmptySeq, LenProperties DEF InWait
  <2>2. Pumped = [frames EXCEPT ![Len(frames)] = "ran"]
    BY <1>2 DEF Pumped
  <2>3. Len(Pumped) = Len(frames)
    BY <1>1, <2>1, <2>2, ExceptSeq
  <2>4. frames[Len(frames)] \notin Ops
    BY <1>2, WaitNotOp DEF InWait, Top
  <2>5. DOMAIN frames = 1..Len(frames)
    BY <1>1, LenProperties
  <2> QED BY <2>1, <2>2, <2>3, <2>4, <2>5, WaitNotOp
<1>3. CASE ~InWait
  BY <1>3 DEF Pumped
<1> QED BY <1>2, <1>3

(* Leaving a k_wait_callback() that ran one.                               *)
LEMMA ReturnSameOps ==
  ASSUME TqTypeOK, OneStage, frames # <<>>, Top = "ran", frames' = Pop(frames)
  PROVE  SameOps
<1>1. /\ Len(frames) \in Nat \ {0}
      /\ Len(frames') = Len(frames) - 1
      /\ \A i \in 1..Len(frames) - 1 : frames'[i] = frames[i]
  BY PopFacts DEF TqTypeOK
<1>2. frames[Len(frames)] \notin Ops
  BY WaitNotOp DEF Top
<1>3. \A i \in 1..Len(frames) : frames[i] \in Ops => i \in 1..Len(frames')
  BY <1>1, <1>2
<1>4. 1..Len(frames') \subseteq 1..Len(frames)
  BY <1>1
<1>5. \A o \in Ops : Running(o)' <=> Running(o)
  BY <1>1, <1>3, <1>4 DEF Running
<1>6. \A i, j \in 1..Len(frames') : frames'[i] \in Ops /\ frames'[i] = frames'[j]
                                      => i = j
  BY <1>1, <1>4 DEF OneStage
<1> QED BY <1>5, <1>6 DEF SameOps

(* What the operations and buffers need of a step of the thread alone.     *)
LEMMA ThreadOnly ==
  ASSUME I2cInv, TqTypeOK', FiringIsFront', SameOps, UNCHANGED i2cVars
  PROVE  I2cInv'
<1>1. UNCHANGED <<self, held, payload, ubufs, refused, kxfer>>
  BY DEF i2cVars
<1>2. TypeOK'
  BY <1>1 DEF I2cInv, TypeOK
<1>3. OpsAccounted' /\ OneStage'
  BY <1>1 DEF I2cInv, SameOps, OpsAccounted, OneStage, InFlight
<1>4. OneOwner' /\ \A o \in Ops : InFlight(o)' => payload'[o] \in Bufs
  BY <1>1 DEF I2cInv, OneOwner, Alive, InFlight
<1> QED BY <1>2, <1>3, <1>4 DEF I2cInv

(* Steps that leave the call stack alone.                                  *)
LEMMA FramesSame ==
  ASSUME I2cInv, UNCHANGED frames
  PROVE  SameOps
BY DEF I2cInv, OneStage, SameOps, Running

(* In the initial state no operation and no buffer exists.                 *)
LEMMA I2cInit == Init => I2cInv
<1> SUFFICES ASSUME Init PROVE I2cInv
  OBVIOUS
<1>1. TypeOK
  BY DEF Init, TqInit, TypeOK, TqTypeOK
<1>2. FiringIsFront
  BY DEF Init, TqInit, FiringIsFront
<1>3. Len(frames) = 0 /\ 1..0 = {}
  BY EmptySeq DEF Init, TqInit
<1>4. OpsAccounted /\ OneStage
  BY <1>3 DEF Init, OpsAccounted, OneStage, InFlight, Running
<1>5. OneOwner /\ \A o \in Ops : InFlight(o) => payload[o] \in Bufs
  BY DEF Init, OneOwner, Alive, InFlight
<1> QED BY <1>1, <1>2, <1>4, <1>5 DEF I2cInv

(* Every step of the scheduler, of main() and of k_wait_callback().        *)
LEMMA ThreadStep ==
  ASSUME NEW b, I2cInv, UNCHANGED i2cVars,
         \/ MainDone \/ run_one_fire \/ run_one_pop
         \/ scheduler_wait \/ user_wait \/ wait_returns(b)
         \/ \E f \in Fns : UserAdd(f)
  PROVE  I2cInv'
<1>1. TqTypeOK /\ FiringIsFront /\ OneStage
  BY DEF I2cInv, TypeOK
<1>2. TqTypeOK' /\ FiringIsFront'
  BY <1>1, TqStep
<1>3. SameOps
  <2>1. CASE UNCHANGED frames
    BY <2>1, FramesSame
  <2>2. CASE frames' = Append(frames, "wait")
    BY <1>1, <2>2, WaitSameOps
  <2>3. CASE wait_returns(b)
    BY <1>1, <2>3, ReturnSameOps DEF wait_returns
  <2> QED
    BY <2>1, <2>2, <2>3
    DEF MainDone, run_one_fire, run_one_pop, scheduler_wait, user_wait, UserAdd
<1> QED BY <1>2, <1>3, ThreadOnly

(* mkbuf() makes a buffer that nobody owns; a buffer going out of scope    *)
(* was the user's.                                                         *)
LEMMA BufStep ==
  ASSUME NEW b \in Bufs, I2cInv, mkbuf(b) \/ drop_buf(b)
  PROVE  I2cInv'
<1> USE DEF I2cInv
<1>1. /\ UNCHANGED <<dyn_tq, base, firing, frames, self, held, payload, refused, kxfer>>
      /\ ubufs' \subseteq ubufs \cup {b}
      /\ b \in ubufs' /\ b \notin ubufs => \A o \in Ops : Alive(o) => payload[o] # b
  BY DEF mkbuf, drop_buf, tqVars
<1>2. TypeOK' /\ FiringIsFront'
  BY <1>1 DEF TypeOK, TqTypeOK, FiringIsFront
<1>3. OpsAccounted' /\ OneStage'
  BY <1>1 DEF OpsAccounted, OneStage, InFlight, Running
<1>4. OneOwner'
  BY <1>1 DEF OneOwner, Alive
<1>5. \A o \in Ops : InFlight(o)' => payload'[o] \in Bufs
  BY <1>1 DEF InFlight
<1> QED BY <1>2, <1>3, <1>4, <1>5

(* write() and read(): the buffer moves from user code into the operation  *)
(* before the kernel gets its address; a refused operation keeps both.     *)
LEMMA TransactStep ==
  ASSUME NEW o \in Ops, NEW b \in Bufs, NEW kind \in {"read", "write"},
         NEW keep \in BOOLEAN, I2cInv, transact(o, b, kind, keep)
  PROVE  I2cInv'
<1> USE DEF I2cInv
<1>1. PICK accepted \in BOOLEAN :
        /\ refused' = [refused EXCEPT ![o] = ~accepted]
        /\ kxfer' = IF accepted THEN [kxfer EXCEPT ![o] = kind] ELSE kxfer
  BY DEF transact
<1>2. /\ ~self[o] /\ ~held[o] /\ ~Running(o) /\ b \in ubufs
      /\ ubufs' = ubufs \ {b}
      /\ payload' = [payload EXCEPT ![o] = b]
      /\ self' = [self EXCEPT ![o] = TRUE]
      /\ held' = [held EXCEPT ![o] = keep]
      /\ UNCHANGED <<dyn_tq, base, firing, frames>>
  BY DEF transact, Alive, tqVars
<1>3. TypeOK' /\ FiringIsFront'
  <2>1. self' \in [Ops -> BOOLEAN] /\ held' \in [Ops -> BOOLEAN]
    BY <1>2 DEF TypeOK
  <2>2. refused' \in [Ops -> BOOLEAN]
    BY <1>1 DEF TypeOK
  <2>3. kxfer' \in [Ops -> {"none", "read", "write", "done"}]
    BY <1>1 DEF TypeOK
  <2>4. payload' \in [Ops -> Bufs \cup {NoBuf}] /\ ubufs' \subseteq Bufs
    BY <1>2 DEF TypeOK
  <2> QED BY <1>2, <2>1, <2>2, <2>3, <2>4 DEF TypeOK, TqTypeOK, FiringIsFront
<1>4. ~InFlight(o) /\ kxfer[o] = "none" /\ ~refused[o]
  BY <1>2 DEF OpsAccounted, InFlight
<1>5. \A p \in Ops : Running(p)' <=> Running(p)
  BY <1>2 DEF Running
<1>6. \A p \in Ops \ {o} :
        /\ self'[p] = self[p] /\ held'[p] = held[p] /\ payload'[p] = payload[p]
        /\ refused'[p] = refused[p] /\ kxfer'[p] = kxfer[p]
  BY <1>1, <1>2 DEF TypeOK
<1>7. /\ self'[o] /\ payload'[o] = b
      /\ (refused'[o] /\ kxfer'[o] = "none") \/ (~refused'[o] /\ kxfer'[o] # "none")
  BY <1>1, <1>2, <1>4 DEF TypeOK
<1>8. OpsAccounted'
  BY <1>2, <1>5, <1>6, <1>7 DEF OpsAccounted, InFlight
<1>9. OneStage'
  <2>1. \A i, j \in 1..Len(frames') :
          frames'[i] \in Ops /\ frames'[i] = frames'[j] => i = j
    BY <1>2 DEF OneStage
  <2>2. ASSUME NEW p \in Ops
        PROVE  /\ refused'[p] => ~InFlight(p)' /\ ~Running(p)'
               /\ Running(p)' => ~InFlight(p)'
    BY <1>2, <1>5, <1>6, <1>7 DEF OneStage, InFlight
  <2> QED BY <2>1, <2>2 DEF OneStage
<1>10. OneOwner'
  <2> SUFFICES ASSUME NEW p \in Ops, Alive(p)', payload'[p] \in Bufs
               PROVE  /\ payload'[p] \notin ubufs'
                      /\ \A q \in Ops \ {p} : Alive(q)' => payload'[q] # payload'[p]
    BY DEF OneOwner
  <2>1. \A q \in Ops \ {o} : Alive(q)' => Alive(q) /\ payload'[q] # b
    BY <1>2, <1>6 DEF OneOwner, Alive
  <2> QED BY <1>2, <1>6, <1>7, <2>1 DEF OneOwner
<1>11. \A p \in Ops : InFlight(p)' => payload'[p] \in Bufs
  BY <1>6, <1>7 DEF InFlight
<1> QED BY <1>3, <1>8, <1>9, <1>10, <1>11

(* Dropping a shared_ptr: what an operation in flight owns stays.          *)
LEMMA I2cReleaseStep ==
  ASSUME NEW o \in Ops, I2cInv, release(o)
  PROVE  I2cInv'
<1> USE DEF I2cInv
<1>1. /\ held' = [held EXCEPT ![o] = FALSE]
      /\ UNCHANGED <<dyn_tq, base, firing, frames, self, payload, ubufs, refused, kxfer>>
  BY DEF release, tqVars
<1>2. TypeOK' /\ FiringIsFront'
  BY <1>1 DEF TypeOK, TqTypeOK, FiringIsFront
<1>3. OpsAccounted' /\ OneStage'
  BY <1>1 DEF OpsAccounted, OneStage, InFlight, Running
<1>4. \A p \in Ops : Alive(p)' => Alive(p)
  BY <1>1 DEF Alive, TypeOK
<1>5. OneOwner' /\ \A p \in Ops : InFlight(p)' => payload'[p] \in Bufs
  BY <1>1, <1>4 DEF OneOwner, InFlight
<1> QED BY <1>2, <1>3, <1>5

(* The bus finishes a transfer.                                            *)
LEMMA DoneStep ==
  ASSUME NEW o \in Ops, I2cInv, k_i2c_done(o)
  PROVE  I2cInv'
<1> USE DEF I2cInv
<1>1. /\ kxfer[o] \in {"read", "write"}
      /\ kxfer' = [kxfer EXCEPT ![o] = "done"]
      /\ UNCHANGED <<dyn_tq, base, firing, frames, self, held, payload, ubufs, refused>>
  BY DEF k_i2c_done, tqVars
<1>2. TypeOK' /\ FiringIsFront'
  BY <1>1 DEF TypeOK, TqTypeOK, FiringIsFront
<1>3. \A p \in Ops : InFlight(p)' <=> InFlight(p)
  BY <1>1 DEF InFlight, TypeOK
<1>4. \A p \in Ops : Running(p)' <=> Running(p)
  BY <1>1 DEF Running
<1>5. OpsAccounted' /\ OneStage'
  BY <1>1, <1>3, <1>4 DEF OpsAccounted, OneStage
<1>6. OneOwner' /\ \A p \in Ops : InFlight(p)' => payload'[p] \in Bufs
  BY <1>1, <1>3 DEF OneOwner, Alive
<1> QED BY <1>2, <1>5, <1>6

(* The kernel calls back: the buffer passes from the operation to user     *)
(* code in the step in which the kernel gives its address up.              *)
LEMMA I2cCallbackStep ==
  ASSUME NEW o \in Ops, I2cInv, i2c_callback(o)
  PROVE  I2cInv'
<1> USE DEF I2cInv
<1>1. /\ kxfer[o] = "done"
      /\ kxfer' = [kxfer EXCEPT ![o] = "none"]
      /\ ubufs' = ubufs \cup {payload[o]}
      /\ payload' = [payload EXCEPT ![o] = NoBuf]
      /\ frames' = Append(Pumped, o)
      /\ UNCHANGED <<dyn_tq, base, firing, self, held, refused>>
  BY DEF i2c_callback, invoke
<1>2. InFlight(o) /\ self[o] /\ ~Running(o) /\ ~refused[o] /\ payload[o] \in Bufs
  BY <1>1 DEF InFlight, OpsAccounted, OneStage
<1>3. Pumped \in Seq(FrameSet) /\ o \in FrameSet
  BY PumpedType, WaitNotOp DEF TypeOK, FrameSet
<1>4. /\ frames' \in Seq(FrameSet)
      /\ Len(frames') = Len(frames) + 1
      /\ Len(frames) \in Nat
      /\ frames'[Len(frames) + 1] = o
      /\ \A i \in 1..Len(frames) : frames'[i] = Pumped[i]
  BY <1>1, <1>3, PumpedOps, AppendProperties, LenProperties DEF TypeOK, TqTypeOK
<1>5. \A i \in 1..Len(frames) :
        \/ frames'[i] = frames[i]
        \/ frames'[i] \notin Ops /\ frames[i] \notin Ops
  BY <1>4, PumpedOps DEF TypeOK
<1>6. TypeOK' /\ FiringIsFront'
  <2>1. TqTypeOK' /\ FiringIsFront'
    BY <1>1, <1>4 DEF TypeOK, TqTypeOK, FiringIsFront, FrameSet
  <2>2. kxfer' \in [Ops -> {"none", "read", "write", "done"}]
    BY <1>1 DEF TypeOK
  <2>3. payload' \in [Ops -> Bufs \cup {NoBuf}] /\ ubufs' \subseteq Bufs
    BY <1>1, <1>2 DEF TypeOK
  <2> QED BY <1>1, <2>1, <2>2, <2>3 DEF TypeOK
<1>7. Running(o)' /\ \A p \in Ops \ {o} : Running(p)' <=> Running(p)
  <2>1. Len(frames) + 1 \in 1..Len(frames')
    BY <1>4
  <2>2. Running(o)'
    BY <1>4, <2>1 DEF Running
  <2>3. ASSUME NEW p \in Ops \ {o}, Running(p)'
        PROVE  Running(p)
    <3>1. PICK i \in 1..Len(frames') : frames'[i] = p
      BY <2>3 DEF Running
    <3>2. i \in 1..Len(frames)
      BY <1>4, <3>1
    <3> QED BY <1>5, <3>1, <3>2 DEF Running
  <2>4. ASSUME NEW p \in Ops \ {o}, Running(p)
        PROVE  Running(p)'
    <3>1. PICK i \in 1..Len(frames) : frames[i] = p
      BY <2>4 DEF Running
    <3>2. i \in 1..Len(frames')
      BY <1>4, <3>1
    <3> QED BY <1>5, <3>1, <3>2 DEF Running
  <2> QED BY <2>2, <2>3, <2>4
<1>8. \A p \in Ops : InFlight(p)' <=> InFlight(p) /\ p # o
  BY <1>1 DEF InFlight, TypeOK
<1>9. OpsAccounted'
  BY <1>1, <1>2, <1>7, <1>8 DEF OpsAccounted
<1>10. OneStage'
  <2>1. \A p \in Ops : /\ refused'[p] => ~InFlight(p)' /\ ~Running(p)'
                       /\ Running(p)' => ~InFlight(p)'
    BY <1>1, <1>2, <1>7, <1>8 DEF OneStage
  <2>2. ASSUME NEW i \in 1..Len(frames'), NEW j \in 1..Len(frames'),
               frames'[i] \in Ops, frames'[i] = frames'[j]
        PROVE  i = j
    <3>1. \A k \in 1..Len(frames) : frames[k] # o
      BY <1>2 DEF Running
    <3>2. \A k \in 1..Len(frames') :
            \/ k = Len(frames) + 1 /\ frames'[k] = o
            \/ k \in 1..Len(frames) /\ frames'[k] = frames[k]
            \/ k \in 1..Len(frames) /\ frames'[k] \notin Ops
      BY <1>4, <1>5
    <3> QED BY <2>2, <3>1, <3>2 DEF OneStage
  <2> QED BY <2>1, <2>2 DEF OneStage
<1>11. OneOwner'
  <2> SUFFICES ASSUME NEW p \in Ops, Alive(p)', payload'[p] \in Bufs
               PROVE  /\ payload'[p] \notin ubufs'
                      /\ \A q \in Ops \ {p} : Alive(q)' => payload'[q] # payload'[p]
    BY DEF OneOwner
  <2>1. p # o
    BY <1>1, I2cAssumption DEF TypeOK
  <2>2. \A q \in Ops : Alive(q)' <=> Alive(q)
    BY <1>1 DEF Alive
  <2>3. payload'[p] = payload[p] /\ payload[p] # payload[o]
    BY <1>1, <1>2, <2>1, <2>2 DEF OneOwner, TypeOK, Alive
  <2>4. \A q \in Ops \ {p} : payload'[q] = payload[q] \/ payload'[q] = NoBuf
    BY <1>1 DEF TypeOK
  <2> QED BY <1>1, <2>2, <2>3, <2>4, I2cAssumption DEF OneOwner
<1>12. \A p \in Ops : InFlight(p)' => payload'[p] \in Bufs
  BY <1>1, <1>8 DEF TypeOK
<1> QED BY <1>6, <1>9, <1>10, <1>11, <1>12

(* The callback returns: it was the innermost frame and the only one of    *)
(* its operation, which gives its circle reference up.                     *)
LEMMA ReturnStep ==
  ASSUME NEW o \in Ops, I2cInv, invoke_returns(o)
  PROVE  I2cInv' /\ ~Running(o)'
<1> USE DEF I2cInv
<1>1. /\ frames # <<>> /\ frames[Len(frames)] = o
      /\ frames' = Pop(frames)
      /\ self' = [self EXCEPT ![o] = FALSE]
      /\ UNCHANGED <<dyn_tq, base, firing, held, payload, ubufs, refused, kxfer>>
  BY DEF invoke_returns, Top
<1>2. /\ Len(frames) \in Nat \ {0}
      /\ Len(frames') = Len(frames) - 1
      /\ \A i \in 1..Len(frames) - 1 : frames'[i] = frames[i]
      /\ frames' \in Seq(FrameSet)
  BY <1>1, PopFacts, PopType DEF TypeOK, TqTypeOK, FrameSet
<1>3. TypeOK' /\ FiringIsFront'
  <2>1. self' \in [Ops -> BOOLEAN]
    BY <1>1 DEF TypeOK
  <2> QED BY <1>1, <1>2, <2>1 DEF TypeOK, TqTypeOK, FiringIsFront, FrameSet
<1>4. Running(o) /\ ~InFlight(o) /\ ~refused[o]
  <2>1. Running(o)
    BY <1>1, <1>2 DEF Running
  <2> QED BY <2>1 DEF OneStage
<1>5. ~Running(o)'
  <2> SUFFICES ASSUME NEW i \in 1..Len(frames'), frames'[i] = o PROVE FALSE
    BY DEF Running
  <2>1. i \in 1..Len(frames) /\ Len(frames) \in 1..Len(frames) /\ i # Len(frames)
    BY <1>2
  <2> QED BY <1>1, <1>2, <2>1 DEF OneStage
<1>6. \A p \in Ops \ {o} : Running(p)' <=> Running(p)
  <2>1. ASSUME NEW p \in Ops \ {o}, NEW i \in 1..Len(frames), frames[i] = p
        PROVE  i \in 1..Len(frames') /\ frames'[i] = p
    BY <1>1, <1>2, <2>1
  <2>2. \A i \in 1..Len(frames') : i \in 1..Len(frames) /\ frames'[i] = frames[i]
    BY <1>2
  <2> QED BY <2>1, <2>2 DEF Running
<1>7. OpsAccounted'
  <2>1. ~self'[o] /\ \A p \in Ops \ {o} : self'[p] = self[p]
    BY <1>1 DEF TypeOK
  <2> QED BY <1>1, <1>4, <1>5, <1>6, <2>1 DEF OpsAccounted, InFlight
<1>8. OneStage'
  <2>1. \A i \in 1..Len(frames') : i \in 1..Len(frames) /\ frames'[i] = frames[i]
    BY <1>2
  <2>2. \A p \in Ops : Running(p)' => Running(p)
    BY <1>5, <1>6
  <2> QED BY <1>1, <2>1, <2>2 DEF OneStage, InFlight
<1>9. OneOwner' /\ \A p \in Ops : InFlight(p)' => payload'[p] \in Bufs
  <2>1. \A p \in Ops : Alive(p)' => Alive(p)
    BY <1>1 DEF Alive, TypeOK
  <2> QED BY <1>1, <2>1 DEF OneOwner, InFlight
<1> QED BY <1>3, <1>5, <1>7, <1>8, <1>9

(* I2cInv is inductive for arbitrary user code.                            *)
LEMMA I2cNext == I2cInv /\ [Next]_vars => I2cInv'
<1> SUFFICES ASSUME I2cInv, [Next]_vars PROVE I2cInv'
  OBVIOUS
<1>1. CASE Loop /\ UNCHANGED i2cVars
  BY <1>1, ThreadStep DEF Loop
<1>2. CASE \E b \in Bufs : mkbuf(b) \/ drop_buf(b)
  BY <1>2, BufStep
<1>3. CASE \E b \in Bufs, o \in Ops, keep \in BOOLEAN :
             write(o, b, keep) \/ read(o, b, keep)
  BY <1>3, TransactStep DEF write, read
<1>4. CASE \E o \in Ops :
             release(o) \/ i2c_callback(o) \/ k_i2c_done(o) \/ invoke_returns(o)
  BY <1>4, I2cReleaseStep, I2cCallbackStep, DoneStep, ReturnStep
<1>5. CASE UNCHANGED vars
  <2>1. TqTypeOK' /\ FiringIsFront' /\ UNCHANGED frames /\ UNCHANGED i2cVars
    BY <1>5 DEF vars, tqVars, I2cInv, TypeOK, TqTypeOK, FiringIsFront
  <2> QED BY <2>1, FramesSame, ThreadOnly
<1> QED BY <1>1, <1>2, <1>3, <1>4, <1>5 DEF Next

(* The operations, their buffers, the call stack and the kernel's          *)
(* transfers agree in every reachable state.                               *)
THEOREM I2cInvariant == Spec => []I2cInv
<1> QED BY I2cInit, I2cNext, PTL DEF Spec

(* The buffer of a transfer in flight exists, belongs to its operation and *)
(* to nobody else: the kernel's raw pointers are valid and unshared.       *)
LEMMA BuffersOwned == I2cInv => KernelBuffersOwned
<1> SUFFICES ASSUME I2cInv, NEW o \in Ops, InFlight(o)
             PROVE  /\ self[o]
                    /\ payload[o] \in Bufs \ ubufs
                    /\ \A p \in Ops \ {o} : Alive(p) => payload[p] # payload[o]
  BY DEF KernelBuffersOwned
<1>1. self[o]
  BY DEF I2cInv, OpsAccounted
<1> QED BY <1>1 DEF I2cInv, OneOwner, Alive

(* The raw buffers lent to the kernel stay valid and unshared, for         *)
(* arbitrary user code.                                                    *)
THEOREM I2cBuffersOwned == Spec => []KernelBuffersOwned
<1> QED BY BuffersOwned, I2cInvariant, PTL

(* An operation keeps itself alive exactly while its callback is to come,  *)
(* or running, or was refused.                                             *)
THEOREM I2cOpsAccounted == Spec => []OpsAccounted
<1>1. I2cInv => OpsAccounted
  BY DEF I2cInv
<1> QED BY <1>1, I2cInvariant, PTL

-----------------------------------------------------------------------------
(* The call stacks of the application.                                     *)

(* A callback is running: it is the innermost frame and the only one.      *)
LEMMA PairOps ==
  ASSUME NEW o \in Ops, NEW stack, stack = <<"ran", o>>
  PROVE  /\ stack[Len(stack)] = o
         /\ \A p \in Ops : (\E i \in 1..Len(stack) : stack[i] = p) <=> p = o
<1>1. Len(stack) = 2 /\ stack[1] = "ran" /\ stack[2] = o
  OBVIOUS
<1>2. 1..Len(stack) = {1, 2}
  BY <1>1
<1> QED BY <1>1, <1>2, WaitNotOp

(* The same for the stack of the thread.                                   *)
LEMMA TopOp ==
  ASSUME NEW o \in Ops, frames = <<"ran", o>>
  PROVE  Top = o /\ Running(o) /\ \A p \in Ops : Running(p) <=> p = o
BY PairOps DEF Top, Running

(* No callback is running.                                                 *)
LEMMA NoneRunning ==
  ASSUME NEW stack \in {<<>>, <<"wait">>, <<"ran">>}
  PROVE  \A p \in Ops : ~\E i \in 1..Len(stack) : stack[i] = p
<1>1. CASE stack = <<>>
  <2>1. 1..Len(stack) = {}
    BY <1>1
  <2> QED BY <2>1
<1>2. CASE stack \in {<<"wait">>, <<"ran">>}
  <2>1. Len(stack) = 1 /\ stack[1] \in {"wait", "ran"}
    BY <1>2
  <2>2. 1..Len(stack) = {1}
    BY <2>1
  <2> QED BY <2>1, <2>2, WaitNotOp
<1> QED BY <1>1, <1>2

(* The scheduler's k_wait_callback() has run a callback.                   *)
LEMMA PumpedOne ==
  ASSUME frames \in {<<"wait">>, <<"ran">>}
  PROVE  Pumped = <<"ran">>
<1>1. /\ Len(frames) = 1 /\ frames[1] \in {"wait", "ran"} /\ frames # <<>>
      /\ frames \in Seq({"wait", "ran"}) /\ <<"ran">> \in Seq({"wait", "ran"})
      /\ DOMAIN frames = 1..1
  <2>1. frames \in Seq({"wait", "ran"}) /\ <<"ran">> \in Seq({"wait", "ran"})
    <3>1. ASSUME NEW S, NEW a \in S PROVE <<a>> \in Seq(S)
      OBVIOUS
    <3>2. /\ <<"wait">> \in Seq({"wait", "ran"})
          /\ <<"ran">> \in Seq({"wait", "ran"})
      BY <3>1
    <3> QED BY <3>2
  <2>2. Len(frames) = 1 /\ frames[1] \in {"wait", "ran"}
    OBVIOUS
  <2>3. frames # <<>>
    BY <2>2, EmptySeq
  <2>4. DOMAIN frames = 1..1
    BY <2>1, <2>2, LenProperties
  <2> QED BY <2>1, <2>2, <2>3, <2>4
<1>2. Pumped = [frames EXCEPT ![1] = "ran"]
  BY <1>1 DEF Pumped, InWait, Top
<1>3. /\ [frames EXCEPT ![1] = "ran"] \in Seq({"wait", "ran"})
      /\ Len([frames EXCEPT ![1] = "ran"]) = 1
  BY <1>1, ExceptSeq
<1>4. [frames EXCEPT ![1] = "ran"][1] = "ran"
  BY <1>1
<1>5. \A i \in 1..1 : i = 1
  OBVIOUS
<1>6. Len(<<"ran">>) = 1 /\ <<"ran">>[1] = "ran"
  OBVIOUS
<1>7. \A s, t \in Seq({"wait", "ran"}) :
        Len(s) = 1 /\ Len(t) = 1 /\ s[1] = t[1] => s = t
  <2> SUFFICES ASSUME NEW s \in Seq({"wait", "ran"}), NEW t \in Seq({"wait", "ran"}),
                      Len(s) = 1, Len(t) = 1, s[1] = t[1]
               PROVE  s = t
    OBVIOUS
  <2>1. \A i \in 1..Len(s) : s[i] = t[i]
    BY <1>5
  <2> QED BY <2>1, SeqEqual
<1> QED BY <1>1, <1>2, <1>3, <1>4, <1>6, <1>7

(* Which statement is next says where it runs.                             *)
LEMMA PlaceOf ==
  ASSUME TempInv, program = "temperature"
  PROVE  /\ todo \in {"main", "main_write", "main_end"} =>
              base = "main" /\ firing = NoFn /\ frames = <<>>
         /\ todo \in {"tick", "tick_write"} =>
              base = "sched" /\ firing # NoFn /\ frames = <<>>
         /\ todo \in {"setup", "select", "fetch", "drop"} =>
              /\ base = "sched" /\ firing = NoFn
              /\ \E o \in Ops : frames = <<"ran", o>> /\ todo \in {role[o], "drop"}
         /\ todo = "none" =>
              /\ base = "sched" /\ firing = NoFn
              /\ frames \in {<<>>, <<"wait">>, <<"ran">>}
         /\ todo = "return" /\ frames = <<>> => base = "sched" /\ firing # NoFn
         /\ todo = "return" /\ frames # <<>> =>
              /\ base = "sched" /\ firing = NoFn
              /\ \E o \in Ops : frames = <<"ran", o>>
<1>1. Places /\ role \in [Ops -> {"none", "setup", "select", "fetch"}]
  BY DEF TempInv, TempTypeOK
<1>2. \A o \in Ops : frames = <<"ran", o>> => role[o] # "none"
  BY TopOp DEF TempInv, RolesAgree
<1>3. CASE \E o \in Ops : frames = <<"ran", o>> /\ base = "sched" /\ firing = NoFn
                          /\ todo \in {role[o], "drop", "return"}
  BY <1>1, <1>2, <1>3
<1>4. CASE ~\E o \in Ops : frames = <<"ran", o>> /\ base = "sched" /\ firing = NoFn
                           /\ todo \in {role[o], "drop", "return"}
  BY <1>1, <1>4 DEF Places
<1> QED BY <1>3, <1>4

-----------------------------------------------------------------------------
(* The Timer's module and this one see the same payload thread.            *)
LEMMA SameThread ==
  /\ T!TqTypeOK <=> TqTypeOK
  /\ T!Pumped = Pumped
  /\ \A f : T!tq_add(f) <=> tq_add(f)
<1>1. T!TqTypeOK <=> TqTypeOK
  BY DEF T!TqTypeOK, TqTypeOK
<1>2. T!Pumped = Pumped
  BY DEF T!Pumped, Pumped, T!InWait, InWait, T!Top, Top
<1>3. \A f : T!tq_add(f) <=> tq_add(f)
  BY DEF T!tq_add, tq_add
<1> QED BY <1>1, <1>2, <1>3

TimerTypes ==
  /\ tself \in [Timers -> BOOLEAN]
  /\ theld \in [Timers -> BOOLEAN]
  /\ is_periodic \in [Timers -> BOOLEAN]
  /\ tid \in [Timers -> Slots \cup {NoSlot}]
  /\ cancelled \in [Timers -> BOOLEAN]
  /\ ktimer \in [Slots -> Timers \cup {NoTimer}]
  /\ pending \in [Timers -> Nat]

AppTypes ==
  /\ program \in Programs
  /\ todo \in {"none", "main", "main_write", "main_end", "setup", "drop", "tick",
              "tick_write", "select", "fetch", "return"}
  /\ role \in [Ops -> {"none", "setup", "select", "fetch"}]
  /\ ok \in [Ops -> BOOLEAN]
  /\ pointer \in 0..2 /\ bus \in {"free", "held"} /\ spoiled \in BOOLEAN
  /\ fetched \in [Ops -> 0..2]

(* The parts of the type invariant.                                        *)
LEMMA TypeParts == I2cInv => (TempTypeOK <=> TimerTypes /\ AppTypes)
<1> SUFFICES ASSUME I2cInv PROVE TempTypeOK <=> TimerTypes /\ AppTypes
  OBVIOUS
<1>1. TypeOK /\ T!TqTypeOK
  BY SameThread DEF I2cInv, TypeOK
<1>2. T!TypeOK <=> TimerTypes
  BY <1>1 DEF T!TypeOK, TimerTypes
<1> QED BY <1>1, <1>2 DEF TempTypeOK, AppTypes

(* The parts of the types make up TempTypeOK in the next state.            *)
LEMMA TypePartsNext ==
  ASSUME I2cInv', TimerTypes', AppTypes'
  PROVE  TempTypeOK'
<1>1. TypeOK' /\ TqTypeOK'
  BY DEF I2cInv, TypeOK
<1>2. T!TqTypeOK'
  BY <1>1 DEF T!TqTypeOK, TqTypeOK
<1>3. T!TypeOK'
  BY <1>2 DEF T!TypeOK, TimerTypes
<1> QED BY <1>1, <1>3 DEF TempTypeOK, AppTypes

(* The Timer's steps, as steps of the variables they change.               *)
LEMMA TimerTaken ==
  ASSUME NEW t \in Timers, TimerTypes, T!tmr_callback(t)
  PROVE  /\ TimerTypes'
         /\ tq_add(t) /\ frames' = Pumped /\ UNCHANGED <<base, firing>>
         /\ pending[t] > 0
         /\ \A s \in Slots : ktimer[s] = NoTimer => ktimer'[s] = NoTimer
<1>1. /\ pending[t] > 0
      /\ pending' = [pending EXCEPT ![t] = @ - 1]
      /\ ktimer' = IF is_periodic[t] THEN ktimer
                                     ELSE [ktimer EXCEPT ![tid[t]] = NoTimer]
      /\ T!tq_add(t)
      /\ tself' = IF is_periodic[t] THEN tself ELSE [tself EXCEPT ![t] = FALSE]
      /\ frames' = T!Pumped
      /\ UNCHANGED <<base, firing, theld, is_periodic, tid, cancelled>>
  BY DEF T!tmr_callback, T!k_timer_take, T!Timer_fire
<1>2. pending' \in [Timers -> Nat]
  BY <1>1 DEF TimerTypes
<1>3. ktimer' \in [Slots -> Timers \cup {NoTimer}]
  BY <1>1 DEF TimerTypes
<1>4. tself' \in [Timers -> BOOLEAN]
  BY <1>1 DEF TimerTypes
<1>5. \A s \in Slots : ktimer[s] = NoTimer => ktimer'[s] = NoTimer
  BY <1>1 DEF TimerTypes
<1> QED BY <1>1, <1>2, <1>3, <1>4, <1>5, SameThread DEF TimerTypes

(* A timer that comes due keeps the timers' types.                         *)
LEMMA TimerDue ==
  ASSUME NEW s \in Slots, TimerTypes, T!k_timer_due(s)
  PROVE  TimerTypes' /\ UNCHANGED tqVars /\ ktimer[s] # NoTimer
<1>1. /\ ktimer[s] # NoTimer
      /\ pending' = [pending EXCEPT ![ktimer[s]] = @ + 1]
      /\ UNCHANGED <<dyn_tq, base, firing, frames, tself, theld, is_periodic,
                     tid, cancelled, ktimer>>
  BY DEF T!k_timer_due, T!tqVars, T!objVars
<1>2. ktimer[s] \in Timers
  BY <1>1 DEF TimerTypes
<1>3. pending' \in [Timers -> Nat]
  BY <1>1, <1>2 DEF TimerTypes
<1> QED BY <1>1, <1>3 DEF TimerTypes, tqVars

(* Creating the ticking Timer keeps the timers' types.                     *)
LEMMA TimerCreated ==
  ASSUME NEW t \in Timers, TimerTypes, T!Timer_create(t, TRUE, FALSE)
  PROVE  TimerTypes' /\ UNCHANGED tqVars
<1>1. /\ is_periodic' = [is_periodic EXCEPT ![t] = TRUE]
      /\ T!k_timer_start(t)
      /\ tself' = [tself EXCEPT ![t] = TRUE]
      /\ theld' = [theld EXCEPT ![t] = FALSE]
      /\ cancelled' = [cancelled EXCEPT ![t] = FALSE]
      /\ UNCHANGED <<dyn_tq, base, firing, frames, pending>>
  BY DEF T!Timer_create, T!Timer_new, T!tqVars
<1>2. /\ tid' \in [Timers -> Slots \cup {NoSlot}]
      /\ ktimer' \in [Slots -> Timers \cup {NoTimer}]
  BY <1>1 DEF T!k_timer_start, TimerTypes
<1> QED BY <1>1, <1>2 DEF TimerTypes, tqVars

-----------------------------------------------------------------------------
(* The I2C operations under the application: each of its steps is one of   *)
(* StormI2c, or posts a Task, or leaves thread and operations alone.       *)
LEMMA PumpedSame ==
  ASSUME I2cInv, frames' = Pumped
  PROVE  SameOps
<1>1. /\ Len(frames') = Len(frames)
      /\ \A i \in 1..Len(frames) :
           \/ frames'[i] = frames[i]
           \/ frames'[i] \notin Ops /\ frames[i] \notin Ops
  BY PumpedOps DEF I2cInv, TypeOK
<1>2. \A i \in 1..Len(frames) : frames'[i] \in Ops <=> frames[i] \in Ops
  BY <1>1
<1>3. \A i \in 1..Len(frames) : frames'[i] \in Ops => frames'[i] = frames[i]
  BY <1>1
<1>4. \A i \in 1..Len(frames) : frames[i] \in Ops => frames'[i] = frames[i]
  BY <1>1
<1> QED BY <1>1, <1>2, <1>3, <1>4 DEF SameOps, Running, I2cInv, OneStage

(* A step that touches neither thread nor operations keeps I2cInv.         *)
LEMMA TempThread ==
  ASSUME I2cInv, UNCHANGED tqVars, UNCHANGED i2cVars
  PROVE  I2cInv'
<1>1. TqTypeOK' /\ FiringIsFront' /\ UNCHANGED frames
  BY DEF tqVars, I2cInv, TypeOK, TqTypeOK, FiringIsFront
<1> QED BY <1>1, FramesSame, ThreadOnly

(* The delivery of a Timer to the task queue keeps I2cInv.                 *)
LEMMA TimerPosts ==
  ASSUME NEW t \in Timers, I2cInv, UNCHANGED i2cVars,
         tq_add(t), frames' = Pumped, UNCHANGED <<base, firing>>
  PROVE  I2cInv'
<1>1. TqTypeOK /\ FiringIsFront /\ t \in Fns
  BY TempAssumption DEF I2cInv, TypeOK
<1>2. TqTypeOK' /\ FiringIsFront'
  BY <1>1, PumpedType, AddStep
<1> QED BY <1>2, PumpedSame, ThreadOnly

(* A new transfer of the application.                                      *)
LEMMA AskI2c ==
  ASSUME NEW o \in Ops, NEW b, NEW kind \in {"read", "write"}, I2cInv,
         transact(o, b, kind, FALSE)
  PROVE  b \in Bufs /\ I2cInv'
<1>1. b \in Bufs
  BY DEF transact, I2cInv, TypeOK
<1> QED BY <1>1, TransactStep

(* Every statement of the application keeps I2cInv.                        *)
LEMMA StatementI2c ==
  ASSUME I2cInv, TimerTypes, Statement
  PROVE  I2cInv'
<1>1. CASE make_buf
  BY <1>1, BufStep DEF make_buf
<1>2. CASE drop
  <2>1. OwnBuf \in Bufs /\ drop_buf(OwnBuf)
    BY <1>2 DEF drop, drop_buf, I2cInv, TypeOK
  <2> QED BY <2>1, BufStep
<1>3. CASE write_config \/ write_select
  BY <1>3, AskI2c DEF write_config, write_select, Asks, write
<1>4. CASE read_result
  BY <1>4, AskI2c DEF read_result, Asks, read
<1>5. ASSUME NEW t \in Timers, start_ticks(t) PROVE I2cInv'
  BY <1>5, TimerCreated, TempThread DEF start_ticks
<1>6. ASSUME NEW o \in Ops, callback_ends(o) PROVE I2cInv'
  BY <1>6, ReturnStep DEF callback_ends
<1>7. CASE function_ends \/ main_ends
  BY <1>7, ThreadStep DEF function_ends, main_ends
<1> QED BY <1>1, <1>2, <1>3, <1>4, <1>5, <1>6, <1>7 DEF Statement

(* Every step while the application runs keeps I2cInv.                     *)
LEMMA TemperatureI2c ==
  ASSUME I2cInv, TimerTypes, Temperature
  PROVE  I2cInv'
<1>1. CASE Statement
  BY <1>1, StatementI2c
<1>2. CASE tick \/ Scheduler
  BY <1>2, ThreadStep DEF tick, Scheduler
<1>3. ASSUME NEW o \in Ops, op_callback(o) PROVE I2cInv'
  BY <1>3, I2cCallbackStep DEF op_callback
<1>4. ASSUME NEW o \in Ops, transfer_ends(o) PROVE I2cInv'
  BY <1>4, DoneStep DEF transfer_ends
<1>5. ASSUME NEW t \in Timers, timer_callback(t) PROVE I2cInv'
  BY <1>5, TimerTaken, TimerPosts DEF timer_callback
<1>6. ASSUME NEW s \in Slots, tick_due(s) PROVE I2cInv'
  BY <1>6, TimerDue, TempThread DEF tick_due
<1> QED BY <1>1, <1>2, <1>3, <1>4, <1>5, <1>6 DEF Temperature

-----------------------------------------------------------------------------
(* The types of the application's variables.                               *)
LEMMA StatementTypes ==
  ASSUME TimerTypes, AppTypes, Statement
  PROVE  TimerTypes' /\ AppTypes'
<1>1. ASSUME NEW next \in {"main_write", "tick_write", "main_end", "return", "none"},
             Then(next), UNCHANGED <<role, spoiled>>
      PROVE  TimerTypes' /\ AppTypes'
  BY <1>1 DEF Then, TimerTypes, AppTypes, timers, sensor
<1>2. ASSUME NEW next \in {"main_end", "return"}, NEW r \in {"setup", "select", "fetch"},
             NEW o \in Ops, Then(next), Asks(o, r)
      PROVE  TimerTypes' /\ AppTypes'
  <2>1. /\ role' = [role EXCEPT ![o] = r]
        /\ spoiled' \in BOOLEAN
    BY <1>2 DEF Asks
  <2> QED BY <1>2, <2>1 DEF Then, TimerTypes, AppTypes, timers, sensor
<1>3. CASE make_buf \/ drop \/ function_ends \/ main_ends
  BY <1>1, <1>3 DEF make_buf, drop, function_ends, main_ends
<1>4. CASE write_config \/ write_select \/ read_result
  <2>1. FreeOp \in Ops
    BY <1>4 DEF write_config, write_select, read_result, Asks
  <2> QED BY <1>2, <1>4, <2>1 DEF write_config, write_select, read_result
<1>5. ASSUME NEW t \in Timers, start_ticks(t) PROVE TimerTypes' /\ AppTypes'
  BY <1>5, TimerCreated DEF start_ticks, AppTypes, sensor
<1>6. ASSUME NEW o \in Ops, callback_ends(o) PROVE TimerTypes' /\ AppTypes'
  <2>1. /\ todo' = "none"
        /\ role' = [role EXCEPT ![o] = "none"]
        /\ ok' = [ok EXCEPT ![o] = FALSE]
        /\ fetched' = [fetched EXCEPT ![o] = 0]
        /\ UNCHANGED <<program, pointer, bus, spoiled, timers>>
    BY <1>6 DEF callback_ends
  <2>2. fetched' \in [Ops -> 0..2]
    BY <2>1 DEF AppTypes
  <2> QED BY <2>1, <2>2 DEF TimerTypes, AppTypes, timers
<1> QED BY <1>3, <1>4, <1>5, <1>6 DEF Statement

(* Every step while the application runs keeps the other types.            *)
LEMMA TemperatureTypes ==
  ASSUME TimerTypes, AppTypes, Temperature
  PROVE  TimerTypes' /\ AppTypes'
<1>1. CASE Statement
  BY <1>1, StatementTypes
<1>2. CASE tick \/ Scheduler
  BY <1>2 DEF tick, Scheduler, Then, TimerTypes, AppTypes, timers, sensor, appVars
<1>3. ASSUME NEW o \in Ops, op_callback(o) PROVE TimerTypes' /\ AppTypes'
  <2>1. /\ todo' = role[o]
        /\ UNCHANGED <<program, sensor, timers, role, spoiled>>
    BY <1>3 DEF op_callback, Then
  <2> QED BY <2>1 DEF TimerTypes, AppTypes, timers, sensor
<1>4. ASSUME NEW o \in Ops, transfer_ends(o) PROVE TimerTypes' /\ AppTypes'
  <2>1. UNCHANGED <<program, todo, role, timers>>
    BY <1>4 DEF transfer_ends
  <2>2. PICK good \in BOOLEAN :
          /\ ok' = [ok EXCEPT ![o] = good]
          /\ pointer' \in {pointer, RegisterOf(role[o])}
          /\ bus' \in {"free", "held"}
          /\ spoiled' \in BOOLEAN
          /\ fetched' = [fetched EXCEPT ![o] =
                            IF good /\ kxfer[o] = "read" THEN pointer ELSE 0]
    BY <1>4 DEF transfer_ends, AppTypes
  <2>3. pointer' \in 0..2
    BY <2>2 DEF AppTypes, RegisterOf
  <2>4. fetched' \in [Ops -> 0..2]
    BY <2>2 DEF AppTypes
  <2>5. TimerTypes'
    BY <2>1 DEF TimerTypes, timers
  <2>6. ok' \in [Ops -> BOOLEAN]
    BY <2>2 DEF AppTypes
  <2> QED BY <2>1, <2>2, <2>3, <2>4, <2>5, <2>6 DEF AppTypes
<1>5. ASSUME NEW t \in Timers, timer_callback(t) PROVE TimerTypes' /\ AppTypes'
  BY <1>5, TimerTaken DEF timer_callback, AppTypes, appVars, sensor
<1>6. ASSUME NEW s \in Slots, tick_due(s) PROVE TimerTypes' /\ AppTypes'
  BY <1>6, TimerDue DEF tick_due, AppTypes, appVars, sensor
<1> QED BY <1>1, <1>2, <1>3, <1>4, <1>5, <1>6 DEF Temperature

-----------------------------------------------------------------------------
(* The application proper.                                                 *)
AppInv == Places /\ RolesAgree /\ SetupAlone /\ PointerKept /\ HeldForFetch

AppRunning == TempInv /\ program = "temperature"

(* A statement that starts and ends no transfer and does not give up the   *)
(* fetch that a successful select has ahead.                               *)
LEMMA QuietStep ==
  ASSUME AppInv, UNCHANGED <<self, kxfer, role, ok, pointer, bus, spoiled, fetched>>,
         \A o \in Ops : Running(o)' <=> Running(o),
         todo = "select" => \A o \in Ops : Running(o) => ~ok[o]
  PROVE  RolesAgree' /\ PointerKept' /\ HeldForFetch'
<1>1. RolesAgree'
  BY DEF AppInv, RolesAgree, InFlight
<1>2. PointerKept'
  BY DEF AppInv, PointerKept, Selected
<1>3. HeldForFetch'
  <2>1. \A o \in Ops : FetchAhead(o) => FetchAhead(o)'
    BY DEF FetchAhead
  <2> QED BY <2>1 DEF AppInv, HeldForFetch
<1> QED BY <1>1, <1>2, <1>3

(* Steps that neither leave nor prolong the setting up.                    *)
LEMMA SetupStable ==
  ASSUME SetupAlone, UNCHANGED <<kxfer, role>>,
         todo' \in {"main", "main_write"} => todo \in {"main", "main_write"},
         todo' = "setup" => SettingUp,
         SettingUp => UNCHANGED <<dyn_tq, firing, ktimer, pending>>
  PROVE  SetupAlone'
<1>1. SettingUp' => SettingUp
  BY DEF SettingUp, InFlight
<1> QED BY <1>1 DEF SetupAlone

(* main() or the tick makes its buffer.                                    *)
LEMMA MakeBufStep == ASSUME AppRunning, make_buf PROVE AppInv'
<1>1. /\ todo \in {"main", "tick"}
      /\ todo' = IF todo = "main" THEN "main_write" ELSE "tick_write"
      /\ UNCHANGED <<dyn_tq, base, firing, frames, self, kxfer, role, ok, pointer,
                     bus, spoiled, fetched, ktimer, pending>>
  BY DEF make_buf, mkbuf, Then, tqVars, sensor, timers
<1>2. AppInv
  BY DEF AppRunning, TempInv, AppInv
<1>3. Places'
  BY <1>1, PlaceOf DEF AppRunning, Places
<1>4. RolesAgree' /\ PointerKept' /\ HeldForFetch'
  BY <1>1, <1>2, QuietStep DEF Running
<1>5. SetupAlone'
  BY <1>1, <1>2, SetupStable DEF AppInv
<1> QED BY <1>3, <1>4, <1>5 DEF AppInv

(* A callback lets its buffer go.                                          *)
LEMMA DropStep == ASSUME AppRunning, drop PROVE AppInv'
<1>1. /\ todo \in {"drop", "fetch"} \/ (todo = "select" /\ ~ok[Top])
      /\ todo' = "return"
      /\ UNCHANGED <<dyn_tq, base, firing, frames, self, kxfer, role, ok, pointer,
                     bus, spoiled, fetched, ktimer, pending>>
  BY DEF drop, drop_buf, Then, tqVars, sensor, timers
<1>2. AppInv
  BY DEF AppRunning, TempInv, AppInv
<1>3. PICK o \in Ops : frames = <<"ran", o>> /\ base = "sched" /\ firing = NoFn
  BY <1>1, PlaceOf DEF AppRunning
<1>4. Places'
  BY <1>1, <1>3 DEF Places
<1>5. todo = "select" => \A p \in Ops : Running(p) => ~ok[p]
  BY <1>1, <1>3, TopOp
<1>6. RolesAgree' /\ PointerKept' /\ HeldForFetch'
  BY <1>1, <1>2, <1>5, QuietStep DEF Running
<1>7. SetupAlone'
  BY <1>1, <1>2, SetupStable DEF AppInv
<1> QED BY <1>4, <1>6, <1>7 DEF AppInv

(* The configuring write's callback starts the Timer: it was the only      *)
(* transfer, and it is over.                                               *)
LEMMA StartStep ==
  ASSUME AppRunning, NEW t \in Timers, start_ticks(t) PROVE AppInv'
<1>1. /\ todo = "setup" /\ todo' = "drop"
      /\ UNCHANGED <<dyn_tq, base, firing, frames, self, kxfer, role, ok, pointer,
                     bus, spoiled, fetched>>
  <2>1. TimerTypes
    BY TypeParts DEF AppRunning, TempInv
  <2> QED BY <2>1, TimerCreated DEF start_ticks, i2cVars, tqVars, sensor
<1>2. AppInv
  BY DEF AppRunning, TempInv, AppInv
<1>3. PICK o \in Ops : frames = <<"ran", o>> /\ base = "sched" /\ firing = NoFn
                       /\ role[o] = "setup"
  BY <1>1, PlaceOf DEF AppRunning
<1>4. Places'
  BY <1>1, <1>3 DEF Places
<1>5. RolesAgree' /\ PointerKept' /\ HeldForFetch'
  BY <1>1, <1>2, QuietStep DEF Running
<1>6. ~SettingUp'
  <2>1. \A p \in Ops : role[p] = "setup" => p = o
    BY <1>1, <1>2, <1>3 DEF AppInv, SetupAlone, SettingUp
  <2>2. ~InFlight(o)
    BY <1>3, TopOp DEF AppRunning, TempInv, I2cInv, OneStage
  <2> QED BY <1>1, <2>1, <2>2 DEF SettingUp, InFlight
<1>7. SetupAlone'
  BY <1>6 DEF SetupAlone
<1> QED BY <1>4, <1>5, <1>7 DEF AppInv

(* The tick's function returns to run_one().                               *)
LEMMA FunctionEndsStep == ASSUME AppRunning, function_ends PROVE AppInv'
<1>1. /\ todo = "return" /\ todo' = "none" /\ firing # NoFn /\ firing' = NoFn
      /\ frames = <<>>
      /\ UNCHANGED <<base, frames, self, kxfer, role, ok, pointer,
                     bus, spoiled, fetched, ktimer, pending>>
  BY DEF function_ends, run_one_pop, Then, i2cVars, sensor, timers
<1>2. AppInv
  BY DEF AppRunning, TempInv, AppInv
<1>3. Places'
  BY <1>1, PlaceOf DEF AppRunning, Places
<1>4. RolesAgree' /\ PointerKept' /\ HeldForFetch'
  BY <1>1, <1>2, QuietStep DEF Running
<1>5. SetupAlone'
  <2>1. ~SettingUp
    BY <1>1, <1>2 DEF AppInv, SetupAlone
  <2> QED BY <1>1, <1>2, <2>1, SetupStable DEF AppInv
<1> QED BY <1>3, <1>4, <1>5 DEF AppInv

(* main() returns into the scheduler.                                      *)
LEMMA MainEndsStep == ASSUME AppRunning, main_ends PROVE AppInv'
<1>1. /\ todo = "main_end" /\ todo' = "none" /\ base' = "sched"
      /\ UNCHANGED <<dyn_tq, firing, frames, self, kxfer, role, ok, pointer,
                     bus, spoiled, fetched, ktimer, pending>>
  BY DEF main_ends, MainDone, Then, i2cVars, sensor, timers
<1>2. AppInv
  BY DEF AppRunning, TempInv, AppInv
<1>3. Places'
  BY <1>1, PlaceOf DEF AppRunning, Places
<1>4. RolesAgree' /\ PointerKept' /\ HeldForFetch'
  BY <1>1, <1>2, QuietStep DEF Running
<1>5. SetupAlone'
  BY <1>1, <1>2, SetupStable DEF AppInv
<1> QED BY <1>3, <1>4, <1>5 DEF AppInv

(* run_one() calls the tick, which only happens after the setup.           *)
LEMMA TickStep == ASSUME AppRunning, tick PROVE AppInv'
<1>1. /\ todo = "none" /\ todo' = "tick" /\ dyn_tq # <<>>
      /\ firing = NoFn /\ firing' = Head(dyn_tq) /\ frames = <<>>
      /\ UNCHANGED <<base, frames, self, kxfer, role, ok, pointer,
                     bus, spoiled, fetched>>
  BY DEF tick, run_one_fire, AtLoopTop, Then, i2cVars, sensor
<1>2. AppInv /\ dyn_tq \in Seq(Fns)
  BY DEF AppRunning, TempInv, AppInv, I2cInv, TypeOK, TqTypeOK
<1>3. firing' # NoFn
  <2>1. Head(dyn_tq) \in Fns
    BY <1>1, <1>2
  <2> QED BY <1>1, <2>1, TaskQueueAssumption
<1>4. Places'
  BY <1>1, <1>3, PlaceOf DEF AppRunning, Places
<1>5. RolesAgree' /\ PointerKept' /\ HeldForFetch'
  BY <1>1, <1>2, QuietStep DEF Running
<1>6. SetupAlone'
  <2>1. ~SettingUp
    BY <1>1, <1>2 DEF AppInv, SetupAlone
  <2> QED BY <1>1, <1>2, <2>1, SetupStable DEF AppInv
<1> QED BY <1>4, <1>5, <1>6 DEF AppInv

(* The scheduler waits, or the wait returns.                               *)
LEMMA SchedulerStep == ASSUME AppRunning, Scheduler PROVE AppInv'
<1>1. /\ todo = "none"
      /\ UNCHANGED <<dyn_tq, base, firing, todo, self, kxfer, role, ok, pointer,
                     bus, spoiled, fetched, ktimer, pending>>
      /\ \/ frames = <<>> /\ frames' = Append(frames, "wait")
         \/ frames # <<>> /\ frames' = Pop(frames)
  BY DEF Scheduler, scheduler_wait, AtLoopTop, wait_returns, i2cVars, appVars,
         sensor, timers
<1>2. AppInv
  BY DEF AppRunning, TempInv, AppInv
<1>3. base = "sched" /\ firing = NoFn /\ frames \in {<<>>, <<"wait">>, <<"ran">>}
  BY <1>1, PlaceOf DEF AppRunning
<1>4. frames' \in {<<>>, <<"wait">>}
  <2>1. Pop(<<"wait">>) = <<>> /\ Pop(<<"ran">>) = <<>>
    BY PopPair
  <2>2. Append(<<>>, "wait") = <<"wait">>
    OBVIOUS
  <2> QED BY <1>1, <1>3, <2>1, <2>2
<1>5. Places'
  BY <1>1, <1>3, <1>4 DEF Places
<1>6. \A o \in Ops : ~Running(o)
  BY <1>3, NoneRunning DEF Running
<1>7. \A o \in Ops : ~Running(o)'
  BY <1>4, NoneRunning DEF Running
<1>8. RolesAgree' /\ PointerKept' /\ HeldForFetch'
  BY <1>1, <1>2, <1>6, <1>7, QuietStep
<1>9. SetupAlone'
  BY <1>1, <1>2, SetupStable DEF AppInv
<1> QED BY <1>5, <1>8, <1>9 DEF AppInv

(* The Timer's callback and its coming due: neither happens before the     *)
(* configuring write is over.                                              *)
LEMMA TimerSteps ==
  ASSUME AppRunning,
         (\E t \in Timers : timer_callback(t)) \/ (\E s \in Slots : tick_due(s))
  PROVE  AppInv'
<1>0. AppInv /\ I2cInv /\ TimerTypes
  BY TypeParts DEF AppRunning, TempInv, AppInv
<1>1. /\ ~SettingUp
      /\ UNCHANGED <<base, firing, todo, self, kxfer, role, ok, pointer,
                     bus, spoiled, fetched>>
  <2>1. ASSUME NEW t \in Timers, timer_callback(t)
        PROVE  /\ ~SettingUp
               /\ UNCHANGED <<base, firing, todo, self, kxfer, role, ok, pointer,
                              bus, spoiled, fetched>>
    <3>1. pending[t] > 0 /\ UNCHANGED <<base, firing>>
      BY <1>0, <2>1, TimerTaken DEF timer_callback
    <3>2. ~SettingUp
      BY <1>0, <3>1 DEF AppInv, SetupAlone
    <3> QED BY <2>1, <3>1, <3>2 DEF timer_callback, i2cVars, appVars, sensor
  <2>2. ASSUME NEW s \in Slots, tick_due(s)
        PROVE  /\ ~SettingUp
               /\ UNCHANGED <<base, firing, todo, self, kxfer, role, ok, pointer,
                              bus, spoiled, fetched>>
    <3>1. ktimer[s] # NoTimer /\ UNCHANGED <<base, firing>>
      BY <1>0, <2>2, TimerDue DEF tick_due, tqVars
    <3>2. ~SettingUp
      BY <1>0, <3>1 DEF AppInv, SetupAlone
    <3> QED BY <2>2, <3>1, <3>2 DEF tick_due, i2cVars, appVars, sensor
  <2> QED BY <2>1, <2>2
<1>2. /\ \A o \in Ops : Running(o)' <=> Running(o)
      /\ frames' = frames \/ (todo = "none" /\ frames' = Pumped)
  <2>1. ASSUME NEW t \in Timers, timer_callback(t)
        PROVE  SameOps /\ todo = "none" /\ frames' = Pumped
    BY <1>0, <2>1, TimerTaken, PumpedSame DEF timer_callback
  <2>2. ASSUME NEW s \in Slots, tick_due(s)
        PROVE  UNCHANGED frames
    BY <1>0, <2>2, TimerDue DEF tick_due, tqVars
  <2> QED BY <2>1, <2>2 DEF SameOps, Running
<1>3. Places'
  <2>1. CASE frames' = frames
    BY <1>0, <1>1, <2>1 DEF AppInv, Places
  <2>2. CASE todo = "none" /\ frames' = Pumped
    <3>1. base = "sched" /\ firing = NoFn /\ frames \in {<<>>, <<"wait">>, <<"ran">>}
      BY <2>2, PlaceOf DEF AppRunning
    <3>2. frames' \in {<<>>, <<"ran">>}
      <4>1. CASE frames = <<>>
        BY <2>2, <4>1 DEF Pumped, InWait
      <4>2. CASE frames \in {<<"wait">>, <<"ran">>}
        BY <2>2, <4>2, PumpedOne
      <4> QED BY <3>1, <4>1, <4>2
    <3> QED BY <1>1, <2>2, <3>1, <3>2 DEF Places
  <2> QED BY <1>2, <2>1, <2>2
<1>4. RolesAgree' /\ PointerKept'
  BY <1>0, <1>1, <1>2 DEF AppInv, RolesAgree, PointerKept, Selected, InFlight
<1>5. HeldForFetch'
  <2>1. \A o \in Ops : FetchAhead(o) => FetchAhead(o)'
    BY <1>1, <1>2 DEF FetchAhead
  <2> QED BY <1>0, <1>1, <2>1 DEF AppInv, HeldForFetch
<1>6. SetupAlone'
  BY <1>1 DEF SetupAlone, SettingUp, InFlight
<1> QED BY <1>3, <1>4, <1>5, <1>6 DEF AppInv

(* A new transfer gets the name of an operation that is no more.           *)
LEMMA AskStep ==
  ASSUME AppRunning, NEW o \in Ops, NEW b, NEW kind, NEW r,
         \/ kind = "write" /\ r \in {"setup", "select"}
         \/ kind = "read" /\ r = "fetch" /\ pointer = 1,
         transact(o, b, kind, FALSE), Asks(o, r), UNCHANGED <<program, sensor, timers>>
  PROVE  /\ UNCHANGED <<dyn_tq, base, firing, frames, ktimer, pending, bus, pointer>>
         /\ RolesAgree' /\ PointerKept'
         /\ role[o] = "none"
         /\ role' = [role EXCEPT ![o] = r]
         /\ \A p \in Ops \ {o} : kxfer'[p] = kxfer[p] /\ (FetchAhead(p) /\ todo # "select"
                                                          => FetchAhead(p)')
         /\ ~spoiled' => ~spoiled /\ kxfer'[o] = kind
<1>0. /\ RolesAgree /\ PointerKept /\ OpsAccounted
      /\ TypeOK /\ TimerTypes /\ AppTypes
  BY TypeParts DEF AppRunning, TempInv, I2cInv
<1>1. PICK accepted \in BOOLEAN :
        /\ refused' = [refused EXCEPT ![o] = ~accepted]
        /\ kxfer' = IF accepted THEN [kxfer EXCEPT ![o] = kind] ELSE kxfer
  BY DEF transact
<1>2. /\ ~self[o] /\ self' = [self EXCEPT ![o] = TRUE]
      /\ UNCHANGED <<dyn_tq, base, firing, frames>>
      /\ role' = [role EXCEPT ![o] = r]
      /\ spoiled' = (spoiled \/ refused'[o])
      /\ UNCHANGED <<ok, pointer, bus, fetched, ktimer, pending>>
  BY DEF transact, Alive, tqVars, Asks, sensor, timers
<1>3. role[o] = "none" /\ ~ok[o] /\ kxfer[o] = "none"
  BY <1>0, <1>2 DEF RolesAgree, OpsAccounted, InFlight
<1>4. /\ role'[o] = r /\ self'[o] /\ kxfer'[o] \in {"none", kind}
      /\ ~refused'[o] => kxfer'[o] = kind
  BY <1>0, <1>1, <1>2, <1>3 DEF TypeOK, AppTypes
<1>5. \A p \in Ops \ {o} : /\ role'[p] = role[p] /\ self'[p] = self[p]
                            /\ kxfer'[p] = kxfer[p]
  BY <1>0, <1>1, <1>2 DEF TypeOK, AppTypes
<1>6. \A p \in Ops : Running(p)' <=> Running(p)
  BY <1>2 DEF Running
<1>7. RolesAgree'
  <2> SUFFICES ASSUME NEW p \in Ops
               PROVE  /\ ~self'[p] => role'[p] = "none" /\ ~ok'[p]
                      /\ InFlight(p)' \/ Running(p)' => role'[p] # "none"
                      /\ kxfer'[p] = "read" => role'[p] = "fetch"
                      /\ kxfer'[p] = "write" => role'[p] \in {"setup", "select"}
    BY DEF RolesAgree
  <2>1. CASE p = o
    BY <1>4, <2>1
  <2>2. CASE p # o
    BY <1>0, <1>2, <1>5, <1>6, <2>2 DEF RolesAgree, InFlight
  <2> QED BY <2>1, <2>2
<1>8. PointerKept'
  BY <1>0, <1>2, <1>3, <1>4, <1>5 DEF PointerKept, Selected
<1>9. \A p \in Ops \ {o} : FetchAhead(p) /\ todo # "select" => FetchAhead(p)'
  BY <1>2, <1>5, <1>6 DEF FetchAhead
<1>10. ~spoiled' => ~spoiled /\ kxfer'[o] = kind
  BY <1>2, <1>4
<1> QED BY <1>2, <1>3, <1>5, <1>7, <1>8, <1>9, <1>10

(* main() asks for the configuration write.                                *)
LEMMA WriteConfigStep == ASSUME AppRunning, write_config PROVE AppInv'
<1> DEFINE o == FreeOp
<1>0. AppInv /\ TempTypeOK
  BY DEF AppRunning, TempInv, AppInv
<1>1. /\ todo = "main_write" /\ todo' = "main_end" /\ o \in Ops
      /\ transact(o, OwnBuf, "write", FALSE) /\ Asks(o, "setup")
      /\ UNCHANGED <<program, sensor, timers>>
  BY DEF write_config, write, Asks, Then
<1> HIDE DEF o
<1>2. /\ UNCHANGED <<dyn_tq, base, firing, frames, ktimer, pending, bus, pointer>>
      /\ RolesAgree' /\ PointerKept'
      /\ role[o] = "none"
      /\ role' = [role EXCEPT ![o] = "setup"]
      /\ \A p \in Ops \ {o} : kxfer'[p] = kxfer[p] /\ (FetchAhead(p) => FetchAhead(p)')
      /\ ~spoiled' => ~spoiled
  BY <1>1, AskStep
<1>3. Places'
  BY <1>1, <1>2, PlaceOf DEF AppRunning, Places
<1>4. HeldForFetch'
  <2>1. ~FetchAhead(o)
    BY <1>2 DEF FetchAhead
  <2> QED BY <1>0, <1>2, <2>1 DEF AppInv, HeldForFetch
<1>5. SetupAlone'
  <2>1. /\ SettingUp
        /\ \A p \in Ops : role[p] = "none"
    BY <1>0, <1>1 DEF AppInv, SetupAlone, SettingUp
  <2>2. \A p \in Ops : role'[p] = IF p = o THEN "setup" ELSE "none"
    BY <1>0, <1>1, <1>2, <2>1 DEF TempTypeOK
  <2> QED BY <1>0, <1>1, <1>2, <2>1, <2>2 DEF AppInv, SetupAlone
<1> QED BY <1>2, <1>3, <1>4, <1>5 DEF AppInv

(* The tick asks for the write that selects the register.                  *)
LEMMA WriteSelectStep == ASSUME AppRunning, write_select PROVE AppInv'
<1> DEFINE o == FreeOp
<1>0. AppInv /\ TempTypeOK
  BY DEF AppRunning, TempInv, AppInv
<1>1. /\ todo = "tick_write" /\ todo' = "return" /\ o \in Ops
      /\ transact(o, OwnBuf, "write", FALSE) /\ Asks(o, "select")
      /\ UNCHANGED <<program, sensor, timers>>
  BY DEF write_select, write, Asks, Then
<1> HIDE DEF o
<1>2. /\ UNCHANGED <<dyn_tq, base, firing, frames, ktimer, pending, bus, pointer>>
      /\ RolesAgree' /\ PointerKept'
      /\ role[o] = "none"
      /\ role' = [role EXCEPT ![o] = "select"]
      /\ \A p \in Ops \ {o} : kxfer'[p] = kxfer[p] /\ (FetchAhead(p) => FetchAhead(p)')
      /\ ~spoiled' => ~spoiled
  BY <1>1, AskStep
<1>3. Places' /\ firing # NoFn
  BY <1>1, <1>2, PlaceOf DEF AppRunning, Places
<1>4. HeldForFetch'
  <2>1. ~FetchAhead(o)
    BY <1>2 DEF FetchAhead
  <2> QED BY <1>0, <1>2, <2>1 DEF AppInv, HeldForFetch
<1>5. ~SettingUp'
  <2>1. ~SettingUp
    BY <1>0, <1>3 DEF AppInv, SetupAlone
  <2>2. role'[o] = "select" /\ \A p \in Ops \ {o} : role'[p] = role[p]
    BY <1>0, <1>1, <1>2 DEF TempTypeOK
  <2> QED BY <1>1, <1>2, <2>1, <2>2 DEF SettingUp, InFlight
<1> QED BY <1>2, <1>3, <1>4, <1>5 DEF AppInv, SetupAlone

(* The callback of a select that succeeded asks for the fetch.             *)
LEMMA ReadResultStep == ASSUME AppRunning, read_result PROVE AppInv'
<1> DEFINE o == FreeOp
<1>0. AppInv /\ TempTypeOK
  BY DEF AppRunning, TempInv, AppInv
<1>1. /\ todo = "select" /\ ok[Top] /\ todo' = "return" /\ o \in Ops
      /\ transact(o, OwnBuf, "read", FALSE) /\ Asks(o, "fetch")
      /\ UNCHANGED <<program, sensor, timers>>
  BY DEF read_result, read, Asks, Then
<1> HIDE DEF o
<1>2. PICK q \in Ops : frames = <<"ran", q>> /\ base = "sched" /\ firing = NoFn
                       /\ role[q] = "select" /\ Top = q
  BY <1>1, PlaceOf, TopOp DEF AppRunning
<1>3. pointer = 1
  BY <1>0, <1>1, <1>2 DEF AppInv, PointerKept, Selected
<1>4. /\ UNCHANGED <<dyn_tq, base, firing, frames, ktimer, pending, bus, pointer>>
      /\ RolesAgree' /\ PointerKept'
      /\ role[o] = "none"
      /\ role' = [role EXCEPT ![o] = "fetch"]
      /\ \A p \in Ops \ {o} : kxfer'[p] = kxfer[p]
      /\ ~spoiled' => ~spoiled /\ kxfer'[o] = "read"
  BY <1>1, <1>3, AskStep
<1>5. Places'
  BY <1>1, <1>2, <1>4 DEF Places
<1>6. role'[o] = "fetch" /\ \A p \in Ops \ {o} : role'[p] = role[p]
  BY <1>0, <1>1, <1>4 DEF TempTypeOK
<1>7. HeldForFetch'
  BY <1>1, <1>4, <1>6 DEF HeldForFetch, FetchAhead
<1>8. ~SettingUp'
  <2>1. ~SettingUp
    BY <1>0, <1>2 DEF AppInv, SetupAlone
  <2> QED BY <1>1, <1>4, <1>6, <2>1 DEF SettingUp, InFlight
<1> QED BY <1>4, <1>5, <1>7, <1>8 DEF AppInv, SetupAlone

(* A callback returns and its operation is no more.                        *)
LEMMA CallbackEndsStep ==
  ASSUME AppRunning, NEW o \in Ops, callback_ends(o) PROVE AppInv'
<1>0. AppInv /\ I2cInv /\ AppTypes /\ TypeOK
  BY TypeParts DEF AppRunning, TempInv, AppInv, I2cInv
<1>1. /\ todo = "return" /\ todo' = "none"
      /\ frames # <<>> /\ Top = o /\ frames' = Pop(frames)
      /\ self' = [self EXCEPT ![o] = FALSE]
      /\ role' = [role EXCEPT ![o] = "none"]
      /\ ok' = [ok EXCEPT ![o] = FALSE]
      /\ fetched' = [fetched EXCEPT ![o] = 0]
      /\ UNCHANGED <<dyn_tq, base, firing, kxfer, pointer, bus, spoiled, ktimer, pending>>
  BY DEF callback_ends, invoke_returns, timers
<1>2. base = "sched" /\ firing = NoFn /\ frames = <<"ran", o>>
  BY <1>1, PlaceOf, TopOp DEF AppRunning
<1>3. frames' = <<"ran">>
  BY <1>1, <1>2, PopPair
<1>4. Running(o) /\ ~InFlight(o) /\ \A p \in Ops : ~Running(p)'
  <2>1. Running(o)
    BY <1>2, TopOp
  <2>2. \A p \in Ops : ~Running(p)'
    BY <1>3, NoneRunning DEF Running
  <2> QED BY <1>0, <2>1, <2>2 DEF I2cInv, OneStage
<1>5. \A p \in Ops \ {o} : /\ self'[p] = self[p] /\ role'[p] = role[p]
                            /\ ok'[p] = ok[p] /\ fetched'[p] = fetched[p]
  BY <1>0, <1>1 DEF TypeOK, AppTypes
<1>6. ~self'[o] /\ role'[o] = "none" /\ ~ok'[o]
  BY <1>0, <1>1 DEF TypeOK, AppTypes
<1>7. Places'
  BY <1>1, <1>2, <1>3 DEF Places
<1>8. RolesAgree'
  BY <1>0, <1>1, <1>4, <1>5, <1>6 DEF AppInv, RolesAgree, InFlight
<1>9. SetupAlone'
  <2>1. SettingUp' => SettingUp
    BY <1>1, <1>5, <1>6 DEF SettingUp, InFlight
  <2> QED BY <1>0, <1>1, <1>5, <1>6, <2>1 DEF AppInv, SetupAlone
<1>10. PointerKept'
  BY <1>0, <1>1, <1>5, <1>6 DEF AppInv, PointerKept, Selected
<1>11. HeldForFetch'
  <2>1. ASSUME NEW p \in Ops, FetchAhead(p) PROVE FetchAhead(p)'
    <3>1. p # o
      BY <1>1, <1>4, <2>1 DEF FetchAhead, InFlight
    <3> QED BY <1>1, <1>5, <2>1, <3>1 DEF FetchAhead
  <2> QED BY <1>0, <1>1, <2>1 DEF AppInv, HeldForFetch
<1> QED BY <1>7, <1>8, <1>9, <1>10, <1>11 DEF AppInv

(* The kernel runs the callback of a finished transfer.                    *)
LEMMA OpCallbackStep ==
  ASSUME AppRunning, NEW o \in Ops, op_callback(o) PROVE AppInv'
<1>0. AppInv /\ I2cInv /\ AppTypes /\ TypeOK
  BY TypeParts DEF AppRunning, TempInv, AppInv, I2cInv
<1>1. /\ todo = "none" /\ todo' = role[o] /\ KernelRuns
      /\ kxfer[o] = "done" /\ kxfer' = [kxfer EXCEPT ![o] = "none"]
      /\ frames' = Append(Pumped, o)
      /\ UNCHANGED <<dyn_tq, base, firing, self, role, ok, pointer, bus, spoiled,
                     fetched, ktimer, pending>>
  BY DEF op_callback, i2c_callback, invoke, Then, sensor, timers
<1>2. base = "sched" /\ firing = NoFn /\ frames \in {<<"wait">>, <<"ran">>}
  BY <1>1, PlaceOf DEF AppRunning, KernelRuns, InWait
<1>3. frames' = <<"ran", o>>
  <2>1. frames' = Append(<<"ran">>, o)
    BY <1>1, <1>2, PumpedOne
  <2> QED BY <2>1, AppendOne
<1>4. \A p \in Ops : Running(p)' <=> p = o
  BY <1>3, PairOps DEF Running
<1>5. \A p \in Ops : ~Running(p)
  BY <1>2, NoneRunning DEF Running
<1>6. role[o] # "none" /\ InFlight(o)
  BY <1>0, <1>1 DEF AppInv, RolesAgree, InFlight
<1>7. kxfer'[o] = "none" /\ \A p \in Ops \ {o} : kxfer'[p] = kxfer[p]
  BY <1>0, <1>1 DEF TypeOK
<1>8. Places'
  BY <1>1, <1>2, <1>3 DEF Places
<1>9. RolesAgree'
  BY <1>0, <1>1, <1>4, <1>6, <1>7 DEF AppInv, RolesAgree, InFlight
<1>10. SetupAlone'
  <2>1. SettingUp' => SettingUp
    BY <1>0, <1>1, <1>6, <1>7 DEF SettingUp, InFlight, AppTypes
  <2> QED BY <1>0, <1>1, <2>1 DEF AppInv, SetupAlone, AppTypes
<1>11. PointerKept'
  BY <1>0, <1>1 DEF AppInv, PointerKept, Selected
<1>12. HeldForFetch'
  <2>1. ASSUME NEW p \in Ops, FetchAhead(p) PROVE FetchAhead(p)'
    BY <1>1, <1>4, <1>5, <1>7, <2>1 DEF FetchAhead
  <2> QED BY <1>0, <1>1, <2>1 DEF AppInv, HeldForFetch
<1> QED BY <1>8, <1>9, <1>10, <1>11, <1>12 DEF AppInv

(* The flags of the three transfers: only the select lacks STOP.           *)
LEMMA FlagFacts ==
  /\ Stops(FlagsOf("setup")) /\ Stops(FlagsOf("fetch"))
  /\ ~Stops(FlagsOf("select"))
<1>1. 5 \div 4 = 1 /\ 1 \div 4 = 0 /\ 1 % 2 = 1 /\ 0 % 2 = 0
  OBVIOUS
<1>2. FlagsOf("setup") = 5 /\ FlagsOf("select") = 1 /\ FlagsOf("fetch") = 5
  BY DEF FlagsOf, Or, START, RSTART, STOP
<1> QED BY <1>1, <1>2 DEF Stops, STOP

(* A transfer ends on the bus.                                             *)
LEMMA TransferEndsStep ==
  ASSUME AppRunning, NEW o \in Ops, transfer_ends(o) PROVE AppInv'
<1>0. AppInv /\ I2cInv /\ AppTypes /\ TypeOK
  BY TypeParts DEF AppRunning, TempInv, AppInv, I2cInv
<1>1. /\ kxfer[o] \in {"read", "write"} /\ kxfer' = [kxfer EXCEPT ![o] = "done"]
      /\ UNCHANGED <<dyn_tq, base, firing, frames, self, todo, role, ktimer, pending>>
  BY DEF transfer_ends, k_i2c_done, tqVars, timers
<1>2. PICK good \in BOOLEAN :
        /\ ok' = [ok EXCEPT ![o] = good]
        /\ \/ pointer' = IF kxfer[o] = "write" THEN RegisterOf(role[o]) ELSE pointer
           \/ ~good /\ pointer' = pointer
        /\ bus' = IF good /\ Stops(FlagsOf(role[o])) THEN "free" ELSE "held"
        /\ spoiled' = IF good /\ Stops(FlagsOf(role[o])) THEN FALSE
                                                        ELSE spoiled \/ ~good
        /\ fetched' = [fetched EXCEPT ![o] =
                          IF good /\ kxfer[o] = "read" THEN pointer ELSE 0]
  BY DEF transfer_ends
<1>3. /\ kxfer[o] = "read" => role[o] = "fetch"
      /\ kxfer[o] = "write" => role[o] \in {"setup", "select"}
      /\ self[o]
  BY <1>0, <1>1 DEF AppInv, RolesAgree
<1>4. /\ kxfer'[o] = "done" /\ ok'[o] = good
      /\ fetched'[o] = IF good /\ kxfer[o] = "read" THEN pointer ELSE 0
      /\ \A p \in Ops \ {o} : /\ kxfer'[p] = kxfer[p] /\ ok'[p] = ok[p]
                               /\ fetched'[p] = fetched[p]
  BY <1>0, <1>1, <1>2 DEF TypeOK, AppTypes
<1>5. \A p \in Ops : (Running(p)' <=> Running(p)) /\ (InFlight(p)' <=> InFlight(p))
  BY <1>1, <1>4 DEF Running, InFlight
<1>6. Places'
  BY <1>0, <1>1 DEF AppInv, Places
<1>7. RolesAgree'
  BY <1>0, <1>1, <1>3, <1>4, <1>5 DEF AppInv, RolesAgree
<1>8. SetupAlone'
  <2>1. SettingUp' <=> SettingUp
    BY <1>1, <1>5 DEF SettingUp
  <2> QED BY <1>0, <1>1, <2>1 DEF AppInv, SetupAlone
<1>9. PointerKept'
  <2>1. CASE role[o] = "setup"
    <3>1. \A p \in Ops : role[p] \in {"none", "setup"}
      BY <1>0, <1>1, <2>1 DEF AppInv, SetupAlone, SettingUp, InFlight
    <3> QED BY <1>1, <3>1 DEF PointerKept, Selected
  <2>2. CASE role[o] = "select"
    <3>1. kxfer[o] = "write" /\ RegisterOf(role[o]) = 1
      BY <1>1, <1>3, <2>2 DEF RegisterOf
    <3>2. pointer' = 1 \/ (~good /\ pointer' = pointer)
      BY <1>2, <3>1
    <3> QED BY <1>0, <1>1, <1>4, <2>2, <3>2 DEF AppInv, PointerKept, Selected
  <2>3. CASE role[o] = "fetch"
    <3>1. kxfer[o] = "read" /\ pointer' = pointer /\ pointer = 1
      BY <1>0, <1>1, <1>2, <1>3, <2>3 DEF AppInv, PointerKept, Selected
    <3> QED BY <1>0, <1>1, <1>4, <2>3, <3>1 DEF AppInv, PointerKept, Selected
  <2> QED BY <1>1, <1>3, <2>1, <2>2, <2>3
<1>10. HeldForFetch'
  <2> SUFFICES ASSUME bus' = "held", ~spoiled' PROVE \E p \in Ops : FetchAhead(p)'
    BY DEF HeldForFetch
  <2>1. good /\ ~Stops(FlagsOf(role[o]))
    BY <1>2
  <2>2. role[o] = "select"
    BY <1>1, <1>3, <2>1, FlagFacts
  <2> QED BY <1>1, <1>4, <2>1, <2>2 DEF FetchAhead
<1> QED BY <1>6, <1>7, <1>8, <1>9, <1>10 DEF AppInv

-----------------------------------------------------------------------------
(* In the initial state nothing runs but main().                           *)
LEMMA TempInitInv == TempInit => TempInv
<1> SUFFICES ASSUME TempInit PROVE TempInv
  OBVIOUS
<1>1. I2cInv
  BY I2cInit DEF TempInit
<1>2. TimerTypes /\ AppTypes
  <2>1. TimerTypes
    BY DEF TempInit, T!Init, TimerTypes
  <2>2. /\ role = [o \in Ops |-> "none"] /\ ok = [o \in Ops |-> FALSE]
        /\ fetched = [o \in Ops |-> 0] /\ pointer = 0 /\ bus = "free"
        /\ spoiled = FALSE /\ program \in Programs /\ todo \in {"main", "none"}
    BY DEF TempInit
  <2>3. 0 \in 0..2
    OBVIOUS
  <2> QED BY <2>1, <2>2, <2>3 DEF AppTypes
<1>3. TempTypeOK
  BY <1>1, <1>2, TypeParts
<1>4. /\ dyn_tq = <<>> /\ base = "main" /\ firing = NoFn /\ frames = <<>>
      /\ \A s \in Slots : ktimer[s] = NoTimer
      /\ \A t \in Timers : pending[t] = 0
      /\ \A o \in Ops : role[o] = "none" /\ ~ok[o] /\ ~InFlight(o)
      /\ bus = "free"
  BY DEF TempInit, Init, TqInit, T!Init, InFlight
<1>5. \A o \in Ops : ~Running(o)
  BY <1>4, NoneRunning DEF Running
<1>6. ASSUME program = "temperature" PROVE AppInv
  <2>1. todo = "main"
    BY <1>6 DEF TempInit
  <2>2. Places /\ SetupAlone /\ HeldForFetch
    BY <1>4, <2>1 DEF Places, SetupAlone, HeldForFetch
  <2>3. RolesAgree /\ PointerKept
    BY <1>4, <1>5 DEF RolesAgree, PointerKept, Selected, InFlight
  <2> QED BY <2>2, <2>3 DEF AppInv
<1>7. program = "any" => todo = "none"
  BY DEF TempInit
<1> QED BY <1>1, <1>3, <1>4, <1>6, <1>7 DEF TempInv, AppInv

(* TempInv is inductive: the application's steps one by one, and arbitrary *)
(* user code by the first part of this module.                             *)
LEMMA TempNextInv == TempInv /\ [TempNext]_allVars => TempInv'
<1> SUFFICES ASSUME TempInv, [TempNext]_allVars PROVE TempInv'
  OBVIOUS
<1>0. I2cInv /\ TimerTypes /\ AppTypes
  BY TypeParts DEF TempInv
<1>1. CASE program = "any" /\ Any
  <2>1. /\ Next /\ UNCHANGED <<appVars, timers>>
    BY <1>1 DEF Any
  <2>2. I2cInv'
    BY <1>0, <2>1, I2cNext
  <2>3. TimerTypes' /\ AppTypes'
    BY <1>0, <2>1 DEF TimerTypes, AppTypes, appVars, timers, sensor
  <2>4. TempTypeOK'
    BY <2>2, <2>3, TypePartsNext
  <2>5. UNCHANGED <<program, todo, role, bus>>
    BY <2>1 DEF appVars, sensor
  <2> QED BY <1>1, <2>2, <2>4, <2>5 DEF TempInv
<1>2. CASE Temperature
  <2>1. program = "temperature" /\ UNCHANGED program
    <3>1. program \in {"any", "temperature"}
      BY <1>0, TempAssumption DEF AppTypes
    <3>2. todo # "none" => program = "temperature"
      BY <3>1 DEF TempInv
    <3>3. CASE Statement
      <4>1. todo # "none" /\ UNCHANGED program
        BY <3>3 DEF Statement, make_buf, drop, write_config, write_select,
               read_result, start_ticks, callback_ends, function_ends, main_ends, Then
      <4> QED BY <3>2, <4>1
    <3>4. CASE ~Statement
      BY <1>2, <3>4 DEF Temperature, tick, Scheduler, op_callback, transfer_ends,
             timer_callback, tick_due, Then, appVars
    <3> QED BY <3>3, <3>4
  <2>2. I2cInv' /\ TempTypeOK'
    BY <1>0, <1>2, TemperatureI2c, TemperatureTypes, TypePartsNext
  <2>3. AppRunning
    BY <2>1 DEF AppRunning
  <2>4. CASE Statement
    <3>1. AppInv'
      BY <2>3, <2>4, MakeBufStep, DropStep, WriteConfigStep, WriteSelectStep,
         ReadResultStep, StartStep, CallbackEndsStep, FunctionEndsStep, MainEndsStep
      DEF Statement
    <3> QED BY <2>1, <2>2, <3>1 DEF TempInv, AppInv
  <2>5. CASE ~Statement
    <3>1. AppInv'
      BY <1>2, <2>3, <2>5, TickStep, SchedulerStep, OpCallbackStep,
         TransferEndsStep, TimerSteps
      DEF Temperature
    <3> QED BY <2>1, <2>2, <3>1 DEF TempInv, AppInv
  <2> QED BY <2>4, <2>5
<1>3. CASE UNCHANGED allVars
  <2>1. /\ UNCHANGED <<tqVars, i2cVars>>
        /\ UNCHANGED <<dyn_tq, base, firing, frames, self, kxfer>>
        /\ UNCHANGED <<tself, theld, is_periodic, tid, cancelled, ktimer, pending>>
        /\ UNCHANGED <<program, todo, role, ok, pointer, bus, spoiled, fetched>>
    BY <1>3 DEF allVars, vars, tqVars, i2cVars, timers, appVars, sensor
  <2>2. I2cInv'
    BY <1>0, <2>1, TempThread
  <2>3. TempTypeOK'
    <3>1. TimerTypes' /\ AppTypes'
      BY <1>0, <2>1 DEF TimerTypes, AppTypes
    <3> QED BY <2>2, <3>1, TypePartsNext
  <2>4. ASSUME program = "temperature" PROVE AppInv'
    <3>1. AppInv
      BY <2>4 DEF TempInv, AppInv
    <3>2. Places' /\ SetupAlone'
      BY <2>1, <3>1 DEF AppInv, Places, SetupAlone, SettingUp, InFlight
    <3>3. RolesAgree' /\ PointerKept' /\ HeldForFetch'
      BY <2>1, <3>1 DEF AppInv, RolesAgree, PointerKept, Selected, HeldForFetch,
             FetchAhead, InFlight, Running
    <3> QED BY <3>2, <3>3 DEF AppInv
  <2> QED BY <2>1, <2>2, <2>3, <2>4 DEF TempInv, AppInv
<1> QED BY <1>1, <1>2, <1>3 DEF TempNext

-----------------------------------------------------------------------------
(* The application, its Timer, its operations, the sensor and the kernel   *)
(* agree in every reachable state.                                         *)
THEOREM TempInvariant == TempSpec => []TempInv
<1> QED BY TempInitInv, TempNextInv, PTL DEF TempSpec

(* Type correctness of the whole application.                              *)
THEOREM TempTypes == TempSpec => []TempTypeOK
<1>1. TempInv => TempTypeOK
  BY DEF TempInv
<1> QED BY <1>1, TempInvariant, PTL

(* The application, too, never lends the kernel a buffer it does not own   *)
(* alone.                                                                  *)
THEOREM TempBuffersOwned == TempSpec => []KernelBuffersOwned
<1>1. TempInv => KernelBuffersOwned
  BY BuffersOwned DEF TempInv
<1> QED BY <1>1, TempInvariant, PTL

(* The application's operations keep themselves alive exactly while their  *)
(* callback is to come, or running, or was refused.                        *)
THEOREM TempOpsAccounted == TempSpec => []OpsAccounted
<1>1. TempInv => OpsAccounted
  BY DEF TempInv, I2cInv
<1> QED BY <1>1, TempInvariant, PTL

(* A fetch that succeeded has read register 1, however transfers fail and  *)
(* ticks overlap.                                                          *)
THEOREM TempFetches == TempSpec => []FetchesTemperature
<1>1. TempInv => FetchesTemperature
  <2> SUFFICES ASSUME TempInv, NEW o \in Ops, role[o] = "fetch", ok[o]
               PROVE  fetched[o] = 1
    BY DEF FetchesTemperature
  <2>1. program = "temperature"
    BY TempAssumption DEF TempInv, TempTypeOK
  <2> QED BY <2>1 DEF TempInv, PointerKept
<1> QED BY <1>1, TempInvariant, PTL

(* The bus is free whenever no transfer is in flight or to follow, unless  *)
(* one failed or was refused since the last STOP.                          *)
THEOREM TempBusReleased == TempSpec => []BusReleased
<1>1. TempInv => BusReleased
  <2> SUFFICES ASSUME TempInv, todo = "none", \A o \in Ops : ~InFlight(o),
                      ~spoiled, bus # "free"
               PROVE  FALSE
    BY DEF BusReleased
  <2>1. program = "temperature" /\ bus = "held"
    BY TempAssumption DEF TempInv, TempTypeOK
  <2>2. PICK o \in Ops : FetchAhead(o)
    BY <2>1 DEF TempInv, HeldForFetch
  <2> QED BY <2>2 DEF FetchAhead, InFlight
<1> QED BY <1>1, TempInvariant, PTL
=============================================================================
