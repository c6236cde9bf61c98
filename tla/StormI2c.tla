------------------------------- MODULE StormI2c -------------------------------
(***************************************************************************)
(* storm::i2c (test/libstorm.h): asynchronous bus reads and writes.        *)
(*                                                                         *)
(* A member of Ops stands for an I2CWOperation or I2CROperation object.    *)
(* The buffer of an operation is a unique_ptr that moves from user code    *)
(* into the operation, is lent to the kernel as a raw pointer, and moves   *)
(* on into the user's callback.  The kernel calls the callback directly,   *)
(* so a running one is a frame of the call stack.                          *)
(*                                                                         *)
(* The kernel side is external: the transfers it accepted and the ones it  *)
(* finished.  It may refuse one (syscalls 0x501 and 0x502 return an        *)
(* error); read() and write() do not look at the result.                   *)
(***************************************************************************)
EXTENDS TaskQueue

CONSTANTS
  Ops,    \* operation objects
  Bufs,   \* buffers made by mkbuf()
  NoBuf   \* empty unique_ptr

ASSUME I2cAssumption == Handlers = Ops /\ NoBuf \notin Bufs

VARIABLES
  self,      \* the operation's circle reference is set
  held,      \* user code keeps the shared_ptr that read()/write() returned
  payload,   \* the buffer the operation owns
  ubufs,     \* the buffers user code owns
  refused,   \* history: the kernel refused this operation
  kxfer      \* kernel: nothing, a transfer in progress, or one finished

i2cVars == <<self, held, payload, ubufs, refused, kxfer>>
vars == <<tqVars, i2cVars>>

Alive(o) == self[o] \/ held[o]

Running(o) == \E i \in 1..Len(frames) : frames[i] = o

InFlight(o) == kxfer[o] # "none"

Init ==
  /\ TqInit
  /\ self = [o \in Ops |-> FALSE]
  /\ held = [o \in Ops |-> FALSE]
  /\ payload = [o \in Ops |-> NoBuf]
  /\ ubufs = {}
  /\ refused = [o \in Ops |-> FALSE]
  /\ kxfer = [o \in Ops |-> "none"]

-----------------------------------------------------------------------------
(* The bus finishes a transfer, with or without an error (external).       *)
k_i2c_done(o) ==
  /\ kxfer[o] \in {"read", "write"}
  /\ kxfer' = [kxfer EXCEPT ![o] = "done"]
  /\ UNCHANGED <<tqVars, self, held, payload, ubufs, refused>>

mkbuf(b) ==
  /\ UserCode
  /\ b \notin ubufs /\ \A o \in Ops : Alive(o) => payload[o] # b
  /\ ubufs' = ubufs \cup {b}
  /\ UNCHANGED <<tqVars, self, held, payload, refused, kxfer>>

(* A buffer of the user's goes out of scope.                               *)
drop_buf(b) ==
  /\ UserCode
  /\ b \in ubufs
  /\ ubufs' = ubufs \ {b}
  /\ UNCHANGED <<tqVars, self, held, payload, refused, kxfer>>

(* Mutant: the caller's buffer is copied, not moved, into the operation.   *)
transact_shared(o, b, kind, keep) ==
  /\ UserCode
  /\ ~Alive(o) /\ ~Running(o)
  /\ b \in ubufs
  /\ payload' = [payload EXCEPT ![o] = b]
  /\ self' = [self EXCEPT ![o] = TRUE]
  /\ held' = [held EXCEPT ![o] = keep]
  /\ \E accepted \in BOOLEAN :
       /\ refused' = [refused EXCEPT ![o] = ~accepted]
       /\ kxfer' = IF accepted THEN [kxfer EXCEPT ![o] = kind] ELSE kxfer
  /\ UNCHANGED <<tqVars, ubufs>>

(* write() and read(): move the buffer into a new operation, set its       *)
(* circle reference, hand it to the kernel.  The caller keeps the result   *)
(* or not.                                                                 *)
transact(o, b, kind, keep) ==
  /\ UserCode
  /\ ~Alive(o) /\ ~Running(o)
  /\ b \in ubufs
  /\ ubufs' = ubufs \ {b}
  /\ payload' = [payload EXCEPT ![o] = b]
  /\ self' = [self EXCEPT ![o] = TRUE]
  /\ held' = [held EXCEPT ![o] = keep]
  /\ \E accepted \in BOOLEAN :
       /\ refused' = [refused EXCEPT ![o] = ~accepted]
       /\ kxfer' = IF accepted THEN [kxfer EXCEPT ![o] = kind] ELSE kxfer
  /\ UNCHANGED tqVars

write(o, b, keep) == transact(o, b, "write", keep)

read(o, b, keep) == transact(o, b, "read", keep)

(* User code lets go of its shared_ptr to an operation.                    *)
release(o) ==
  /\ UserCode /\ held[o]
  /\ held' = [held EXCEPT ![o] = FALSE]
  /\ UNCHANGED <<tqVars, self, payload, ubufs, refused, kxfer>>

(* Mutant: invoke() resets self before it calls the user's callback.       *)
invoke_reset_first(o) ==
  /\ ubufs' = ubufs \cup {payload[o]}
  /\ payload' = [payload EXCEPT ![o] = NoBuf]
  /\ frames' = Append(Pumped, o)
  /\ self' = [self EXCEPT ![o] = FALSE]

(* Mutant: invoke() returns at once when the status is an error.           *)
invoke_only_ok(o) ==
  /\ frames' = Pumped
  /\ UNCHANGED <<self, payload, ubufs>>

(* invoke() moves the buffer into the user's callback and calls it.        *)
invoke(o) ==
  /\ ubufs' = ubufs \cup {payload[o]}
  /\ payload' = [payload EXCEPT ![o] = NoBuf]
  /\ frames' = Append(Pumped, o)
  /\ UNCHANGED self

(* The kernel calls i2c_wcallback() or i2c_rcallback().                    *)
i2c_callback(o) ==
  /\ CallbackPoint
  /\ kxfer[o] = "done"
  /\ kxfer' = [kxfer EXCEPT ![o] = "none"]
  /\ invoke(o)
  /\ UNCHANGED <<dyn_tq, base, firing, held, refused>>

(* The user's callback returns and invoke() resets self.                   *)
invoke_returns(o) ==
  /\ frames # <<>> /\ Top = o
  /\ frames' = Pop(frames)
  /\ self' = [self EXCEPT ![o] = FALSE]
  /\ UNCHANGED <<dyn_tq, base, firing, held, payload, ubufs, refused, kxfer>>

Loop ==
  \/ MainDone
  \/ run_one_fire
  \/ run_one_pop
  \/ scheduler_wait
  \/ user_wait
  \/ wait_returns(\A o \in Ops : kxfer[o] # "done")
  \/ \E f \in Fns : UserAdd(f)

Next ==
  \/ Loop /\ UNCHANGED i2cVars
  \/ \E b \in Bufs :
       \/ mkbuf(b)
       \/ drop_buf(b)
       \/ \E o \in Ops, keep \in BOOLEAN : write(o, b, keep) \/ read(o, b, keep)
  \/ \E o \in Ops :
       release(o) \/ i2c_callback(o) \/ k_i2c_done(o) \/ invoke_returns(o)

Spec == Init /\ [][Next]_vars

(* main() ends, user functions return, the scheduler and the kernel keep   *)
(* going, transfers end.  Strong for the callbacks: the kernel serves      *)
(* finished transfers in turn.                                             *)
Fairness ==
  /\ SF_vars(MainDone /\ UNCHANGED i2cVars)
  /\ WF_vars(run_one_fire /\ UNCHANGED i2cVars)
  /\ SF_vars(run_one_pop /\ UNCHANGED i2cVars)
  /\ WF_vars(scheduler_wait /\ UNCHANGED i2cVars)
  /\ SF_vars(wait_returns(\A o \in Ops : kxfer[o] # "done")
               /\ UNCHANGED i2cVars)
  /\ \A o \in Ops :
       /\ SF_vars(invoke_returns(o))
       /\ SF_vars(KernelRuns /\ i2c_callback(o))
       /\ WF_vars(k_i2c_done(o))

FairSpec == Spec /\ Fairness

-----------------------------------------------------------------------------
(* Type invariant of the payload thread, the operations and the kernel.    *)
TypeOK ==
  /\ TqTypeOK
  /\ self \in [Ops -> BOOLEAN]
  /\ held \in [Ops -> BOOLEAN]
  /\ payload \in [Ops -> Bufs \cup {NoBuf}]
  /\ ubufs \subseteq Bufs
  /\ refused \in [Ops -> BOOLEAN]
  /\ kxfer \in [Ops -> {"none", "read", "write", "done"}]

(* The raw pointers lent to the kernel stay valid and unshared: while a    *)
(* transfer is in flight its operation exists, owns the buffer, and no     *)
(* other operation in existence and no user code owns it too.              *)
KernelBuffersOwned ==
  \A o \in Ops : InFlight(o) =>
    /\ self[o]
    /\ payload[o] \in Bufs \ ubufs
    /\ \A p \in Ops \ {o} : Alive(p) => payload[p] # payload[o]

(* An operation keeps itself alive exactly while its callback is still to  *)
(* come or running - invoke() resets self last, whatever the callback lets *)
(* go of - and for ever if the kernel refused it, since read() and write() *)
(* ignore that result.                                                     *)
OpsAccounted ==
  \A o \in Ops : self[o] <=> InFlight(o) \/ Running(o) \/ refused[o]

(* In flight, in its callback and refused exclude each other, and the      *)
(* callback of an operation is on the call stack once.                     *)
OneStage ==
  /\ \A o \in Ops : refused[o] => ~InFlight(o) /\ ~Running(o)
  /\ \A o \in Ops : Running(o) => ~InFlight(o)
  /\ \A i, j \in 1..Len(frames) : frames[i] \in Ops /\ frames[i] = frames[j] => i = j

(* A buffer has one owner: an operation in existence or user code.         *)
OneOwner ==
  \A o \in Ops : Alive(o) /\ payload[o] \in Bufs =>
    /\ payload[o] \notin ubufs
    /\ \A p \in Ops \ {o} : Alive(p) => payload[p] # payload[o]

(* The inductive invariant from which KernelBuffersOwned follows.          *)
I2cInv ==
  /\ TypeOK
  /\ FiringIsFront
  /\ OpsAccounted
  /\ OneStage
  /\ OneOwner
  /\ \A o \in Ops : InFlight(o) => payload[o] \in Bufs

(* User code posts a Task, or runs a callback itself with                  *)
(* k_run_callback().                                                       *)
UserPumps ==
  /\ UserCode
  /\ (\E f \in Fns : UserAdd(f)) \/ (\E o \in Ops : i2c_callback(o))

(* Every accepted operation ends with its callback having run and its      *)
(* circle reference gone, unless user code pumps for ever or waits for a   *)
(* callback that never comes.                                              *)
OpsComplete ==
  \/ []<><<UserPumps>>_vars
  \/ <>[]UserBlocked
  \/ \A o \in Ops : InFlight(o) ~> ~self[o]
=============================================================================
