------------------------------ MODULE TempSensor ------------------------------
(***************************************************************************)
(* The application (test/main.cc) on the payload's thread, over I2C        *)
(* (StormI2c) and a Timer (StormTimer, with tself, theld and tid for its   *)
(* self, held and id).  It configures a TMP006 sensor, and then, on every  *)
(* tick, selects the sensor's register 1 and reads it, without looking     *)
(* whether the last tick's pair of transfers has ended.                    *)
(*                                                                         *)
(* A behaviour runs one program: "temperature" is this application, "any"  *)
(* is arbitrary user code over I2C alone (StormI2c!Next).                  *)
(*                                                                         *)
(* External: the sensor's register pointer, which a failed write may have  *)
(* set or not, and the bus, which a transfer without STOP leaves occupied  *)
(* and, at worst, a failed one too.                                        *)
(***************************************************************************)
EXTENDS StormI2c

CONSTANTS
  Timers, Slots, NoTimer, NoSlot, MaxPending,  \* see StormTimer
  Programs,  \* a subset of {"any", "temperature"}
  AnyOps     \* bound: the operations that program "any" uses

ASSUME TempAssumption ==
  /\ AnyOps \subseteq Ops /\ Programs \subseteq {"any", "temperature"}
  /\ Timers \subseteq Fns /\ NoTimer \notin Timers /\ NoSlot \notin Slots
  /\ MaxPending \in Nat \ {0}

VARIABLES
  tself, theld, is_periodic, tid, cancelled, ktimer, pending, \* see StormTimer
  program,  \* the program of this behaviour
  todo,     \* the application's next statement; "none" outside its functions
  role,     \* which of the application's three transfers an operation is
  ok,       \* the status of a finished operation is i2c::OK
  pointer,  \* sensor: the register selected, 0 after a reset
  bus,      \* "held" between a transfer without STOP and the next STOP
  spoiled,  \* history: a transfer failed or was refused since the last STOP
  fetched   \* history: the register an operation has read, 0 before

T == INSTANCE StormTimer WITH self <- tself, held <- theld, id <- tid

timers == <<tself, theld, is_periodic, tid, cancelled, ktimer, pending>>
sensor == <<ok, pointer, bus, fetched>>
appVars == <<program, todo, role, sensor, spoiled>>
allVars == <<vars, timers, appVars>>

TempInit ==
  /\ Init /\ T!Init
  /\ program \in Programs
  /\ todo = IF program = "temperature" THEN "main" ELSE "none"
  /\ role = [o \in Ops |-> "none"]
  /\ ok = [o \in Ops |-> FALSE]
  /\ pointer = 0 /\ bus = "free" /\ spoiled = FALSE
  /\ fetched = [o \in Ops |-> 0]

-----------------------------------------------------------------------------
(* Flags are combined by addition.                                         *)
START == 1
RSTART == 1
STOP == 4
Or(a, b) == a + b

(* Mutant: the read does not end with STOP.                                *)
FlagsOf_open(r) == IF r = "setup" THEN Or(START, STOP) ELSE START

(* The flags of the application's transfers.                               *)
FlagsOf(r) ==
  CASE r = "setup" -> Or(START, STOP)
    [] r = "select" -> START
    [] r = "fetch" -> Or(RSTART, STOP)

Stops(flags) == (flags \div STOP) % 2 = 1

(* The register that the first byte of a write selects.                    *)
RegisterOf(r) == IF r = "setup" THEN 2 ELSE 1

-----------------------------------------------------------------------------
(* The application's statements.  todo' names what follows.                *)
Then(next) == todo' = next /\ UNCHANGED <<program, sensor, timers>>

(* Objects are interchangeable: the application takes the first free name. *)
(* It goes on only while there is one.                                     *)
FreeOp == CHOOSE o \in Ops : ~Alive(o)
FreeBuf == CHOOSE b \in Bufs : b \notin ubufs /\ \A o \in Ops : payload[o] # b
OwnBuf == CHOOSE b \in ubufs : TRUE

make_buf ==
  /\ todo \in {"main", "tick"}
  /\ FreeBuf \in Bufs /\ mkbuf(FreeBuf)
  /\ Then(IF todo = "main" THEN "main_write" ELSE "tick_write")
  /\ UNCHANGED <<role, spoiled>>

(* Operation o becomes the transfer r.                                     *)
Asks(o, r) ==
  /\ o \in Ops
  /\ role' = [role EXCEPT ![o] = r]
  /\ spoiled' = (spoiled \/ refused'[o])

write_config ==
  /\ todo = "main_write"
  /\ write(FreeOp, OwnBuf, FALSE) /\ Asks(FreeOp, "setup") /\ Then("main_end")

write_select ==
  /\ todo = "tick_write"
  /\ write(FreeOp, OwnBuf, FALSE) /\ Asks(FreeOp, "select") /\ Then("return")

(* Mutant: the callback of the write does not look at the status.          *)
read_result_always ==
  /\ todo = "select"
  /\ read(FreeOp, OwnBuf, FALSE) /\ Asks(FreeOp, "fetch") /\ Then("return")

(* The callback of the write goes on with the read, in the same buffer.    *)
read_result ==
  /\ todo = "select" /\ ok[Top]
  /\ read(FreeOp, OwnBuf, FALSE) /\ Asks(FreeOp, "fetch") /\ Then("return")

(* A callback that does not pass its buffer on drops it when it returns.   *)
drop ==
  /\ todo \in {"drop", "fetch"} \/ (todo = "select" /\ ~ok[Top])
  /\ drop_buf(OwnBuf)
  /\ Then("return")
  /\ UNCHANGED <<role, spoiled>>

(* Mutant: the Timer is started only after the status OK.                  *)
start_ticks_ok(t) ==
  /\ todo = "setup"
  /\ IF ok[Top] THEN T!Timer_create(t, TRUE, FALSE) ELSE UNCHANGED <<tqVars, timers>>
  /\ todo' = "drop"
  /\ UNCHANGED <<program, i2cVars, role, sensor, spoiled>>

(* The callback of the configuring write starts the Timer, whatever the    *)
(* status, and does not keep it.                                           *)
start_ticks(t) ==
  /\ todo = "setup"
  /\ T!Timer_create(t, TRUE, FALSE)
  /\ todo' = "drop"
  /\ UNCHANGED <<program, i2cVars, role, sensor, spoiled>>

(* A Timer's function returns, or an operation's callback, after which the *)
(* operation is no more.                                                   *)
function_ends ==
  /\ todo = "return"
  /\ run_one_pop
  /\ Then("none")
  /\ UNCHANGED <<i2cVars, role, spoiled>>

callback_ends(o) ==
  /\ todo = "return"
  /\ invoke_returns(o)
  /\ todo' = "none"
  /\ role' = [role EXCEPT ![o] = "none"]
  /\ ok' = [ok EXCEPT ![o] = FALSE]
  /\ fetched' = [fetched EXCEPT ![o] = 0]
  /\ UNCHANGED <<program, pointer, bus, spoiled, timers>>

main_ends ==
  /\ todo = "main_end"
  /\ MainDone /\ base' = "sched"
  /\ Then("none")
  /\ UNCHANGED <<i2cVars, role, spoiled>>

Statement ==
  \/ make_buf \/ drop
  \/ write_config \/ write_select \/ read_result
  \/ \E t \in Timers : start_ticks(t)
  \/ \E o \in Ops : callback_ends(o)
  \/ function_ends \/ main_ends

-----------------------------------------------------------------------------
(* The scheduler and the kernel under the application.                     *)
tick ==
  /\ program = "temperature" /\ todo = "none"
  /\ run_one_fire
  /\ Then("tick")
  /\ UNCHANGED <<i2cVars, role, spoiled>>

NothingPending ==
  (\A t \in Timers : pending[t] = 0) /\ (\A o \in Ops : kxfer[o] # "done")

Scheduler ==
  /\ program = "temperature" /\ todo = "none"
  /\ scheduler_wait \/ wait_returns(NothingPending)
  /\ UNCHANGED <<i2cVars, appVars, timers>>

(* The kernel runs a callback.                                             *)
op_callback(o) ==
  /\ program = "temperature" /\ todo = "none" /\ KernelRuns
  /\ i2c_callback(o)
  /\ Then(role[o])
  /\ UNCHANGED <<role, spoiled>>

timer_callback(t) ==
  /\ program = "temperature" /\ todo = "none" /\ KernelRuns
  /\ T!tmr_callback(t)
  /\ UNCHANGED <<i2cVars, appVars>>

(* A tick comes due; bound: only while at most one operation exists, so    *)
(* that two pairs of transfers overlap.                                    *)
tick_due(s) ==
  /\ program = "temperature"
  /\ \A o, p \in Ops : Alive(o) /\ Alive(p) => o = p
  /\ T!k_timer_due(s)
  /\ UNCHANGED <<i2cVars, appVars>>

(* A transfer ends, external.                                              *)
transfer_ends(o) ==
  /\ program = "temperature"
  /\ k_i2c_done(o)
  /\ \E good \in BOOLEAN :
       LET stopped == Stops(FlagsOf(role[o])) IN
       /\ ok' = [ok EXCEPT ![o] = good]
       /\ \/ pointer' = IF kxfer[o] = "write" THEN RegisterOf(role[o]) ELSE pointer
          \/ ~good /\ pointer' = pointer
       /\ bus' = IF good /\ stopped THEN "free" ELSE "held"
       /\ spoiled' = IF good /\ stopped THEN FALSE ELSE spoiled \/ ~good
       /\ fetched' = [fetched EXCEPT ![o] =
                          IF good /\ kxfer[o] = "read" THEN pointer ELSE 0]
  /\ UNCHANGED <<program, todo, role, timers>>

Temperature ==
  \/ Statement \/ tick \/ Scheduler
  \/ \E o \in Ops : op_callback(o) \/ transfer_ends(o)
  \/ \E t \in Timers : timer_callback(t)
  \/ \E s \in Slots : tick_due(s)

Any ==
  /\ Next
  /\ \A o \in Ops \ AnyOps : ~self'[o]
  /\ UNCHANGED <<appVars, timers>>

TempNext ==
  \/ program = "any" /\ Any
  \/ Temperature

TempSpec == TempInit /\ [][TempNext]_allVars

(* StormI2c's fairness for both programs; the application's functions run  *)
(* to their end, and its Timer comes due and is called back.               *)
TempFairSpec ==
  /\ TempSpec
  /\ Fairness
  /\ WF_todo(Statement)
  /\ \A t \in Timers : WF_pending(timer_callback(t))
  /\ \A s \in Slots : SF_pending(tick_due(s))

-----------------------------------------------------------------------------
(* Type invariant, of the thread, the operations, the Timer and the        *)
(* application.                                                            *)
TempTypeOK ==
  /\ TypeOK /\ T!TypeOK
  /\ program \in Programs
  /\ todo \in {"none", "main", "main_write", "main_end", "setup", "drop", "tick",
              "tick_write", "select", "fetch", "return"}
  /\ role \in [Ops -> {"none", "setup", "select", "fetch"}]
  /\ ok \in [Ops -> BOOLEAN]
  /\ pointer \in 0..2 /\ bus \in {"free", "held"} /\ spoiled \in BOOLEAN
  /\ fetched \in [Ops -> 0..2]

(* What a successful fetch returns is the temperature: register 1 was      *)
(* still selected, although configuring may have failed, a write that      *)
(* fails may move the pointer, and pairs of transfers overlap.             *)
FetchesTemperature ==
  \A o \in Ops : Running(o) /\ role[o] = "fetch" /\ ok[o] => fetched[o] = 1

(* The application never leaves the bus occupied: with no transfer in      *)
(* flight and none to follow it is free, unless a transfer failed or was   *)
(* refused after the last STOP; the next pair that succeeds frees it.      *)
BusReleased ==
  todo = "none" /\ (\A o \in Ops : ~InFlight(o)) /\ ~spoiled => bus = "free"

(* Where the application's statements run: in main(), in a Timer's         *)
(* function, or in the callback of an operation that k_wait_callback(),    *)
(* called by the scheduler, has run.                                       *)
Places ==
  \/ base = "main" /\ firing = NoFn /\ frames = <<>>
       /\ todo \in {"main", "main_write", "main_end"}
  \/ base = "sched" /\ firing # NoFn /\ frames = <<>>
       /\ todo \in {"tick", "tick_write", "return"}
  \/ base = "sched" /\ firing = NoFn /\ todo = "none"
       /\ frames \in {<<>>, <<"wait">>, <<"ran">>}
  \/ base = "sched" /\ firing = NoFn
       /\ \E o \in Ops : frames = <<"ran", o>>
                         /\ todo \in {role[o], "drop", "return"}

(* What an operation is for and what the kernel does for it.               *)
RolesAgree ==
  \A o \in Ops :
    /\ ~self[o] => role[o] = "none" /\ ~ok[o]
    /\ InFlight(o) \/ Running(o) => role[o] # "none"
    /\ kxfer[o] = "read" => role[o] = "fetch"
    /\ kxfer[o] = "write" => role[o] \in {"setup", "select"}

(* Until the configuring write's callback has run there is no Timer, so no *)
(* tick, so no other transfer.                                             *)
SettingUp ==
  \/ todo \in {"main", "main_write", "setup"}
  \/ \E o \in Ops : role[o] = "setup" /\ InFlight(o)

SetupAlone ==
  SettingUp =>
    /\ dyn_tq = <<>> /\ firing = NoFn
    /\ \A s \in Slots : ktimer[s] = NoTimer
    /\ \A t \in Timers : pending[t] = 0
    /\ \A o \in Ops : role[o] \in {"none", "setup"}
    /\ todo \in {"main", "main_write"} => \A o \in Ops : role[o] = "none"
    /\ \A o, p \in Ops : role[o] = "setup" /\ role[p] = "setup" => o = p

(* From a select that succeeded on, register 1 stays selected.             *)
Selected(o) == role[o] = "fetch" \/ (role[o] = "select" /\ ok[o])

PointerKept ==
  /\ \A o \in Ops : Selected(o) => pointer = 1
  /\ \A o \in Ops : role[o] = "fetch" /\ ok[o] => fetched[o] = 1

(* A bus occupied without a failure has a fetch ahead that will free it.   *)
FetchAhead(o) ==
  \/ role[o] = "select" /\ ok[o] /\ (kxfer[o] = "done" \/ (Running(o) /\ todo = "select"))
  \/ role[o] = "fetch" /\ kxfer[o] = "read"

HeldForFetch == bus = "held" /\ ~spoiled => \E o \in Ops : FetchAhead(o)

(* The inductive invariant of the application and of arbitrary user code.  *)
TempInv ==
  /\ TempTypeOK
  /\ I2cInv
  /\ program = "temperature" =>
       Places /\ RolesAgree /\ SetupAlone /\ PointerKept /\ HeldForFetch
  /\ program = "any" =>
       /\ todo = "none" /\ bus = "free"
       /\ \A o \in Ops : role[o] = "none"

(* The application keeps measuring: the configuring write, once accepted,  *)
(* starts the Timer, and the Timer's function runs again and again, unless *)
(* the kernel refused the Timer.  (A refused transfer is never freed, and  *)
(* ticks end with the memory.)                                             *)
KeepsTicking ==
  \A t \in Timers :
    (tself[t] \/ \E o \in Ops : role[o] = "setup" /\ InFlight(o))
      ~> \/ firing = t
         \/ tself[t] /\ tid[t] = NoSlot
         \/ \E o \in Ops : refused[o]
=============================================================================
