# Formal models of the pharoah payload

The repository is a C++ payload for a small sensor node ("storm" firmware). A
kernel, which is not part of the repository, runs the payload as its only user
process; the payload asks for services with `svc` system calls and the kernel
calls registered functions back. The TLA+ modules here model the payload's own
run-time library (`test/libstorm.cc`, `test/libstorm.h`) with the parts of the
kernel it relies on, the temperature application that runs on it
(`test/main.cc`), the ring buffers it shares with a debugger host with the
output functions on top of them (`rtt/SEGGER_RTT.c`, `rtt/SEGGER_RTT_printf.c`),
and the library of futures tried out on a PC (`pctest/libstorm.h`); TLC checks
them, and TLAPS proves every safety property of the passing runs for every
instance: timers, interrupts, sockets, I2C operations, the application, the ring
buffer, printf and terminals, and futures.

## 1. Inventory

| Component | Source | State | Operations | Correct when |
|---|---|---|---|---|
| task queue, scheduler | `test/libstorm.cc:33-63`, `test/interface.c:113-198` | `dyn_tq`, the call stack | `tq::add`, `run_one`, `scheduler`, end of `main` | the Task being fired stays at the front and owned; everything queued runs |
| timers | `test/libstorm.cc:143-194` | `Timer::self`, `id`, `is_periodic`; kernel timer table | `once`, `periodic`, `cancel`, `fire`, `tmr_callback` | the kernel's raw `Timer*` never dangles; one-shots run once; a stale `id` cancels nothing |
| GPIO interrupts | `test/libstorm.cc:107-141` | `irq_ptrs[20]`; kernel interrupt switches | `enable_irq`, `disable_irq`, `irq_callback` | array and kernel agree; late interrupts run nothing; indices stay in the array |
| UDP sockets | `test/libstorm.cc:226-290` | `UDPSocket::self`, `id`; kernel socket table | `open`, `close`, `sendto`, `udp_callback` | the raw `UDPSocket*` never dangles; ids and objects agree; a closed socket is silent |
| I2C operations | `test/libstorm.h:179-246` | `self`, `payload`; kernel transfers | `mkbuf`, `read`, `write`, `invoke` | a buffer lent to the kernel has one owner; the operation outlives its callback |
| temperature application | `test/main.cc` | one timer, a chain of operations | configure, tick, select, fetch | a fetch reads the selected register although ticks overlap; the bus is released; ticks go on |
| boot, libc stubs | `test/interface.c`, `test/kernelpayload.ld` | heap end | `_start2`, `_sbrk`, `_write` | the heap stays below the stack |
| RTT rings, terminals | `rtt/SEGGER_RTT.c` | `WrOff`, `RdOff`, `Flags`, `_ActiveTerminal` | `Read`, `Write`, `Config*`, `SetTerminal`, `TerminalOut` | the host reads what was written, in order, nothing twice |
| RTT printf | `rtt/SEGGER_RTT_printf.c` | print descriptor | `vprintf` | output is a prefix of the formatted text; none of it is taken for a terminal's name |
| futures | `pctest/libstorm.h` | `nxt`, `nxtForward`, `errored` | `bound`, `unbound`, `then`, `except`, `run`, accept, reject | an error reaches the nearest handler; a value is not passed on past a reject; a chain gets on |
| pin access, time, reset, kernel ABI | `test/libstorm.cc`, `test/interface.c` | none | one syscall each | - |
| newlib | `newlib-2.2.0.20150623/` | - | - | vendored |

**How they interact.** There is one thread. `main()` registers callbacks and
then calls `tq::scheduler()`, which runs every queued Task and only then blocks
in `k_wait_callback()`. The kernel never interrupts payload code; it calls back
inside `k_wait_callback()` or `k_run_callback()`, and by itself after `main()`
returned. Timer and GPIO callbacks only post a Task to `dyn_tq`; UDP and I2C
callbacks run the user's function at once, on top of whatever was waiting. User
functions may call any operation, including a nested `k_wait_callback()`.

**What is hard.** Objects keep themselves alive by a "circle reference" `self`
while the kernel has a raw pointer to them, so every path that clears `self`
races with callbacks that the kernel has issued but not delivered; callbacks
run inside other callbacks and may destroy what is running; kernel ids are used
again; system calls fail half-way and their results are often ignored. The
hazard list in `PROJECT.json` gives each of these at its line.

## 2. Modules

| Module | Models |
|---|---|
| `TaskQueue` | the payload thread: `dyn_tq`, `run_one`, `scheduler`, the end of `main()`, and the points where the kernel may call back; extended by the component modules below |
| `StormTimer` | `storm::Timer` and the kernel's timer table |
| `StormGpio` | `irq_ptrs` and the kernel's interrupts |
| `StormUdp` | `storm::UDPSocket` and the kernel's socket table |
| `StormI2c` | `storm::i2c` operations, buffers and the kernel's transfers |
| `TempSensor` | `test/main.cc`: composes `StormI2c`, `StormTimer` and the thread with an external sensor and bus |
| `RttRing` | one RTT ring buffer with its writer and its reader |
| `RttPrintf` | `SEGGER_RTT_vprintf`: parser, number conversions, buffer, failing writes |
| `RttTerminal` | `SetTerminal`, `TerminalOut`, `WriteString` and the host that follows them |
| `RttOutput` | both together: printf calls and terminal switches on one up-buffer, as the host sees them |
| `Futures` | `storm::future` chains: `then`, `except`, `run`, accept and reject functions, nested runs |
| `ByteChannel` | what a ring promises: a bounded FIFO channel; implemented by `RttRing` |
| `MCTimer`, `MCGpio`, `MCUdp`, `MCTempSensor`, `MCRing`, `MCOutput`, `MCTerminal`, `MCFutures` | instances for TLC |
| `TaskQueueProofs` | what the thread's steps preserve, for any component |
| `StormTimerProofs`, `StormGpioProofs`, `StormUdpProofs` | the theorems about the library's components |
| `TempSensorProofs` | the theorems about I2C and, on top of them, about the application |
| `RttRingProofs` | the theorems about the ring, with the refinement of `ByteChannel` |
| `RttOutputProofs` | the theorems about printf, number conversions and terminals |
| `FuturesProofs` | the theorems about futures: links, the nearest handler, no value passed on past a reject |

**State.** `base`, `firing` and `frames` are the call stack: at the bottom
`main()`, `scheduler()` or, after `main()` returned, only the kernel; then the
function `run_one()` is executing; above it nested `k_wait_callback()` calls
("wait" before it ran a callback, "ran" after) and user functions that the
kernel called directly. `dyn_tq` holds for each Task the function object it
shares. An object is a pair of Booleans: `self` (its circle reference) and
`held` (user code has a `shared_ptr`); it is destroyed when both are false, and
then its name stands for a new object. History variables (`cancelled`, `closed`,
`refused`, `bare`) record what happened to an object or pin and guard nothing.

**Actions.** Each function of the library is one action (`Timer_create`,
`Timer_cancel`, `tmr_callback`, `enable_irq`, `open`, `close`, `invoke`, ...),
guarded by "user code has control" or "the kernel may call back"; a user
function that the kernel calls directly is a call action and a return action
(`udp_callback`/`handle_returns`, `invoke`/`invoke_returns`), with anything user
code may do in between. `run_one()` is split at the call of the user's function
in the same way. User code is arbitrary: any operation, in any order, whenever
user code has control. Packet contents, tick counts, pin edges and bus addresses
are left out: no control decision of the library depends on them. I2C flags and
status codes do not matter to the library either; the application looks at them,
so `TempSensor` adds them.

**The application.** `TempSensor` puts one program on the thread instead of
arbitrary user code: `todo` is the statement of `main()` or of a callback that
comes next, and each statement is the library's action (`mkbuf`, `write`,
`read`, `T!Timer_create`, ...) with what the application does around it. The
thread is the one of `StormI2c`; `StormTimer` is an instance with its own
variables on the same `dyn_tq` and call stack, so Timer Tasks and I2C callbacks
really share the scheduler. A behaviour runs `"temperature"`, this program, or
`"any"`, arbitrary user code over I2C as in the other components: one run
covers both. The sensor and the bus are external, and taken at their worst: a
failed write may or may not have moved the register pointer, and a failed
transfer leaves the bus occupied whatever its flags. Flags are added, as
`operator|` in `test/libstorm.h:196` does, and the bus looks at the bit.

**Futures.** Everything in `pctest/libstorm.h` is synchronous: accepting calls the
successor's body, rejecting walks along `nxtForward` to a handler. `frames` is
that call stack; a body may keep its accept and reject functions and use one
after it returned, user code may extend a chain or run it again from inside a
body. `Catcher` is what the code's forwarding functions compute, followed link
by link; `ChainFrom` and the history sets `excepted` and `shadowed` give the
reference it is compared with. An empty `nxtForward` that is called ends the
program (`crashed`).

**The ring.** `RttRing` is about two processors: target and host share the
offsets without a lock, so each look at an offset of the other side and each
store of one's own is a step: `Write` (entry and mode decision), `write_size`,
`write_copy`, `write_advance`, `write_wrap`; `Read`, `read_copy`, `read_commit`.
The host's program is not in the repository; it is taken to do what the target's
code does on the other side. Bytes are numbered, so that a byte lost, repeated,
torn or out of order shows. The two MEMCPYs of `Read()` are one step, as late as
possible: a byte overwritten at any time since the offsets were looked at is
noticed.

**Output over the ring.** `RttPrintf` and `RttTerminal` see the ring through what
`SEGGER_RTT_Write()` may return (all in BLOCK, all or nothing in SKIP, any part in
TRIM - what `RttRing`'s `ModeContract` checks). A printf conversion is a *job* of
three pieces, head, digits and tail, which are stored one character per step,
because a failed flush ends the conversion in the first and the last but goes on
with the tail in the digits. `RefNumber` is the reference: digits by position,
then sign and padding as the notes at `rtt/SEGGER_RTT_printf.c:422-435` say; it
shares nothing with the counting loops of the code. Unsigned arithmetic wraps at
`Word`. In `RttTerminal` a call is one action, since the host reads the stream in
order at its own time; each write inside it succeeds or fails by itself.
`RttOutput` composes the two: every piece a printf call stores goes into the
stream of the host, which may just have got half of a pair and then takes the
next character for a terminal's name. `seen` is what a user sees of the call.

**External kernel.** What the kernel does is taken from how the library uses it
and the comments in `test/interface.h`:

* it calls back only from `k_wait_callback()`, `k_run_callback()` or after
  `main()` returned, never in the middle of payload code;
* `k_wait_callback()` runs everything pending, and waits when nothing is;
* 0x201 may refuse a Timer at any time, and does when its table is full; a
  one-shot's entry is given back when its callback is delivered;
* 0x205 and 0x303 withdraw the callbacks still pending in the kernel - the
  library's use of raw pointers is safe only if they do, and the comment at
  `test/libstorm.cc:185-190` says it relies on it;
* 0x108 does not withdraw interrupts already noticed (the weaker assumption:
  `irq_callback()` has to cope);
* 0x106 may refuse and then leaves the pin as it was; `enable_irq()` does not notice;
* 0x301, 0x302, 0x305, 0x501 and 0x502 may fail.

## 3. Runs

| Run | Expect | Shows |
|---|---|---|
| `timer_all` | pass | pointers live, running function owned, one-shot once, entries released by their owner, nothing posted after cancel, accepted Timers run, also when others are refused; the inductive invariant, which includes the types |
| `timer_cancel` | violation | a Task queued before `cancel()` runs after it (comment: it is purged) |
| `timer_main_exit` | violation | after `main()` returned timers are posted but never run (comment: they would be) |
| `gpio_all` | pass | the inductive invariant with the types; running callback owned, registration agrees with the kernel (but for registrations that were refused or passed nullptr), late interrupts dropped, no null Task, noticed interrupts served |
| `gpio_bounds` | violation | index 20 writes behind `irq_ptrs [20]` |
| `udp_all` | pass | the inductive invariant with the types; pointers live, ids and objects agree, closed sockets silent, packets handled, also after `main()` returned |
| `udp_handler` | violation | a handler that closes its socket and drops the last reference is destroyed while it runs |
| `temp_all` | pass | the inductive invariant with the types; arbitrary user code and the application: lent buffers have one owner; an operation exists exactly while its callback is due or running, or for ever if it was refused; accepted operations complete; a successful fetch read the temperature register although pairs of transfers overlap and fail; the bus is released; the application keeps ticking |
| `ring_all` | pass | the inductive invariant with the types; the ring implements `ByteChannel` (refinement, `Content` as the channel); `Write()` reports exactly what it stored; SKIP is all or nothing, BLOCK is all; SKIP and TRIM never wait; with a reader that keeps reading, `Write()` returns and every stored byte is read |
| `output_all` | pass | types and the state of the buffer; the text of a printf is the reference's, in order, through any flushes; at most the last partial buffer is lost silently; where writes are stored whole or not at all (SKIP, BLOCK) the host follows `SetTerminal()`, texts and printf pieces go to their terminal, and a user sees a beginning of a printf's text, no piece twice and no character taken for a terminal's name |
| `terminal_back` | violation | `TerminalOut()` across the two ranges of ids leaves the host on a third terminal |
| `futures_all` | pass | types, chains stay well linked, and every reject is noted; an error reaches the nearest handler still bound, so a handler on the last future makes every reject safe; the value a body returns is not passed on when its future has rejected meanwhile (bodies of mode `ACC_REJ` return none, and may call accept and reject both); chains get on and end |

**Bounds.** Two objects and two (or one) kernel entries are enough for an id to
pass from one object to another, for the table to be full, and for one
callback to act on the other object. `MaxQueued` stops new events (never the
posting of an issued callback, so the queue may exceed it) and leaves room for
a function queued twice behind another. `MaxDepth` is how deep user code may
wait or poll again: 1 or 2 gives callbacks inside a wait inside a callback.
`MaxPending` of 2 lets a periodic timer or a socket be pending twice; a pin has
one interrupt pending at a time, which is enough for it to be passed on after the
pin was disabled, replaced or refused. A ring of three bytes wraps after every second or third call, is full with
two bytes, and cannot take a call of four; five bytes in all take both offsets
around it. The printf formats are every set of the flags `-`, `0` and `+`, and `#`
(which has no effect), with widths 0, 2, 4 and precisions none, 3 for each number conversion; the numbers are those
at which a digit or the sign is added and the most negative one, at 16 bits,
since TLC's integers do not hold 2^32. The buffer of three characters is
flushed in the middle of most conversions. Terminal ids lie on both sides of 10
and 16; once a terminal was selected only `LaterFormats` are printed, two formats
with one and with several pieces, since the numbers do not depend on terminals.
In the application a tick comes due only while at most one operation exists;
with three operations and two buffers that makes two pairs of transfers overlap
in every way, and the application takes the first free name (`FreeOp`, `FreeBuf`),
as objects are interchangeable; it asks for a buffer or an operation only while a
name is free, which bounds the heap. Three futures are a first one, a middle one and
a last one; two runs may be nested or follow each other (`MaxRuns`), each body
calls its functions once itself and once later (`MaxCalls`), three bodies
deep (`MaxDepth`, which stops only user code: a forwarded error or an accepted
value always arrives). Deadlock is not checked in the kernel
components, the ring and the futures: a payload whose `main()`
returned with nothing registered, or that waits for an event that never comes,
really stops, and a chain that was run has nothing left to do.

**Fairness.** The scheduler's own steps are weakly fair: nothing competes with
them. The end of `main()`, the return of a user function and the return of
`k_wait_callback()` are strongly fair: a user function that waits or polls now
and then still returns in the end (one that loops for ever is not the library's
fault). While it has control, the kernel delivers what it issued; strong for UDP
and I2C, where one callback's function excludes every other callback while it
runs and the kernel's queue serves its entries in turn. User code never has to
call `k_run_callback()`. Kernel timers come due (strong, because the bound
`MaxQueued` alone disables them now and then) and transfers end; no interrupt and
no packet is ever assumed to come. In the ring, a writer inside `Write()` keeps
running and the host keeps reading; `NeverWaits` assumes nothing of the host.
The application adds to this that its functions run to their end (they contain
no loop and no wait), that its Timer comes due (strong, for the bound) and that the
kernel delivers it. Of futures only that bodies and handlers return; user code
is never assumed to accept or to reject.

The liveness properties name what really defeats them, as exceptions: user code
that posts Tasks or polls with `k_run_callback()` for ever (`UserPumps`; the
scheduler looks at the kernel only when `dyn_tq` is empty, so such code starves
the rest); user code that blocks for a callback that never comes
(`UserBlocked`; not needed for packets, which are handled inside the wait); a pin
switched on without a callback, whose interrupts may keep the kernel busy inside
`k_wait_callback()` for ever (`BareIrq`); and,
for what goes through `dyn_tq`, a `main()` that returned - the subject of
`timer_main_exit`.

**Mutants.** Operators marked "Mutant" next to the definition they change are
plausible bugs (a dropped guard, a missing reset, a swapped order). They are not
used by any specification; each checked property fails when one of them replaces
its original.

## 4. Proofs

Everything in this section holds for every value of the constants: any number of
objects, table entries, functions, buffers, any size of ring, and any bounds. The
assumptions are the ones named in the modules (`TaskQueueAssumption`,
`TimerAssumption`, `I2cAssumption`, `TempAssumption`, `RingAssumption`, ...): what a
component queues are functions, null values are none of the real ones, bounds are
numbers, the ring has at least one byte. `PrintfAssumption` is the longest: a format
ends with NUL, the parser does not run past that (`Reads`; a format may be read past
its end when it stops inside a specification, or with a length modifier), a field
width and the power of the base that a precision asks for fit into an unsigned, and
an unsigned has as many values as a pointer of %p has (`Word = 16^PtrDigits`, in the
code 2^32 and 8). Where these do not hold, C leaves the outcome open or numbers wrap
around. The count in `ReturnValue` is not bounded. `OutputAssumption` says that a
terminal's id is in 0..127 and that no text contains the byte 0xFF.

Each component has one inductive invariant, a conjunction of named parts with the
type invariant among them. TLC checks it in the component's run (but for two parts
that only the proofs state, `Ranked` of futures and `Reading` of printf); the module of
proofs shows that it holds initially and that each action preserves it, one lemma
per action, and derives the properties from it.

| Module | Invariant | Theorems |
|---|---|---|
| `StormTimerProofs` | `TimerInv` | `TimerInvariant`, `TimerTypes`, `TimerPointersLive`, `TimerRunningFnOwned`, `TimerOneShotOnce`; action properties `TimerEntryReleasedByOwner`, `TimerCancelledNotQueued` |
| `StormGpioProofs` | `GpioInv` | `GpioInvariant`, `GpioRunningFnOwned`, `GpioRegistrationAgrees`; action property `GpioLateIrqDropped` |
| `StormUdpProofs` | `UdpInv` | `UdpInvariant`, `UdpPointersLive`, `UdpOpenSocketOwnsId`; action property `UdpClosedSilent` |
| `TempSensorProofs` | `I2cInv` | `I2cInvariant`, `I2cBuffersOwned`, `I2cOpsAccounted` |
| | `TempInv` | `TempInvariant`, `TempTypes`, `TempBuffersOwned`, `TempOpsAccounted`, `TempFetches`, `TempBusReleased` |
| `RttRingProofs` | `RingInv` | `RingInvariant`, `RingReportedIsStored`, `RingModeContract`, `RingNeverWaits`; refinement `RingImplementsChannel` |
| `RttOutputProofs` | `AllInv`: `OutputInv`, the other properties, and where the parser stands | `OutputSafe`, `PrintfNothingLost`, `PrintfLossIsTail`, `TerminalFollows`, `TerminalTextRouted`, `PrintfIsSeen` |
| `FuturesProofs` | `FuturesInv` with `Ranked` | `FuturesSafe`, `FuturesNearestCatches`, `FuturesRejectNoted`; action property `FuturesRejectedNotAccepted` |

**The thread.** `TaskQueueProofs` proves once what every component uses:
the thread's steps keep `dyn_tq` and the call stack well typed (`TqStep`,
`AddStep`) and keep `FiringIsFront`, the ownership of the running function: only
`run_one()` removes from the queue, after the function returned, and posting does
not change the front. `FiringQueued` turns that into "a running function is
queued, hence owned".

**Timers.** "The kernel's pointer is live" is not inductive: `cancel()` clears
`self` and gives back entry `id`, which is only right if that entry is this
Timer's. `TableAgrees` says exactly that - entry `s` points to `t` if and only if
`t` has `self` and `id = s` - and `PendingRegistered` ties the callbacks in
flight to it: only a registered Timer has any, a one-shot at most one, and a
cancelled Timer is not registered. With these a one-shot's delivery finds `self`
set, hence (by `OneShotOnce`) no Task of it queued, and clears both sides in one
step. The result is worth having because the code's comment argues from a purge
of the task queue that the code does not do: the raw pointer is safe without it,
since a Task shares the function and not the Timer.

**GPIO.** `RegistrationAgrees` is inductive with the types, which say among other
things that no null function is in `dyn_tq`. It has two exceptions, which the history
sets name: a callback whose registration was refused (`refused`; the code does not
look at the result of 0x106), and an interrupt switched on with nullptr (`bare`), which
`disable_irq()` does not switch off again. That a late interrupt runs nothing
follows because the callback looks into `irq_ptrs` when it is delivered.

**UDP.** As for timers the table of the kernel and the objects have to agree
(`OpenSocketOwnsId`), and what is pending belongs to an open socket; a datagram is
delivered only from there, so never to one that was closed.

**I2C.** Buffers have one owner because an operation is in one stage at a time
(`OneStage`: in the kernel, due, running or refused, and its callback on the stack
at most once) and no two owners name the same buffer (`OneOwner`). The proof covers
arbitrary user code, including callbacks that wait and start further transfers.

**The application.** `TempSensor` takes `I2cInv` over from `StormI2c` and adds where
the program may be (`Places`), which operation plays which part (`RolesAgree`), and
that during the setup nothing else is going on (`SetupAlone`: the configuration
write is alone on the bus, because the Timer is created only in its callback).
`PointerKept` and `HeldForFetch` then give `FetchesTemperature`: once a select
has succeeded, register 1 stays selected whatever later pairs of transfers do,
since no write of another register is left; and the bus is occupied only for a
fetch that is still to come, or after a failure.

**The ring.** Offsets are compared by `Dist`, the number of bytes from one to the
other around the ring, with its cases (`DistCases`) and how it changes when an
offset moves (`DistAdvance`, `DistWrap`, `DistConsume`). `WriterInv` says that the
piece the writer has measured still fits before the reader when it is copied and
shown - the reader only makes room - that its counters add up, and that WrOff is
Size only on the way to 0, with the reader elsewhere. `ReaderInv` says that the
reader's copy of WrOff may be old but marks a part of what the ring holds, that
what was copied is the front of it, and, for the case that decides whether
RdOff = Size or RdOff = 0 can be confused, that a reader about to turn the end of
the ring has a writer that has already turned it (`wr < rd => WrOff < RdOff`).
`BytesKept` states that taken and held bytes are the reported ones and those of
the call under way. With these, `write_advance` is the channel's Put,
`read_commit` with something copied its Get, and every other step of either side
leaves `Content` alone: that is the refinement (`StepRing`). What it says goes beyond
the runs' three bytes: no size of ring, and no length of call longer than the ring,
changes the picture.

**Recursion.** What a host makes of a stream, the loops of a number conversion and
the way along a chain of futures are recursive functions, and the library's
induction theorems cannot be used (they take a predicate as a parameter). Two things
take their place. Induction is over a *set* of numbers: a set that holds 0 and with
every number the next one is `Nat` (`Induct`), which follows from the well-foundedness
of the numbers (`NatMin`); the predicate becomes the set of the numbers it holds for.
And a function defined by recursion is known to be what its definition says only once
a function of that kind exists: `RecursionExists` builds one from its finite
beginnings, and `CatcherExists`, `ChainExists` do it along a chain.

**Numbers.** `NumberRight` is the statement that the code's number conversions are
right: for every number, base 10 or 16, flags, field width and precision the job
of `PrintInt` and `PrintUnsigned` is the text of `RefNumber` (`RefPointer` for %p),
which defines each digit by its position. The way there follows the code's loops.
Dividing k times by the base is dividing by its k-th power (`DividedRight`, from
`DivDiv`), so the loop that counts the width stops after the number of digits
(`WidthRight`). `Digit *= Base` is modelled with its wrap-around; it never wraps,
since the power it stops at is not above the number or is one the precision asks for
(`RaisedRight`, `RoundsRight`). Dividing that power down gives the smaller powers to 1
(`PowersDown`), what is left of the number is its remainder by the last power
(`RestRight`), and the quotient is the digit at that position (`DigitsRight`). For
signed numbers `PrintInt` first spends the field width itself, with `FieldWidth--`
going one too far, and passes the rest on: `IntRight` shows that the second loop
then never pads again. `-v` of the most negative number, which wraps to itself, has
the right digits as an unsigned.

**The buffer of a printf.** `PrintInv` adds to the properties that the parser is at
one of the places `Reads` allows (`Reading`) and that a blocking call has stored its
whole text (`BlockedAll`). While nothing failed, stored, buffered and coming
characters are the text (`NothingLost`), and the buffer is not full between two
characters; a failed flush sets the result to -1, empties the first two pieces of the
job and leaves the buffer full, so that the tail, if there is one, only tries the same
characters again (`StoreRoom`, `StoreFull`). In the modes that store all or nothing,
stored and buffered characters stay a beginning of the text through that. `finish`
writes what is left, less than a full buffer: that bounds the loss.

**Terminals.** The host's reading of a call's bytes is cut where the writes were cut
(`OutRead`): a pair moves the host, a text leaves it where it is, and a piece
that was not stored changes nothing. In SKIP and BLOCK mode a pair is stored whole or
not at all, so the host never waits for a name (`~host.esc`) when text comes. No
character of a printf is 0xFF (`CodeByte`), hence the pieces of a call go to the
terminal it began on (`StreamsKept`).

**Futures.** A reject while a body of its future is under way is noted in `errored`,
unless the mode is `ACC_REJ`, whose bodies return nothing. For the rest chains must
have no cycle, which no single variable says: `Ranked` is the existence of numbers that
get smaller along every link, and each `then()` that links a new future keeps it. Along
these numbers `Catcher` and `ChainFrom` exist and agree: the forwarding functions of
the code find the first future of the chain whose handler is still bound.

**Only model-checked.** The liveness properties (`TimersRun`, `InterruptsServed`,
`PacketsHandled`, `OpsComplete`, `KeepsTicking`, `StoredIsRead`, `ChainGetsOn`):
fairness and ENABLED are out of the prover's reach. Every other property of the passing
runs is the subject of a theorem.

## 5. Not modelled

* `sendto()`, pin access, `sys::now`/`reset` and the kernel ABI wrappers keep no state: each
  hands its arguments to one system call (that an open socket sends under an id of
  its own is `OpenSocketOwnsId`). `gpio::get`, `get_shadow` and
  `set_pull` are declared and not defined.
* Boot (`_start2` up to the call of `main()`) is straight-line copying of memory.
  `_sbrk()` moves one pointer and compares it with nothing; whether the heap
  meets the stack depends on newlib's allocator and on the application, and the
  repository makes no claim to check.
* Contents of packets and buffers. The application prints `payload[2]` of a buffer
  of two bytes (`test/main.cc:32`): what lies there is unspecified and decides
  nothing.
* RTT channels above 0: the payload does not configure them, and configuring one
  resets both offsets under the host's eyes; how a host takes that is not visible
  in the repository. `WriteString`, `GetKey`, `WaitKey` and `HasKey` only call
  `Write()` and `Read()` or compare the offsets.
* Two things the printf model contains but no run asks about: the result counts
  the characters of the last partial buffer twice (`finish`), against "Number of
  bytes which have been stored" at `rtt/SEGGER_RTT_printf.c:265`; and a length
  modifier, which the notes at line 424 do not list, makes the parser pass over the
  character behind the specifier (`Conversion`).
* Futures: types and values, a second `then()` on the same future (it would replace
  the successor), and the form of `then()` with two functions, which is not compiled; without values `bound()` and `unbound()` are the same. Two
  consequences of the code show in the properties' exceptions:
  `then()` called on a future after `except()` takes its handler out
  (`shadowed`), and since `errored` is never reset a future that rejected once
  passes no value on in later runs.
* newlib (`newlib-2.2.0.20150623/`) is a vendored C library with its build
  configuration. It makes up nearly all of the repository's lines, so the share of
  lines with a model is tiny by count; of the payload's own code (`test/`, `rtt/`,
  `pctest/`) everything that keeps state and decides something is modelled, but
  for the points above.

## 6. Plan

Done: thread, timers, GPIO, UDP, I2C, ring, printf, terminals, the composition of
output, the application, futures; the inductive invariants and safety theorems of
all of them, and the ring's refinement. Left:

1. An abstract specification of "an object registered with the kernel", shown to be
   implemented by timers and sockets.
2. RTT channels above 0, should the payload come to use them.
