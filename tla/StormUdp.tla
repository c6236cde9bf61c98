------------------------------- MODULE StormUdp -------------------------------
(***************************************************************************)
(* storm::UDPSocket (test/libstorm.cc, test/libstorm.h) over the kernel's  *)
(* socket table.                                                           *)
(*                                                                         *)
(* A member of Socks stands for a UDPSocket object together with the       *)
(* std::function it owns; the name is used again once the object is gone   *)
(* and its function is not running.  Unlike timers and interrupts, a       *)
(* packet does not go through dyn_tq: the kernel's call of udp_callback()  *)
(* runs the user's function directly, so it is a frame of the call stack.  *)
(*                                                                         *)
(* The kernel side is external: the socket table and the packets received  *)
(* but not yet passed on.  Syscall 0x303 gives the table entry back and    *)
(* withdraws the packets.                                                  *)
(***************************************************************************)
EXTENDS TaskQueue

CONSTANTS
  Socks,      \* UDPSocket objects
  Ids,        \* ids of the kernel's socket table
  NoSock,     \* free table entry
  NoRecv,     \* entry created, but no receive callback was registered
  NoId,       \* Socks that never got an id
  MaxPending  \* bound: packets of one socket not yet passed on

ASSUME UdpAssumption ==
  /\ Handlers = Socks
  /\ NoSock \notin Socks /\ NoRecv \notin Socks /\ NoSock # NoRecv
  /\ NoId \notin Ids
  /\ MaxPending \in Nat \ {0}

VARIABLES
  self,     \* UDPSocket::self is set
  held,     \* user code keeps a shared_ptr to the UDPSocket
  id,       \* UDPSocket::id
  closed,   \* history: close() took effect on this UDPSocket
  ksock,    \* kernel: table entry -> the UDPSocket* it calls back
  pending   \* kernel: packets received and not yet passed on

udpVars == <<self, held, id, closed, ksock, pending>>
vars == <<tqVars, udpVars>>

Alive(s) == self[s] \/ held[s]

Running(s) == \E i \in 1..Len(frames) : frames[i] = s

Init ==
  /\ TqInit
  /\ self = [s \in Socks |-> FALSE]
  /\ held = [s \in Socks |-> FALSE]
  /\ id = [s \in Socks |-> NoId]
  /\ closed = [s \in Socks |-> FALSE]
  /\ ksock = [i \in Ids |-> NoSock]
  /\ pending = [s \in Socks |-> 0]

-----------------------------------------------------------------------------
(* A packet for table entry i is received (external).                      *)
k_udp_receive(i) ==
  LET s == ksock[i] IN
  /\ s \in Socks
  /\ pending[s] < MaxPending
  /\ pending' = [pending EXCEPT ![s] = @ + 1]
  /\ UNCHANGED <<tqVars, self, held, id, closed, ksock>>

(* Syscall 0x303 (external).                                               *)
k_udp_close(i) ==
  /\ ksock' = [ksock EXCEPT ![i] = NoSock]
  /\ pending' = IF ksock[i] \in Socks THEN [pending EXCEPT ![ksock[i]] = 0]
                                      ELSE pending

(* The constructor's three syscalls: create, bind, register for receiving. *)
(* create fails when the table is full; when one of the others fails the   *)
(* constructor returns and leaves the new table entry behind.              *)
UDPSocket_okay(s, i) ==
  /\ ksock[i] = NoSock
  /\ ksock' = [ksock EXCEPT ![i] = s]
  /\ id' = [id EXCEPT ![s] = i]

UDPSocket_fails ==
  \/ (\A i \in Ids : ksock[i] # NoSock) /\ UNCHANGED ksock
  \/ \E i \in Ids : ksock[i] = NoSock /\ ksock' = [ksock EXCEPT ![i] = NoRecv]

(* UDPSocket::open(): the caller keeps the result or not.  After a failed  *)
(* constructor the object is deconstructed and the caller gets nullptr.    *)
open(s, keep) ==
  /\ UserCode
  /\ ~Alive(s) /\ ~Running(s)
  /\ \/ /\ \E i \in Ids : UDPSocket_okay(s, i)
        /\ self' = [self EXCEPT ![s] = TRUE]
        /\ held' = [held EXCEPT ![s] = keep]
        /\ closed' = [closed EXCEPT ![s] = FALSE]
     \/ UDPSocket_fails /\ UNCHANGED <<self, held, id, closed>>
  /\ UNCHANGED <<tqVars, pending>>

(* Mutant: close() does not look at self.                                  *)
close_unguarded(s) ==
  /\ UserCode /\ held[s]
  /\ k_udp_close(id[s])
  /\ self' = [self EXCEPT ![s] = FALSE]
  /\ closed' = [closed EXCEPT ![s] = TRUE]
  /\ UNCHANGED <<tqVars, held, id>>

(* Mutant: close() does not tell the kernel.                               *)
close_local(s) ==
  /\ UserCode /\ held[s]
  /\ self[s]
  /\ self' = [self EXCEPT ![s] = FALSE]
  /\ closed' = [closed EXCEPT ![s] = TRUE]
  /\ UNCHANGED <<tqVars, held, id, ksock, pending>>

(* UDPSocket::close(); when self is not set it does nothing.               *)
close(s) ==
  /\ UserCode /\ held[s]
  /\ self[s]
  /\ k_udp_close(id[s])
  /\ self' = [self EXCEPT ![s] = FALSE]
  /\ closed' = [closed EXCEPT ![s] = TRUE]
  /\ UNCHANGED <<tqVars, held, id>>

(* User code lets go of its shared_ptr.                                    *)
release(s) ==
  /\ UserCode /\ held[s]
  /\ held' = [held EXCEPT ![s] = FALSE]
  /\ UNCHANGED <<tqVars, self, id, closed, ksock, pending>>

(* _handle() calls the user's function with the packet.                    *)
UDPSocket_handle(s) == frames' = Append(Pumped, s)

(* The kernel calls udp_callback().                                        *)
udp_callback(s) ==
  /\ CallbackPoint
  /\ pending[s] > 0
  /\ pending' = [pending EXCEPT ![s] = @ - 1]
  /\ UDPSocket_handle(s)
  /\ UNCHANGED <<dyn_tq, base, firing, self, held, id, closed, ksock>>

(* The user's function returns.                                            *)
handle_returns(s) ==
  /\ frames # <<>> /\ Top = s
  /\ frames' = Pop(frames)
  /\ UNCHANGED <<dyn_tq, base, firing>>

Loop ==
  \/ MainDone
  \/ run_one_fire
  \/ run_one_pop
  \/ scheduler_wait
  \/ user_wait
  \/ wait_returns(\A s \in Socks : pending[s] = 0)
  \/ \E s \in Socks : handle_returns(s)
  \/ \E f \in Fns : UserAdd(f)

Next ==
  \/ Loop /\ UNCHANGED udpVars
  \/ \E s \in Socks :
       \/ \E keep \in BOOLEAN : open(s, keep)
       \/ close(s)
       \/ release(s)
       \/ udp_callback(s)
  \/ \E i \in Ids : k_udp_receive(i)

Spec == Init /\ [][Next]_vars

(* main() ends, user functions return, the scheduler and the kernel keep   *)
(* going.  Strong for the callbacks: the kernel serves its sockets in      *)
(* turn, and while one function runs no other callback is possible.  No    *)
(* packet is ever guaranteed to come.                                      *)
Fairness ==
  /\ SF_vars(MainDone /\ UNCHANGED udpVars)
  /\ WF_vars(run_one_fire /\ UNCHANGED udpVars)
  /\ SF_vars(run_one_pop /\ UNCHANGED udpVars)
  /\ WF_vars(scheduler_wait /\ UNCHANGED udpVars)
  /\ SF_vars(wait_returns(\A s \in Socks : pending[s] = 0)
               /\ UNCHANGED udpVars)
  /\ \A s \in Socks :
       /\ SF_vars(handle_returns(s) /\ UNCHANGED udpVars)
       /\ SF_vars(KernelRuns /\ udp_callback(s))

FairSpec == Spec /\ Fairness

-----------------------------------------------------------------------------
(* Type invariant of the payload thread, the sockets and the kernel.       *)
TypeOK ==
  /\ TqTypeOK
  /\ self \in [Socks -> BOOLEAN]
  /\ held \in [Socks -> BOOLEAN]
  /\ id \in [Socks -> Ids \cup {NoId}]
  /\ closed \in [Socks -> BOOLEAN]
  /\ ksock \in [Ids -> Socks \cup {NoSock, NoRecv}]
  /\ pending \in [Socks -> Nat]

(* The raw UDPSocket* given to syscall 0x305 is never dangling: while the  *)
(* kernel may still call udp_callback(s), s has not been deconstructed.    *)
KernelPointersLive ==
  /\ \A i \in Ids : ksock[i] \in Socks => Alive(ksock[i])
  /\ \A s \in Socks : pending[s] > 0 => Alive(s)

(* A UDPSocket has its circle reference exactly while the kernel has it    *)
(* under its id: close() gives back this socket's entry and no other, and  *)
(* a constructor that failed leaves no entry that points to an object.     *)
OpenSocketOwnsId ==
  \A s \in Socks, i \in Ids : (self[s] /\ id[s] = i) <=> ksock[i] = s

(* A packet is pending only for an open socket; an open socket has an id,  *)
(* and one that was closed is not open again.                              *)
PendingOpen ==
  \A s \in Socks :
    /\ pending[s] > 0 => self[s]
    /\ self[s] => id[s] \in Ids
    /\ closed[s] => ~self[s]

(* The inductive invariant from which the properties of sockets follow.    *)
UdpInv ==
  /\ TypeOK
  /\ FiringIsFront
  /\ OpenSocketOwnsId
  /\ PendingOpen

(* After close() the socket's function is not called again, not even for a *)
(* packet that was received before.                                        *)
ClosedSilent ==
  [][\A s \in Socks :
       closed[s] /\ Len(frames') > Len(frames) => frames'[Len(frames')] # s]_vars

(* open() says of the circle reference "we cannot be deconstructed": the   *)
(* UDPSocket whose function runs, and with it the function, still exists.  *)
RunningSocketAlive == \A s \in Socks : Running(s) => Alive(s)

(* User code posts a Task, or runs a callback itself with                  *)
(* k_run_callback().                                                       *)
UserPumps ==
  /\ UserCode
  /\ (\E f \in Fns : UserAdd(f)) \/ (\E s \in Socks : udp_callback(s))

(* A packet received for an open socket reaches its function, also after   *)
(* main() returned and when functions wait inside one another, unless the  *)
(* socket is closed or user code pumps for ever.                           *)
PacketsHandled ==
  \/ []<><<UserPumps>>_vars
  \/ \A s \in Socks : pending[s] > 0 ~> (Running(s) \/ closed[s])
=============================================================================
