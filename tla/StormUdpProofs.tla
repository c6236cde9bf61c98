---------------------------- MODULE StormUdpProofs ----------------------------
(***************************************************************************)
(* Sockets are safe for every number of UDPSockets, table entries, packets *)
(* and nested functions: UdpInv is inductive and implies the properties    *)
(* that MCUdp_all checks on an instance.                                   *)
(***************************************************************************)
EXTENDS StormUdp, TaskQueueProofs

(* In the initial state no socket is open and nothing is pending.          *)
LEMMA UdpInit == Init => UdpInv
<1> SUFFICES ASSUME Init PROVE UdpInv
  OBVIOUS
<1>1. TypeOK
  BY DEF Init, TqInit, TypeOK, TqTypeOK
<1>2. FiringIsFront
  BY DEF Init, TqInit, FiringIsFront
<1>3. OpenSocketOwnsId
  BY UdpAssumption DEF Init, OpenSocketOwnsId
<1>4. PendingOpen
  BY DEF Init, PendingOpen
<1> QED BY <1>1, <1>2, <1>3, <1>4 DEF UdpInv

(* The payload thread's own steps, and the return of a socket's function,  *)
(* leave the sockets alone.                                                *)
LEMMA UdpLoopStep ==
  ASSUME UdpInv, Loop, UNCHANGED udpVars
  PROVE  UdpInv'
<1>1. TypeOK /\ TqTypeOK /\ FiringIsFront
  BY DEF UdpInv, TypeOK
<1>2. TqTypeOK' /\ FiringIsFront'
  <2>1. CASE \E s \in Socks : handle_returns(s)
    <3>1. frames # <<>> /\ frames' = Pop(frames) /\ UNCHANGED <<dyn_tq, base, firing>>
      BY <2>1 DEF handle_returns
    <3>2. frames' \in Seq(FrameSet)
      BY <1>1, <3>1, PopType DEF TqTypeOK, FrameSet
    <3> QED BY <1>1, <3>1, <3>2 DEF TqTypeOK, FiringIsFront, FrameSet
  <2>2. CASE ~\E s \in Socks : handle_returns(s)
    BY <1>1, <2>2, TqStep DEF Loop
  <2> QED BY <2>1, <2>2
<1>3. TypeOK' /\ OpenSocketOwnsId' /\ PendingOpen'
  BY <1>2 DEF UdpInv, TypeOK, OpenSocketOwnsId, PendingOpen, udpVars
<1> QED BY <1>2, <1>3 DEF UdpInv

(* A constructor that succeeds takes a free entry for a socket that had    *)
(* none; one that fails leaves at most an entry without a callback.        *)
LEMMA OpenStep ==
  ASSUME NEW s \in Socks, NEW keep \in BOOLEAN, UdpInv, open(s, keep)
  PROVE  UdpInv'
<1>0. /\ ~self[s] /\ pending[s] = 0
      /\ UNCHANGED <<dyn_tq, base, firing, frames, pending>>
  BY DEF open, Alive, tqVars, UdpInv, TypeOK, PendingOpen
<1>1. CASE /\ \E i \in Ids : UDPSocket_okay(s, i)
           /\ self' = [self EXCEPT ![s] = TRUE]
           /\ held' = [held EXCEPT ![s] = keep]
           /\ closed' = [closed EXCEPT ![s] = FALSE]
  <2>1. PICK i \in Ids : /\ ksock[i] = NoSock
                         /\ ksock' = [ksock EXCEPT ![i] = s]
                         /\ id' = [id EXCEPT ![s] = i]
    BY <1>1 DEF UDPSocket_okay
  <2>2. TypeOK' /\ FiringIsFront'
    BY <1>0, <1>1, <2>1 DEF UdpInv, TypeOK, TqTypeOK, FiringIsFront
  <2>3. OpenSocketOwnsId'
    BY <1>0, <1>1, <2>1, UdpAssumption DEF UdpInv, TypeOK, OpenSocketOwnsId
  <2>4. PendingOpen'
    BY <1>0, <1>1, <2>1 DEF UdpInv, TypeOK, PendingOpen
  <2> QED BY <2>2, <2>3, <2>4 DEF UdpInv
<1>2. CASE UDPSocket_fails /\ UNCHANGED <<self, held, id, closed>>
  <2>1. \A i \in Ids : ksock'[i] = ksock[i] \/ (ksock[i] = NoSock /\ ksock'[i] = NoRecv)
    BY <1>2 DEF UDPSocket_fails, UdpInv, TypeOK
  <2>2. TypeOK' /\ FiringIsFront'
    BY <1>0, <1>2
    DEF UDPSocket_fails, UdpInv, TypeOK, TqTypeOK, FiringIsFront
  <2>3. OpenSocketOwnsId'
    BY <1>2, <2>1, UdpAssumption DEF UdpInv, OpenSocketOwnsId
  <2>4. PendingOpen'
    BY <1>0, <1>2 DEF UdpInv, PendingOpen
  <2> QED BY <2>2, <2>3, <2>4 DEF UdpInv
<1> QED BY <1>1, <1>2 DEF open

(* close() gives back the entry that is the socket's own, and the packets  *)
(* it withdraws are the socket's own.                                      *)
LEMMA CloseStep ==
  ASSUME NEW s \in Socks, UdpInv, close(s)
  PROVE  UdpInv'
<1>1. /\ self[s] /\ k_udp_close(id[s])
      /\ self' = [self EXCEPT ![s] = FALSE]
      /\ closed' = [closed EXCEPT ![s] = TRUE]
      /\ UNCHANGED <<dyn_tq, base, firing, frames, held, id>>
  BY DEF close, tqVars
<1>2. id[s] \in Ids /\ ksock[id[s]] = s
  BY <1>1 DEF UdpInv, PendingOpen, OpenSocketOwnsId
<1>3. /\ ksock' = [ksock EXCEPT ![id[s]] = NoSock]
      /\ pending' = [pending EXCEPT ![s] = 0]
  BY <1>1, <1>2 DEF k_udp_close
<1>4. TypeOK' /\ FiringIsFront'
  BY <1>1, <1>3 DEF UdpInv, TypeOK, TqTypeOK, FiringIsFront
<1>5. OpenSocketOwnsId'
  BY <1>1, <1>2, <1>3, UdpAssumption DEF UdpInv, TypeOK, OpenSocketOwnsId
<1>6. PendingOpen'
  BY <1>1, <1>3 DEF UdpInv, TypeOK, PendingOpen
<1> QED BY <1>4, <1>5, <1>6 DEF UdpInv

(* Dropping a shared_ptr changes nothing the invariant speaks of.          *)
LEMMA UdpReleaseStep ==
  ASSUME NEW s \in Socks, UdpInv, release(s)
  PROVE  UdpInv'
<1>1. /\ held' = [held EXCEPT ![s] = FALSE]
      /\ UNCHANGED <<dyn_tq, base, firing, frames, self, id, closed, ksock, pending>>
  BY DEF release, tqVars
<1>2. TypeOK' /\ FiringIsFront'
  BY <1>1 DEF UdpInv, TypeOK, TqTypeOK, FiringIsFront
<1>3. OpenSocketOwnsId' /\ PendingOpen'
  BY <1>1 DEF UdpInv, OpenSocketOwnsId, PendingOpen
<1> QED BY <1>2, <1>3 DEF UdpInv

(* The kernel passes a packet on: the socket's function is a new frame.    *)
LEMMA UdpCallbackStep ==
  ASSUME NEW s \in Socks, UdpInv, udp_callback(s)
  PROVE  UdpInv'
<1>1. /\ pending[s] > 0
      /\ pending' = [pending EXCEPT ![s] = @ - 1]
      /\ frames' = Append(Pumped, s)
      /\ UNCHANGED <<dyn_tq, base, firing, self, held, id, closed, ksock>>
  BY DEF udp_callback, UDPSocket_handle
<1>2. frames' \in Seq(FrameSet)
  <2>1. Pumped \in Seq(FrameSet)
    BY PumpedType DEF UdpInv, TypeOK
  <2>2. s \in FrameSet
    BY UdpAssumption DEF FrameSet
  <2> QED BY <1>1, <2>1, <2>2, AppendProperties
<1>3. pending' \in [Socks -> Nat]
  BY <1>1 DEF UdpInv, TypeOK
<1>4. TypeOK' /\ FiringIsFront'
  BY <1>1, <1>2, <1>3 DEF UdpInv, TypeOK, TqTypeOK, FiringIsFront, FrameSet
<1>5. OpenSocketOwnsId' /\ PendingOpen'
  BY <1>1 DEF UdpInv, TypeOK, OpenSocketOwnsId, PendingOpen
<1> QED BY <1>4, <1>5 DEF UdpInv

(* The kernel receives a packet for a socket in its table.                 *)
LEMMA ReceiveStep ==
  ASSUME NEW i \in Ids, UdpInv, k_udp_receive(i)
  PROVE  UdpInv'
<1> DEFINE s == ksock[i]
<1>1. /\ s \in Socks
      /\ pending' = [pending EXCEPT ![s] = @ + 1]
      /\ UNCHANGED <<dyn_tq, base, firing, frames, self, held, id, closed, ksock>>
  BY DEF k_udp_receive, tqVars
<1>2. self[s]
  BY <1>1 DEF UdpInv, OpenSocketOwnsId
<1>3. TypeOK' /\ FiringIsFront'
  BY <1>1 DEF UdpInv, TypeOK, TqTypeOK, FiringIsFront
<1>4. OpenSocketOwnsId' /\ PendingOpen'
  BY <1>1, <1>2 DEF UdpInv, TypeOK, OpenSocketOwnsId, PendingOpen
<1> QED BY <1>3, <1>4 DEF UdpInv

(* UdpInv is inductive: one lemma per operation.                           *)
LEMMA UdpNext == UdpInv /\ [Next]_vars => UdpInv'
<1> SUFFICES ASSUME UdpInv, [Next]_vars PROVE UdpInv'
  OBVIOUS
<1>1. CASE Loop /\ UNCHANGED udpVars
  BY <1>1, UdpLoopStep
<1>2. CASE \E s \in Socks : \E keep \in BOOLEAN : open(s, keep)
  BY <1>2, OpenStep
<1>3. CASE \E s \in Socks : close(s) \/ release(s) \/ udp_callback(s)
  BY <1>3, CloseStep, UdpReleaseStep, UdpCallbackStep
<1>4. CASE \E i \in Ids : k_udp_receive(i)
  BY <1>4, ReceiveStep
<1>5. CASE UNCHANGED vars
  BY <1>5 DEF vars, tqVars, udpVars, UdpInv, TypeOK, TqTypeOK, FiringIsFront,
              OpenSocketOwnsId, PendingOpen
<1> QED BY <1>1, <1>2, <1>3, <1>4, <1>5 DEF Next

(* The kernel's socket table, its pending packets and the sockets' self    *)
(* references and ids agree in every reachable state.                      *)
THEOREM UdpInvariant == Spec => []UdpInv
<1> QED BY UdpInit, UdpNext, PTL DEF Spec

(* The raw UDPSocket* that the constructor gives to the kernel never       *)
(* dangles, although constructors fail half-way and functions close their  *)
(* own sockets.                                                            *)
THEOREM UdpPointersLive == Spec => []KernelPointersLive
<1>1. UdpInv => KernelPointersLive
  BY DEF UdpInv, TypeOK, OpenSocketOwnsId, PendingOpen, KernelPointersLive, Alive
<1> QED BY <1>1, UdpInvariant, PTL

(* An open socket and its table entry belong to each other, so that        *)
(* close() and sendto() never use the entry of another socket.             *)
THEOREM UdpOpenSocketOwnsId == Spec => []OpenSocketOwnsId
<1>1. UdpInv => OpenSocketOwnsId
  BY DEF UdpInv
<1> QED BY <1>1, UdpInvariant, PTL

(* A frame that a step adds is k_wait_callback() or the function of a      *)
(* socket with a packet, which is open.                                    *)
THEOREM UdpClosedSilent == Spec => ClosedSilent
<1> DEFINE Silent == \A s \in Socks :
             closed[s] /\ Len(frames') > Len(frames) => frames'[Len(frames')] # s
<1>1. UdpInv /\ [Next]_vars => [Silent]_vars
  <2> SUFFICES ASSUME UdpInv, Next, NEW s \in Socks, closed[s],
                      Len(frames') > Len(frames)
               PROVE  frames'[Len(frames')] # s
    OBVIOUS
  <2>0. frames \in Seq(FrameSet) /\ Len(frames) \in Nat /\ TqTypeOK
    BY LenProperties DEF UdpInv, TypeOK, TqTypeOK, FrameSet
  <2>1. CASE UNCHANGED frames
    BY <2>0, <2>1
  <2>2. CASE scheduler_wait \/ user_wait
    <3>1. frames' = Append(frames, "wait")
      BY <2>2 DEF scheduler_wait, user_wait
    <3>2. frames'[Len(frames')] = "wait"
      BY <2>0, <3>1, AppendProperties DEF FrameSet
    <3> QED BY <3>2, TaskQueueAssumption, UdpAssumption
  <2>3. CASE frames # <<>> /\ frames' = Pop(frames)
    <3>1. Len(frames') = Len(frames) - 1
      BY <2>0, <2>3, PopFacts
    <3> QED BY <2>0, <3>1
  <2>4. CASE \E u \in Socks : udp_callback(u)
    <3>1. PICK u \in Socks : pending[u] > 0 /\ frames' = Append(Pumped, u)
      BY <2>4 DEF udp_callback, UDPSocket_handle
    <3>2. frames'[Len(frames')] = u
      BY <2>0, <3>1, PumpedType, AppendProperties, UdpAssumption DEF FrameSet
    <3>3. ~closed[u]
      BY <3>1 DEF UdpInv, PendingOpen
    <3> QED BY <3>2, <3>3
  <2> QED
    BY <2>1, <2>2, <2>3, <2>4
    DEF Next, Loop, MainDone, run_one_fire, run_one_pop, wait_returns, UserAdd,
        handle_returns, open, close, release, k_udp_receive, tqVars
<1> QED BY <1>1, UdpInvariant, PTL DEF Spec, ClosedSilent
=============================================================================
