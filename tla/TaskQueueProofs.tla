--------------------------- MODULE TaskQueueProofs ---------------------------
(***************************************************************************)
(* What the steps of the payload thread preserve, for any component that   *)
(* extends TaskQueue.                                                      *)
(***************************************************************************)
EXTENDS TaskQueue, SequenceTheorems, TLAPS

FrameSet == {"wait", "ran"} \cup Handlers

(* Marking the innermost k_wait_callback() keeps the stack well formed.    *)
LEMMA PumpedType == TqTypeOK => Pumped \in Seq(FrameSet)
<1> SUFFICES ASSUME TqTypeOK PROVE Pumped \in Seq(FrameSet)
  OBVIOUS
<1>1. frames \in Seq(FrameSet) /\ "ran" \in FrameSet
  BY DEF TqTypeOK, FrameSet
<1>2. CASE InWait
  <2>1. Len(frames) \in 1..Len(frames)
    BY <1>1, <1>2, EmptySeq, LenProperties DEF InWait
  <2>2. [frames EXCEPT ![Len(frames)] = "ran"] \in Seq(FrameSet)
    BY <1>1, <2>1, ExceptSeq
  <2> QED BY <1>2, <2>2 DEF Pumped
<1>3. CASE ~InWait
  BY <1>1, <1>3 DEF Pumped
<1> QED BY <1>2, <1>3

(* Leaving the innermost frame keeps the stack well formed.                *)
LEMMA PopType ==
  ASSUME NEW S, NEW seq \in Seq(S), seq # <<>>
  PROVE  Pop(seq) \in Seq(S)
<1>1. Len(seq) \in Nat /\ Len(seq) # 0
  BY EmptySeq, LenProperties
<1>2. SubSeq(seq, 1, Len(seq) - 1) \in Seq(S)
  BY <1>1, SubSeqProperties
<1> QED BY <1>2 DEF Pop

(* What leaving the innermost frame leaves.                                *)
LEMMA PopFacts ==
  ASSUME NEW S, NEW seq \in Seq(S), seq # <<>>
  PROVE  /\ Len(seq) \in Nat \ {0}
         /\ Len(Pop(seq)) = Len(seq) - 1
         /\ \A i \in 1..Len(seq) - 1 : Pop(seq)[i] = seq[i]
<1>1. Len(seq) \in Nat \ {0} /\ \A i \in 1..Len(seq) : seq[i] \in S
  BY EmptySeq, LenProperties
<1> DEFINE n == Len(seq) - 1
<1>2. n \in Nat /\ \A i \in 1..n : seq[i] \in S
  BY <1>1
<1> HIDE DEF n
<1>3. /\ Len(SubSeq(seq, 1, n)) = IF 1 <= n THEN n - 1 + 1 ELSE 0
      /\ \A i \in 1..n - 1 + 1 : SubSeq(seq, 1, n)[i] = seq[1 + i - 1]
  BY <1>2, SubSeqProperties
<1>4. Len(SubSeq(seq, 1, n)) = n
  BY <1>2, <1>3
<1>5. \A i \in 1..n : SubSeq(seq, 1, n)[i] = seq[i]
  <2> SUFFICES ASSUME NEW i \in 1..n PROVE SubSeq(seq, 1, n)[i] = seq[i]
    OBVIOUS
  <2>1. n - 1 + 1 = n /\ i \in 1..n - 1 + 1 /\ 1 + i - 1 = i
    BY <1>2
  <2> QED BY <1>3, <2>1
<1> QED BY <1>1, <1>4, <1>5 DEF Pop, n

(* Leaving the innermost of one or two frames.                             *)
LEMMA PopPair ==
  ASSUME NEW a, NEW b
  PROVE  Pop(<<a>>) = <<>> /\ Pop(<<a, b>>) = <<a>>
<1> DEFINE S == {a, b}
<1>1. /\ <<a>> \in Seq(S) /\ <<a>> # <<>> /\ Len(<<a>>) = 1
      /\ <<a, b>> \in Seq(S) /\ <<a, b>> # <<>> /\ Len(<<a, b>>) = 2
      /\ <<a, b>>[1] = a
  OBVIOUS
<1>2. /\ Pop(<<a>>) \in Seq(S) /\ Len(Pop(<<a>>)) = 0
      /\ Pop(<<a, b>>) \in Seq(S) /\ Len(Pop(<<a, b>>)) = 1
      /\ Pop(<<a, b>>)[1] = a
  <2> HIDE DEF S
  <2>1. Pop(<<a>>) \in Seq(S) /\ Pop(<<a, b>>) \in Seq(S)
    BY <1>1, PopType
  <2>2. /\ Len(Pop(<<a>>)) = Len(<<a>>) - 1
        /\ Len(Pop(<<a, b>>)) = Len(<<a, b>>) - 1
        /\ \A i \in 1..Len(<<a, b>>) - 1 : Pop(<<a, b>>)[i] = <<a, b>>[i]
    BY <1>1, PopFacts
  <2>3. 1 - 1 = 0 /\ 2 - 1 = 1 /\ 1 \in 1..1
    OBVIOUS
  <2> QED BY <1>1, <2>1, <2>2, <2>3
<1>3. Pop(<<a>>) = <<>>
  BY <1>2, EmptySeq
<1>4. Pop(<<a, b>>) = <<a>>
  BY <1>1, <1>2, SeqEqual
<1> QED BY <1>3, <1>4

(* Entering a second frame.                                                *)
LEMMA AppendOne ==
  ASSUME NEW a, NEW b
  PROVE  Append(<<a>>, b) = <<a, b>>
<1> DEFINE S == {a, b}
<1>1. /\ <<a>> \in Seq(S) /\ Len(<<a>>) = 1 /\ <<a>>[1] = a /\ b \in S
      /\ <<a, b>> \in Seq(S) /\ Len(<<a, b>>) = 2
      /\ <<a, b>>[1] = a /\ <<a, b>>[2] = b
  OBVIOUS
<1> HIDE DEF S
<1>2. /\ Append(<<a>>, b) \in Seq(S)
      /\ Len(Append(<<a>>, b)) = 2
      /\ Append(<<a>>, b)[1] = a
      /\ Append(<<a>>, b)[2] = b
  BY <1>1, AppendProperties
<1>3. \A i \in 1..2 : Append(<<a>>, b)[i] = <<a, b>>[i]
  BY <1>1, <1>2
<1> QED BY <1>1, <1>2, <1>3, SeqEqual

(* tq::add() puts its argument at the back and moves nothing else.         *)
LEMMA AddProperties ==
  ASSUME NEW f \in Fns, TqTypeOK, tq_add(f)
  PROVE  /\ dyn_tq' \in Seq(Fns)
         /\ Len(dyn_tq') = Len(dyn_tq) + 1
         /\ dyn_tq'[Len(dyn_tq) + 1] = f
         /\ \A i \in 1..Len(dyn_tq) : dyn_tq'[i] = dyn_tq[i]
<1>1. dyn_tq \in Seq(Fns) BY DEF TqTypeOK
<1> QED BY <1>1, AppendProperties DEF tq_add

(* run_one()'s pop removes the front and moves the others up by one.       *)
LEMMA PopProperties ==
  ASSUME TqTypeOK, dyn_tq # <<>>, dyn_tq' = Tail(dyn_tq)
  PROVE  /\ dyn_tq' \in Seq(Fns)
         /\ Len(dyn_tq') = Len(dyn_tq) - 1
         /\ Len(dyn_tq) \in Nat \ {0}
         /\ \A i \in 1..Len(dyn_tq') : dyn_tq'[i] = dyn_tq[i + 1]
<1>1. dyn_tq \in Seq(Fns) BY DEF TqTypeOK
<1>2. Len(dyn_tq) \in Nat \ {0} BY <1>1, EmptySeq, LenProperties
<1> QED BY <1>1, <1>2, HeadTailProperties

(* A callback that posts a Task while the payload thread stays where it is *)
(* leaves the Task being fired at the front.                               *)
LEMMA AddStep ==
  ASSUME NEW f \in Fns, TqTypeOK, FiringIsFront, tq_add(f),
         UNCHANGED <<base, firing>>, frames' \in Seq(FrameSet)
  PROVE  TqTypeOK' /\ FiringIsFront'
<1>1. TqTypeOK'
  BY AddProperties DEF TqTypeOK, FrameSet
<1>2. ASSUME firing # NoFn PROVE dyn_tq' # <<>> /\ Head(dyn_tq') = Head(dyn_tq)
  <2>1. dyn_tq \in Seq(Fns) /\ dyn_tq # <<>>
    BY <1>2 DEF TqTypeOK, FiringIsFront
  <2> QED BY <2>1 DEF tq_add
<1>3. FiringIsFront'
  BY <1>2 DEF FiringIsFront
<1> QED BY <1>1, <1>3

(* The Task at the front owns the function that run_one() executes.        *)
LEMMA FiringQueued ==
  ASSUME TqTypeOK, FiringIsFront, firing # NoFn
  PROVE  Queued(firing)
<1>1. dyn_tq \in Seq(Fns) /\ dyn_tq # <<>> /\ firing = Head(dyn_tq)
  BY DEF TqTypeOK, FiringIsFront
<1>2. 1 \in 1..Len(dyn_tq) /\ dyn_tq[1] = firing
  BY <1>1, EmptySeq, LenProperties
<1> QED BY <1>2 DEF Queued

(* Every step of the scheduler, of main() and of k_wait_callback() itself  *)
(* keeps the thread's state well typed and the fired Task at the front.    *)
LEMMA TqStep ==
  ASSUME NEW b, TqTypeOK, FiringIsFront,
         \/ MainDone \/ run_one_fire \/ run_one_pop
         \/ scheduler_wait \/ user_wait \/ wait_returns(b)
         \/ \E f \in Fns : UserAdd(f)
  PROVE  TqTypeOK' /\ FiringIsFront'
<1>0. TaskQueueAssumption /\ frames \in Seq(FrameSet) /\ dyn_tq \in Seq(Fns)
  BY TaskQueueAssumption DEF TqTypeOK, FrameSet
<1>1. CASE MainDone
  BY <1>0, <1>1 DEF MainDone, TqTypeOK, FiringIsFront
<1>2. CASE run_one_fire
  <2>1. Head(dyn_tq) \in Fns BY <1>0, <1>2 DEF run_one_fire
  <2> QED BY <1>0, <1>2, <2>1 DEF run_one_fire, AtLoopTop, TqTypeOK, FiringIsFront
<1>3. CASE run_one_pop
  <2>1. dyn_tq' \in Seq(Fns)
    BY <1>3, PopProperties DEF run_one_pop, FiringIsFront
  <2> QED BY <1>3, <2>1 DEF run_one_pop, TqTypeOK, FiringIsFront
<1>4. CASE scheduler_wait \/ user_wait
  <2>1. frames' = Append(frames, "wait") /\ UNCHANGED <<dyn_tq, base, firing>>
    BY <1>4 DEF scheduler_wait, user_wait
  <2>2. frames' \in Seq(FrameSet)
    BY <1>0, <2>1, AppendProperties DEF FrameSet
  <2> QED BY <2>1, <2>2 DEF TqTypeOK, FiringIsFront, FrameSet
<1>5. CASE wait_returns(b)
  <2>1. frames' \in Seq(FrameSet)
    BY <1>0, <1>5, PopType DEF wait_returns
  <2> QED BY <1>5, <2>1 DEF wait_returns, TqTypeOK, FiringIsFront, FrameSet
<1>6. CASE \E f \in Fns : UserAdd(f)
  <2>1. PICK f \in Fns : UserAdd(f) BY <1>6
  <2> QED BY <1>0, <2>1, AddStep DEF UserAdd
<1> QED BY <1>1, <1>2, <1>3, <1>4, <1>5, <1>6
=============================================================================
