---------------------------- MODULE FuturesProofs ----------------------------
(***************************************************************************)
(* pctest/libstorm.h, for every number of futures, runs and nested bodies: *)
(* the value a body returns is not passed on when its future has rejected  *)
(* meanwhile, and an error reaches the nearest handler along the chain.    *)
(*                                                                         *)
(* Inv, the first part, is what RejectedNotAccepted needs.  The second     *)
(* part is about the shape of chains: Catcher is defined recursively along *)
(* the chain, which exists and yields the nearest handler because chains   *)
(* have no cycle.                                                          *)
(***************************************************************************)
EXTENDS Futures, SequenceTheorems, WellFoundedInduction, TLAPS

FrameOf(S) == [fut : S, what : {"body", "except"}, calls : Nat, rejected : BOOLEAN]

(* A call stack in which every body that has rejected is noted, by er or   *)
(* by its mode in md.                                                      *)
Good(stack, er, md) ==
  /\ \E S : stack \in Seq(FrameOf(S))
  /\ \A i \in 1..Len(stack) :
       stack[i].what = "body" /\ stack[i].rejected =>
         /\ stack[i].fut \in Futs
         /\ er[stack[i].fut] \/ md[stack[i].fut] = "ACC_REJ"

Inv ==
  /\ mode \in [Futs -> BodyModes \cup {"FIRST", "none"}]
  /\ errored \in [Futs -> BOOLEAN]
  /\ Good(frames, errored, mode)

-----------------------------------------------------------------------------
(* What happens to a call stack.                                           *)

(* A frame keeps its form when more futures are about.                     *)
LEMMA MoreFutures ==
  ASSUME NEW S, NEW R, NEW stack \in Seq(FrameOf(S)), S \subseteq R
  PROVE  stack \in Seq(FrameOf(R))
<1>1. FrameOf(S) \subseteq FrameOf(R)
  BY DEF FrameOf
<1>2. Len(stack) \in Nat /\ stack \in [1..Len(stack) -> FrameOf(S)]
  BY LenProperties
<1>3. stack \in [1..Len(stack) -> FrameOf(R)]
  BY <1>1, <1>2
<1> QED BY <1>2, <1>3, SeqDef

(* A new call has not rejected.                                            *)
LEMMA GoodCall ==
  ASSUME NEW stack, NEW er, NEW md, Good(stack, er, md),
         NEW f, NEW what \in {"body", "except"}
  PROVE  Good(Call(stack, f, what), er, md)
<1> DEFINE e == [fut |-> f, what |-> what, calls |-> 0, rejected |-> FALSE]
           new == Append(stack, e)
<1>1. PICK S : stack \in Seq(FrameOf(S))
  BY DEF Good
<1>2. stack \in Seq(FrameOf(S \cup {f}))
  BY <1>1, MoreFutures
<1>3. e \in FrameOf(S \cup {f}) /\ ~e.rejected
  BY DEF FrameOf
<1> HIDE DEF e
<1>4. /\ new \in Seq(FrameOf(S \cup {f})) /\ Len(new) = Len(stack) + 1
      /\ Len(stack) \in Nat
      /\ \A i \in 1..Len(stack) : new[i] = stack[i]
      /\ new[Len(stack) + 1] = e
  BY <1>2, <1>3, AppendProperties
<1> HIDE DEF new
<1>5. ASSUME NEW i \in 1..Len(new), new[i].what = "body", new[i].rejected
      PROVE  /\ new[i].fut \in Futs
             /\ er[new[i].fut] \/ md[new[i].fut] = "ACC_REJ"
  <2>1. i \in 1..Len(stack)
    BY <1>3, <1>4, <1>5
  <2> QED BY <1>4, <1>5, <2>1 DEF Good
<1>6. Good(new, er, md)
  BY <1>4, <1>5 DEF Good
<1> QED BY <1>6 DEF new, e, Call

(* Accepting calls the successor, if there is one.                         *)
LEMMA GoodAccepts ==
  ASSUME NEW stack, NEW er, NEW md, Good(stack, er, md), NEW f
  PROVE  Good(Accepts(stack, f), er, md)
<1>1. Good(Call(stack, nxt[f], "body"), er, md)
  BY GoodCall
<1> QED BY <1>1 DEF Accepts

(* Notes are never taken back.                                             *)
LEMMA GoodGrows ==
  ASSUME NEW stack, NEW er, NEW md, Good(stack, er, md), NEW er2, NEW md2,
         \A f \in Futs : er[f] => er2[f],
         \A f \in Futs : md[f] = "ACC_REJ" => md2[f] = "ACC_REJ"
  PROVE  Good(stack, er2, md2)
BY DEF Good

(* The stack without its innermost frame.                                  *)
LEMMA GoodUnder ==
  ASSUME NEW er, NEW md, Good(frames, er, md), frames # <<>>
  PROVE  Good(Under, er, md) /\ Len(Under) < Len(frames) /\ Len(frames) \in Nat \ {0}
<1>1. PICK S : frames \in Seq(FrameOf(S))
  BY DEF Good
<1> DEFINE n == Len(frames) - 1
<1>2. Len(frames) \in Nat \ {0} /\ n \in Nat /\ n < Len(frames)
  BY <1>1, EmptySeq, LenProperties
<1>3. \A i \in 1..n : frames[i] \in FrameOf(S)
  BY <1>1, <1>2, ElementOfSeq
<1> HIDE DEF n
<1>4. /\ SubSeq(frames, 1, n) \in Seq(FrameOf(S)) /\ Len(SubSeq(frames, 1, n)) = n
      /\ \A i \in 1..n : SubSeq(frames, 1, n)[i] = frames[i]
  BY <1>2, <1>3, SubSeqProperties
<1>5. Under = SubSeq(frames, 1, n)
  BY DEF Under, n
<1>6. \A i \in 1..n : i \in 1..Len(frames)
  BY <1>2
<1> QED BY <1>2, <1>4, <1>5, <1>6 DEF Good

(* A call of reject is noted in the frames of the future's bodies, and in  *)
(* the future too unless its bodies have no result to pass on.             *)
LEMMA GoodNoted ==
  ASSUME NEW er, Good(frames, er, mode), NEW f \in Futs, NEW isReject \in BOOLEAN,
         isReject => er[f] \/ mode[f] = "ACC_REJ"
  PROVE  Good(Noted(f, isReject), er, mode)
<1>1. PICK S : frames \in Seq(FrameOf(S))
  BY DEF Good
<1> DEFINE n == Len(frames)
           new == Noted(f, isReject)
<1>2. n \in Nat /\ \A i \in 1..n : frames[i] \in FrameOf(S)
  BY <1>1, LenProperties, ElementOfSeq
<1>3. ASSUME NEW i \in 1..n
      PROVE  /\ new[i] \in FrameOf(S)
             /\ new[i].fut = frames[i].fut /\ new[i].what = frames[i].what
             /\ new[i].rejected =>
                  frames[i].rejected \/ (isReject /\ frames[i].fut = f)
  <2> DEFINE c == IF i = n /\ OwnCall(f) THEN frames[i].calls + 1
                                         ELSE frames[i].calls
             r == frames[i].rejected \/
                    (isReject /\ frames[i].fut = f /\ frames[i].what = "body")
  <2>1. new[i] = [frames[i] EXCEPT !.calls = c, !.rejected = r]
    BY <1>2 DEF Noted, FrameOf
  <2>2. frames[i] \in FrameOf(S) /\ c \in Nat
    BY <1>2 DEF FrameOf
  <2>3. r \in BOOLEAN /\ (r => frames[i].rejected \/ (isReject /\ frames[i].fut = f))
    OBVIOUS
  <2> HIDE DEF c, r, new
  <2>4. /\ new[i] \in FrameOf(S)
        /\ new[i].fut = frames[i].fut /\ new[i].what = frames[i].what
        /\ new[i].rejected = r
    BY <2>1, <2>2, <2>3 DEF FrameOf
  <2> QED BY <2>3, <2>4
<1>4. new \in [1..n -> FrameOf(S)]
  BY <1>2, <1>3 DEF Noted
<1> HIDE DEF new
<1>5. new \in Seq(FrameOf(S)) /\ Len(new) = n
  BY <1>2, <1>4, SeqDef, LenProperties
<1>6. ASSUME NEW i \in 1..n, new[i].what = "body", new[i].rejected
      PROVE  /\ new[i].fut \in Futs
             /\ er[new[i].fut] \/ mode[new[i].fut] = "ACC_REJ"
  <2>1. CASE frames[i].rejected
    BY <1>3, <1>6, <2>1 DEF Good
  <2>2. CASE isReject /\ frames[i].fut = f
    BY <1>3, <2>2
  <2> QED BY <1>3, <1>6, <2>1, <2>2
<1>7. Good(new, er, mode)
  BY <1>5, <1>6 DEF Good
<1> QED BY <1>7 DEF new

-----------------------------------------------------------------------------
(* The invariant, and what follows from it.                                *)

(* Initially nothing is under way.                                         *)
LEMMA InitFutures == Init => Inv
<1> SUFFICES ASSUME Init PROVE Inv
  OBVIOUS
<1>1. frames = <<>> /\ frames \in Seq(FrameOf({}))
  BY DEF Init
<1>2. Good(frames, errored, mode)
  BY <1>1 DEF Good
<1> QED BY <1>2 DEF Init, Inv, BodyModes

(* Every step notes the rejects it lets happen.                            *)
LEMMA StepFutures ==
  ASSUME Inv, [Next]_vars
  PROVE  Inv'
<1>1. /\ mode \in [Futs -> BodyModes \cup {"FIRST", "none"}]
      /\ errored \in [Futs -> BOOLEAN] /\ Good(frames, errored, mode)
  BY DEF Inv
<1>2. ASSUME NEW f \in Futs, create(f) PROVE Inv'
  <2>1. /\ mode' = [mode EXCEPT ![f] = "FIRST"] /\ mode[f] = "none"
        /\ UNCHANGED <<errored, frames>>
    BY <1>2 DEF create, Made
  <2>2. Good(frames, errored, mode')
    BY <1>1, <2>1, GoodGrows
  <2> QED BY <1>1, <2>1, <2>2 DEF Inv
<1>3. ASSUME NEW f \in Futs, NEW g \in Futs, NEW m \in Modes, then(f, g, m) PROVE Inv'
  <2>1. /\ mode' = [mode EXCEPT ![g] = m] /\ mode[g] = "none"
        /\ m \in BodyModes /\ UNCHANGED <<errored, frames>>
    BY <1>3, FuturesAssumption DEF then, Made
  <2>2. Good(frames, errored, mode')
    BY <1>1, <2>1, GoodGrows
  <2> QED BY <1>1, <2>1, <2>2 DEF Inv
<1>4. ASSUME NEW f \in Futs, except(f) PROVE Inv'
  BY <1>1, <1>4 DEF except, Inv
<1>5. ASSUME NEW f \in Futs, run(f) PROVE Inv'
  <2>1. UNCHANGED <<mode, errored>> /\ frames' = Accepts(frames, f)
    BY <1>5 DEF run, links
  <2> QED BY <1>1, <2>1, GoodAccepts DEF Inv
<1>6. ASSUME NEW f \in Futs, acceptfun(f) PROVE Inv'
  <2>1. UNCHANGED <<mode, errored>> /\ frames' = Accepts(Noted(f, FALSE), f)
    BY <1>6 DEF acceptfun, links
  <2>2. Good(Noted(f, FALSE), errored, mode)
    BY <1>1, GoodNoted
  <2> QED BY <1>1, <2>1, <2>2, GoodAccepts DEF Inv
<1>7. ASSUME NEW f \in Futs, rejectfun(f) PROVE Inv'
  <2>1. /\ UNCHANGED mode
        /\ errored' = [errored EXCEPT ![f] = @ \/ mode[f] # "ACC_REJ"]
        /\ \/ frames' = Noted(f, TRUE)
           \/ frames' = Call(Noted(f, TRUE), Catcher[f], "except")
    BY <1>7 DEF rejectfun, links
  <2>2. /\ errored' \in [Futs -> BOOLEAN]
        /\ errored'[f] \/ mode[f] = "ACC_REJ"
        /\ \A h \in Futs : errored[h] => errored'[h]
    BY <1>1, <2>1
  <2>3. Good(frames, errored', mode)
    BY <1>1, <2>2, GoodGrows
  <2>4. Good(Noted(f, TRUE), errored', mode)
    BY <2>2, <2>3, GoodNoted
  <2>5. Good(Call(Noted(f, TRUE), Catcher[f], "except"), errored', mode)
    BY <2>4, GoodCall
  <2> QED BY <1>1, <2>1, <2>2, <2>4, <2>5 DEF Inv
<1>8. ASSUME NEW f \in Futs, save(f) PROVE Inv'
  <2>1. UNCHANGED <<mode, errored>> /\ frames' = Noted(f, FALSE)
    BY <1>8 DEF save, links
  <2>2. Good(Noted(f, FALSE), errored, mode)
    BY <1>1, GoodNoted
  <2> QED BY <1>1, <2>1, <2>2 DEF Inv
<1>9. CASE body_returns
  <2>1. /\ UNCHANGED <<mode, errored>> /\ frames # <<>>
        /\ frames' = Under \/ frames' = Accepts(Under, Top.fut)
    BY <1>9 DEF body_returns, links
  <2>2. Good(Under, errored, mode)
    BY <1>1, <2>1, GoodUnder
  <2>3. Good(Accepts(Under, Top.fut), errored, mode)
    BY <2>2, GoodAccepts
  <2> QED BY <1>1, <2>1, <2>2, <2>3 DEF Inv
<1>10. CASE UNCHANGED vars
  BY <1>1, <1>10 DEF vars, links, Inv
<1> QED BY <1>2, <1>3, <1>4, <1>5, <1>6, <1>7, <1>8, <1>9, <1>10 DEF Next

(* Every body under way that has rejected is noted.                        *)
THEOREM FuturesRejectNoted == Spec => []RejectNoted
<1>1. Init => Inv
  BY InitFutures
<1>2. Inv /\ [Next]_vars => Inv'
  BY StepFutures
<1>3. Inv => RejectNoted
  BY DEF Inv, Good, RejectNoted
<1> QED BY <1>1, <1>2, <1>3, PTL DEF Spec

(* handle_bodyret() does not start the successor with a value whose future *)
(* rejected while the body was under way, however runs of the same chain   *)
(* are nested and whoever makes the call.                                  *)
THEOREM FuturesRejectedNotAccepted == Spec => RejectedNotAccepted
<1>1. Init => Inv
  BY InitFutures
<1>2. Inv /\ [Next]_vars => Inv'
  BY StepFutures
<1>3. Inv /\ [Next]_vars =>
        [body_returns /\ Top.what = "body" /\ Top.rejected => frames' = Under]_vars
  <2> SUFFICES ASSUME Inv, body_returns, Top.what = "body", Top.rejected
               PROVE  frames' = Under
    OBVIOUS
  <2>1. frames # <<>> /\ Good(frames, errored, mode)
    BY DEF body_returns, Inv
  <2>2. Len(frames) \in Nat \ {0}
    BY <2>1, GoodUnder
  <2>3. errored[Top.fut] \/ mode[Top.fut] = "ACC_REJ"
    BY <2>1, <2>2 DEF Good, Top
  <2> QED BY <2>3 DEF body_returns
<1> QED BY <1>1, <1>2, <1>3, PTL DEF Spec, RejectedNotAccepted

-----------------------------------------------------------------------------
(* Chains have no cycle: a bounded number can be given to each future that *)
(* gets smaller towards the end of its chain.  What Catcher and ChainFrom, *)
(* which follow a chain, are defined by can then be proved to exist, by    *)
(* taking a smallest counterexample.                                       *)
Ranks(r) == \A f \in Futs : nxt[f] # NoFut => r[nxt[f]] < r[f]

Ranked == \E n \in Nat : \E r \in [Futs -> 0..n] : Ranks(r)

(* A non-empty set of numbers has a smallest one.                          *)
LEMMA NatMin ==
  ASSUME NEW T \in SUBSET Nat, T # {}
  PROVE  \E x \in T : \A y \in T : x <= y
<1> DEFINE R == OpToRel(<, Nat)
<1>1. PICK x \in T : \A y \in T : ~(<<y, x>> \in R)
  <2> HIDE DEF R
  <2>1. IsWellFoundedOn(R, Nat)
    BY NatLessThanWellFounded DEF R
  <2> QED BY <2>1, WFMin
<1>2. ASSUME NEW y \in T PROVE x <= y
  <2>1. <<y, x>> \notin R
    BY <1>1
  <2>2. ~(y < x)
    BY <2>1 DEF R, OpToRel
  <2> QED BY <2>2
<1> QED BY <1>2

(* The parts of the invariant that say how futures are linked.             *)
Chained ==
  /\ nxt \in [Futs -> Futs \cup {NoFut}]
  /\ nxtForward \in [Futs -> {"none", "next", "except"}]
  /\ \A f \in Futs : nxtForward[f] = "next" => nxt[f] # NoFut
  /\ Linked

Below(r, k) == {f \in Futs : r[f] < k}

(* c catches for the futures of D.                                         *)
CatchesOn(D, c) ==
  \A f \in D : c[f] = IF nxtForward[f] = "next" THEN c[nxt[f]]
                      ELSE IF nxtForward[f] = "except" THEN f ELSE NoFut

(* The catchers of all futures exist.                                      *)
LEMMA CatcherExists ==
  ASSUME Chained, Ranked
  PROVE  \E c \in [Futs -> Futs \cup {NoFut}] : CatchesOn(Futs, c)
<1>0. PICK n \in Nat : \E r \in [Futs -> 0..n] : Ranks(r)
  BY DEF Ranked
<1>1. PICK r \in [Futs -> 0..n] : Ranks(r)
  BY <1>0
<1>a. \A f \in Futs : r[f] \in Nat /\ r[f] <= n
  OBVIOUS
<1> DEFINE Has(k) == \E c \in [Below(r, k) -> Futs \cup {NoFut}] :
                       CatchesOn(Below(r, k), c)
           T == {k \in Nat : ~Has(k)}
<1>2. T = {}
  <2> SUFFICES ASSUME T # {} PROVE FALSE
    OBVIOUS
  <2>1. PICK k \in T : \A j \in T : k <= j
    BY NatMin
  <2>2. CASE k = 0
    <3> DEFINE c == [f \in Below(r, 0) |-> NoFut]
    <3>0. \A f \in Futs : ~(r[f] < 0)
      <4>1. \A x \in Nat : ~(x < 0)
        OBVIOUS
      <4> QED BY <1>a, <4>1, Zenon
    <3>1. Below(r, 0) = {}
      BY <3>0, Zenon DEF Below
    <3>2. c \in [Below(r, 0) -> Futs \cup {NoFut}] /\ CatchesOn(Below(r, 0), c)
      BY <3>1 DEF CatchesOn
    <3> QED BY <2>1, <2>2, <3>2
  <2>3. CASE k # 0
    <3>1. k \in Nat /\ k - 1 \in Nat /\ k - 1 \notin T
      BY <2>1, <2>3
    <3>2. PICK c \in [Below(r, k - 1) -> Futs \cup {NoFut}] :
            CatchesOn(Below(r, k - 1), c)
      BY <3>1
    <3> DEFINE d == [f \in Below(r, k) |->
                       IF nxtForward[f] = "next" THEN c[nxt[f]]
                       ELSE IF nxtForward[f] = "except" THEN f ELSE NoFut]
    <3>3. ASSUME NEW f \in Below(r, k), nxtForward[f] = "next"
          PROVE  nxt[f] \in Below(r, k - 1)
      <4>1. f \in Futs /\ r[f] < k /\ nxt[f] \in Futs
        BY <3>3 DEF Below, Chained
      <4>2. r[nxt[f]] < r[f]
        BY <1>1, <3>3, <4>1 DEF Chained, Ranks
      <4>3. r[nxt[f]] < k - 1
        BY <1>a, <3>1, <4>1, <4>2
      <4> QED BY <4>1, <4>3 DEF Below
    <3>4. d \in [Below(r, k) -> Futs \cup {NoFut}]
      BY <3>2, <3>3 DEF Below
    <3>5. Below(r, k - 1) \subseteq Below(r, k)
      <4>1. \A f \in Futs : r[f] < k - 1 => r[f] < k
        BY <1>a, <3>1
      <4> QED BY <4>1, Zenon DEF Below
    <3>6. \A f \in Below(r, k - 1) : d[f] = c[f]
      BY <3>2, <3>5 DEF CatchesOn
    <3>7. ASSUME NEW f \in Below(r, k)
          PROVE  d[f] = IF nxtForward[f] = "next" THEN d[nxt[f]]
                        ELSE IF nxtForward[f] = "except" THEN f ELSE NoFut
      BY <3>3, <3>6
    <3>8. CatchesOn(Below(r, k), d)
      BY <3>7 DEF CatchesOn
    <3> QED BY <2>1, <3>4, <3>8
  <2> QED BY <2>2, <2>3
<1>3. Below(r, n + 1) = Futs
  BY <1>a DEF Below
<1>4. Has(n + 1)
  BY <1>2
<1> QED BY <1>3, <1>4

(* Catcher is what it is defined by.                                       *)
LEMMA CatcherIs ==
  ASSUME Chained, Ranked
  PROVE  CatchesOn(Futs, Catcher)
<1> DEFINE Def(c) == [f \in Futs |->
                        IF nxtForward[f] = "next" THEN c[nxt[f]]
                        ELSE IF nxtForward[f] = "except" THEN f ELSE NoFut]
<1>1. PICK c \in [Futs -> Futs \cup {NoFut}] : CatchesOn(Futs, c)
  BY CatcherExists
<1>2. c = Def(c)
  BY <1>1 DEF CatchesOn
<1>3. \E d : d = Def(d)
  BY <1>2
<1>4. Catcher = Def(Catcher)
  BY <1>3, Zenon DEF Catcher
<1> QED BY <1>4, Zenon DEF CatchesOn

(* c gives the chains that start with the futures of D.                    *)
ChainsOn(D, c) ==
  \A f \in D : c[f] = IF nxt[f] = NoFut THEN <<f>> ELSE <<f>> \o c[nxt[f]]

(* The chains of all futures exist.                                        *)
LEMMA ChainExists ==
  ASSUME Chained, Ranked
  PROVE  \E c \in [Futs -> Seq(Futs)] : ChainsOn(Futs, c)
<1>0. PICK n \in Nat : \E r \in [Futs -> 0..n] : Ranks(r)
  BY DEF Ranked
<1>1. PICK r \in [Futs -> 0..n] : Ranks(r)
  BY <1>0
<1>a. \A f \in Futs : r[f] \in Nat /\ r[f] <= n
  OBVIOUS
<1> DEFINE Has(k) == \E c \in [Below(r, k) -> Seq(Futs)] : ChainsOn(Below(r, k), c)
           T == {k \in Nat : ~Has(k)}
<1>2. T = {}
  <2> SUFFICES ASSUME T # {} PROVE FALSE
    OBVIOUS
  <2>1. PICK k \in T : \A j \in T : k <= j
    BY NatMin
  <2>2. CASE k = 0
    <3> DEFINE c == [f \in Below(r, 0) |-> <<>>]
    <3>0. \A f \in Futs : ~(r[f] < 0)
      <4>1. \A x \in Nat : ~(x < 0)
        OBVIOUS
      <4> QED BY <1>a, <4>1, Zenon
    <3>1. Below(r, 0) = {}
      BY <3>0, Zenon DEF Below
    <3>2. c \in [Below(r, 0) -> Seq(Futs)] /\ ChainsOn(Below(r, 0), c)
      BY <3>1 DEF ChainsOn
    <3> QED BY <2>1, <2>2, <3>2
  <2>3. CASE k # 0
    <3>1. k \in Nat /\ k - 1 \in Nat /\ k - 1 \notin T
      BY <2>1, <2>3
    <3>2. PICK c \in [Below(r, k - 1) -> Seq(Futs)] : ChainsOn(Below(r, k - 1), c)
      BY <3>1
    <3> DEFINE d == [f \in Below(r, k) |->
                       IF nxt[f] = NoFut THEN <<f>> ELSE <<f>> \o c[nxt[f]]]
    <3>3. ASSUME NEW f \in Below(r, k), nxt[f] # NoFut
          PROVE  nxt[f] \in Below(r, k - 1)
      <4>1. f \in Futs /\ r[f] < k /\ nxt[f] \in Futs
        BY <3>3 DEF Below, Chained
      <4>2. r[nxt[f]] < r[f]
        BY <1>1, <3>3, <4>1 DEF Ranks
      <4>3. r[nxt[f]] < k - 1
        BY <1>a, <3>1, <4>1, <4>2
      <4> QED BY <4>1, <4>3 DEF Below
    <3>4. ASSUME NEW f \in Below(r, k) PROVE d[f] \in Seq(Futs)
      <4>0. f \in Futs
        BY Zenon DEF Below
      <4>1. f \in Futs /\ <<f>> \in Seq(Futs)
        BY <4>0
      <4>2. CASE nxt[f] = NoFut
        BY <4>1, <4>2
      <4>3. CASE nxt[f] # NoFut
        <5>1. c[nxt[f]] \in Seq(Futs)
          BY <3>2, <3>3, <4>3
        <5>2. <<f>> \o c[nxt[f]] \in Seq(Futs)
          BY <4>1, <5>1, ConcatProperties
        <5> QED BY <4>3, <5>2
      <4> QED BY <4>2, <4>3
    <3>5. d \in [Below(r, k) -> Seq(Futs)]
      BY <3>4
    <3>6. Below(r, k - 1) \subseteq Below(r, k)
      <4>1. \A f \in Futs : r[f] < k - 1 => r[f] < k
        BY <1>a, <3>1
      <4> QED BY <4>1, Zenon DEF Below
    <3>7. \A f \in Below(r, k - 1) : d[f] = c[f]
      BY <3>2, <3>6, Zenon DEF ChainsOn
    <3>8. ASSUME NEW f \in Below(r, k)
          PROVE  d[f] = IF nxt[f] = NoFut THEN <<f>> ELSE <<f>> \o d[nxt[f]]
      BY <3>3, <3>7, Zenon
    <3>9. ChainsOn(Below(r, k), d)
      BY <3>8, Zenon DEF ChainsOn
    <3> QED BY <2>1, <3>5, <3>9
  <2> QED BY <2>2, <2>3
<1>3. Below(r, n + 1) = Futs
  BY <1>a DEF Below
<1>4. Has(n + 1)
  BY <1>2
<1> QED BY <1>3, <1>4

(* ChainFrom is what it is defined by.                                     *)
LEMMA ChainFromIs ==
  ASSUME Chained, Ranked
  PROVE  ChainsOn(Futs, ChainFrom)
<1> DEFINE Def(c) == [f \in Futs |->
                        IF nxt[f] = NoFut THEN <<f>> ELSE <<f>> \o c[nxt[f]]]
<1>1. PICK c \in [Futs -> Seq(Futs)] : ChainsOn(Futs, c)
  BY ChainExists
<1>2. c = Def(c)
  BY <1>1 DEF ChainsOn
<1>3. \E d : d = Def(d)
  BY <1>2
<1>4. ChainFrom = Def(ChainFrom)
  BY <1>3, Zenon DEF ChainFrom
<1> QED BY <1>4, Zenon DEF ChainsOn

-----------------------------------------------------------------------------
(* The nearest handler along a chain.                                      *)
Active(chain) == {i \in 1..Len(chain) : chain[i] \in excepted \ shadowed}

Nearest(chain) ==
  IF Active(chain) = {} THEN NoFut
  ELSE chain[CHOOSE i \in Active(chain) : \A j \in Active(chain) : i <= j]

(* The smallest number of a set, as NearestCatches chooses it.             *)
LEMMA LeastIs ==
  ASSUME NEW A \in SUBSET Nat, NEW m \in A, \A j \in A : m <= j
  PROVE  (CHOOSE i \in A : \A j \in A : i <= j) = m
<1> DEFINE c == CHOOSE i \in A : \A j \in A : i <= j
<1>1. c \in A /\ \A j \in A : c <= j
  BY Zenon
<1> HIDE DEF c
<1>2. c <= m /\ m <= c /\ c \in Nat /\ m \in Nat
  BY <1>1
<1>3. c = m
  BY <1>2
<1> QED BY <1>3 DEF c

(* A future at the end of a chain has only its own handler.                *)
LEMMA NearestOfOne ==
  ASSUME NEW f \in Futs
  PROVE  Nearest(<<f>>) = IF f \in excepted \ shadowed THEN f ELSE NoFut
<1> DEFINE A == Active(<<f>>)
<1>1. A = IF f \in excepted \ shadowed THEN {1} ELSE {}
  BY DEF Active
<1>2. CASE f \in excepted \ shadowed
  <2>1. A = {1} /\ A \in SUBSET Nat /\ 1 \in A /\ \A j \in A : 1 <= j
    BY <1>1, <1>2
  <2> HIDE DEF A
  <2>2. (CHOOSE i \in A : \A j \in A : i <= j) = 1
    BY <2>1, LeastIs
  <2>3. Nearest(<<f>>) = <<f>>[1]
    BY <2>1, <2>2 DEF Nearest, A
  <2> QED BY <1>2, <2>3
<1>3. CASE f \notin excepted \ shadowed
  BY <1>1, <1>3 DEF Nearest
<1> QED BY <1>2, <1>3

(* A handler in front hides the ones behind it.                            *)
LEMMA NearestOfMore ==
  ASSUME NEW f \in Futs, NEW ch \in Seq(Futs)
  PROVE  Nearest(<<f>> \o ch) = IF f \in excepted \ shadowed THEN f ELSE Nearest(ch)
<1> DEFINE A == Active(ch)
           long == <<f>> \o ch
           B == Active(long)
           act == excepted \ shadowed
<1>1. /\ Len(ch) \in Nat /\ Len(long) = Len(ch) + 1 /\ long[1] = f
      /\ \A i \in 1..Len(ch) : long[i + 1] = ch[i]
  BY DEF long
<1>2. A \in SUBSET Nat /\ B \in SUBSET Nat
  BY DEF Active
<1> HIDE DEF long
<1>3. /\ 1 \in B <=> f \in act
      /\ \A i \in Nat \ {0} : i + 1 \in B <=> i \in A
  <2>1. 1 \in B <=> f \in act
    BY <1>1 DEF Active
  <2>2. ASSUME NEW i \in Nat \ {0} PROVE i + 1 \in B <=> i \in A
    <3>1. i + 1 \in 1..Len(long) <=> i \in 1..Len(ch)
      BY <1>1
    <3> QED BY <1>1, <3>1 DEF Active
  <2> QED BY <2>1, <2>2
<1>4. 0 \notin A /\ 0 \notin B
  BY DEF Active
<1> HIDE DEF A, B
<1>5. CASE f \in act
  <2>1. \A j \in B : 1 <= j
    BY <1>2, <1>4
  <2>2. (CHOOSE i \in B : \A j \in B : i <= j) = 1
    BY <1>2, <1>3, <1>5, <2>1, LeastIs
  <2>3. Nearest(long) = long[1]
    BY <1>3, <1>5, <2>2 DEF Nearest, B
  <2> QED BY <1>1, <1>5, <2>3 DEF long
<1>6. CASE f \notin act
  <2>1. CASE A = {}
    <3>1. B = {}
      <4> SUFFICES ASSUME NEW j \in B PROVE FALSE
        OBVIOUS
      <4>1. j \in Nat /\ j # 0 /\ j # 1
        BY <1>2, <1>3, <1>4, <1>6
      <4>2. j - 1 \in Nat \ {0} /\ (j - 1) + 1 = j
        BY <4>1
      <4>3. j - 1 \in A
        BY <1>3, <4>2
      <4> QED BY <2>1, <4>3
    <3> QED BY <1>6, <2>1, <3>1 DEF Nearest, A, B, long
  <2>2. CASE A # {}
    <3>1. PICK m \in A : \A j \in A : m <= j
      BY <1>2, <2>2, NatMin
    <3>2. m \in Nat \ {0} /\ m + 1 \in B
      BY <1>2, <1>3, <1>4
    <3>3. ASSUME NEW j \in B PROVE m + 1 <= j
      <4>1. j \in Nat /\ j # 0 /\ j # 1
        BY <1>2, <1>3, <1>4, <1>6
      <4>2. j - 1 \in Nat \ {0} /\ (j - 1) + 1 = j
        BY <4>1
      <4>3. j - 1 \in A
        BY <1>3, <4>2
      <4>4. m <= j - 1
        BY <3>1, <4>3
      <4> QED BY <3>2, <4>1, <4>4
    <3>4. (CHOOSE i \in B : \A j \in B : i <= j) = m + 1
      BY <1>2, <3>2, <3>3, LeastIs
    <3>5. (CHOOSE i \in A : \A j \in A : i <= j) = m
      BY <1>2, <3>1, LeastIs
    <3>6. Nearest(long) = long[m + 1]
      BY <3>2, <3>4 DEF Nearest, B
    <3>7. Nearest(ch) = ch[m]
      BY <3>1, <3>5 DEF Nearest, A
    <3>8. m \in 1..Len(ch)
      BY DEF A, Active
    <3> QED BY <1>1, <1>6, <3>6, <3>7, <3>8 DEF long
  <2> QED BY <2>1, <2>2
<1> QED BY <1>5, <1>6

(* What an error at f does: it goes to a real future or to none, and that  *)
(* is the nearest one with a handler.                                      *)
Caught(f) ==
  /\ ChainFrom[f] \in Seq(Futs)
  /\ Catcher[f] \in Futs \cup {NoFut}
  /\ Catcher[f] = Nearest(ChainFrom[f])

(* By induction from the end of the chain.                                 *)
LEMMA ErrorsCaught ==
  ASSUME Chained, Ranked
  PROVE  \A f \in Futs : Caught(f)
<1>0. PICK n \in Nat : \E r \in [Futs -> 0..n] : Ranks(r)
  BY DEF Ranked
<1>1. PICK r \in [Futs -> 0..n] : Ranks(r)
  BY <1>0
<1>2. \A f \in Futs : r[f] \in Nat
  OBVIOUS
<1> DEFINE T == {r[f] : f \in {g \in Futs : ~Caught(g)}}
<1> SUFFICES ASSUME NEW e \in Futs, ~Caught(e) PROVE FALSE
  OBVIOUS
<1>3. T \in SUBSET Nat /\ T # {}
  BY <1>2
<1>4. PICK k \in T : \A j \in T : k <= j
  BY <1>3, NatMin
<1>5. PICK f \in Futs : ~Caught(f) /\ r[f] = k
  BY <1>4
<1>6. \A g \in Futs : r[g] < r[f] => Caught(g)
  <2> SUFFICES ASSUME NEW g \in Futs, r[g] < r[f], ~Caught(g) PROVE FALSE
    OBVIOUS
  <2>1. r[g] \in T
    OBVIOUS
  <2>2. r[f] <= r[g] /\ r[f] \in Nat /\ r[g] \in Nat
    BY <1>2, <1>4, <1>5, <2>1
  <2> QED BY <2>2
<1> HIDE DEF T
<1>7. /\ Catcher[f] = IF nxtForward[f] = "next" THEN Catcher[nxt[f]]
                      ELSE IF nxtForward[f] = "except" THEN f ELSE NoFut
      /\ ChainFrom[f] = IF nxt[f] = NoFut THEN <<f>>
                        ELSE <<f>> \o ChainFrom[nxt[f]]
  BY CatcherIs, ChainFromIs, Zenon DEF CatchesOn, ChainsOn
<1>8. /\ nxtForward[f] \in {"none", "next", "except"}
      /\ nxtForward[f] = "next" => nxt[f] # NoFut
      /\ nxtForward[f] = "none" => nxt[f] = NoFut
      /\ nxtForward[f] = "except" <=> f \in excepted \ shadowed
  BY DEF Chained, Linked
<1>9. CASE nxt[f] = NoFut
  <2>1. ChainFrom[f] = <<f>>
    BY <1>7, <1>9
  <2>2. <<f>> \in Seq(Futs)
    OBVIOUS
  <2>3. Catcher[f] = IF f \in excepted \ shadowed THEN f ELSE NoFut
    BY <1>7, <1>8, <1>9
  <2>4. Catcher[f] = Nearest(<<f>>)
    BY <2>3, NearestOfOne
  <2> QED BY <1>5, <2>1, <2>2, <2>3, <2>4 DEF Caught
<1>10. CASE nxt[f] # NoFut
  <2> DEFINE g == nxt[f]
  <2>1. g \in Futs /\ Caught(g)
    BY <1>1, <1>6, <1>10 DEF Chained, Ranks
  <2>2. ChainFrom[f] = <<f>> \o ChainFrom[g] /\ ChainFrom[g] \in Seq(Futs)
    BY <1>7, <1>10, <2>1 DEF Caught
  <2>3. ChainFrom[f] \in Seq(Futs)
    BY <2>2
  <2>4. Catcher[f] = IF f \in excepted \ shadowed THEN f ELSE Catcher[g]
    BY <1>7, <1>8, <1>10
  <2>5. Catcher[f] = Nearest(ChainFrom[f])
    BY <2>1, <2>2, <2>4, NearestOfMore DEF Caught
  <2>6. Catcher[f] \in Futs \cup {NoFut}
    BY <2>1, <2>4 DEF Caught
  <2> QED BY <1>5, <2>3, <2>5, <2>6 DEF Caught
<1> QED BY <1>9, <1>10

-----------------------------------------------------------------------------
(* The type invariant with the links.                                      *)
Frame == [fut : Futs, what : {"body", "except"}, calls : 0..MaxCalls,
          rejected : BOOLEAN]

SafeInv == TypeOK /\ Linked /\ Ranked

(* A call puts a frame on the stack.                                       *)
LEMMA CallType ==
  ASSUME NEW stack \in Seq(Frame), NEW f \in Futs, NEW what \in {"body", "except"}
  PROVE  Call(stack, f, what) \in Seq(Frame)
<1> DEFINE e == [fut |-> f, what |-> what, calls |-> 0, rejected |-> FALSE]
<1>1. e \in Frame
  BY FuturesAssumption DEF Frame
<1> HIDE DEF e
<1>2. Append(stack, e) \in Seq(Frame)
  BY <1>1
<1> QED BY <1>2 DEF Call, e

(* So does accepting.                                                      *)
LEMMA AcceptsType ==
  ASSUME nxt \in [Futs -> Futs \cup {NoFut}], NEW stack \in Seq(Frame), NEW f \in Futs
  PROVE  Accepts(stack, f) \in Seq(Frame)
BY CallType DEF Accepts

(* A body makes no more calls than it may.                                 *)
LEMMA NotedType ==
  ASSUME frames \in Seq(Frame), NEW f \in Futs, NEW isReject \in BOOLEAN
  PROVE  Noted(f, isReject) \in Seq(Frame)
<1> DEFINE n == Len(frames)
           c(i) == IF i = n /\ OwnCall(f) THEN frames[i].calls + 1
                                          ELSE frames[i].calls
           r(i) == frames[i].rejected \/
                     (isReject /\ frames[i].fut = f /\ frames[i].what = "body")
           e(i) == [frames[i] EXCEPT !.calls = c(i), !.rejected = r(i)]
<1>1. n \in Nat /\ \A i \in 1..n : frames[i] \in Frame
  BY LenProperties, ElementOfSeq
<1>2. ASSUME NEW i \in 1..n PROVE c(i) \in 0..MaxCalls /\ r(i) \in BOOLEAN
  <2>1. c(i) \in 0..MaxCalls
    BY <1>1, FuturesAssumption DEF OwnCall, Top, Frame
  <2> QED BY <2>1
<1>3. ASSUME NEW i \in 1..n PROVE e(i) \in Frame
  <2> HIDE DEF c, r
  <2> QED BY <1>1, <1>2 DEF Frame
<1>4. Noted(f, isReject) = [i \in 1..n |-> e(i)]
  BY <1>1 DEF Noted, Frame
<1> HIDE DEF e
<1>5. [i \in 1..n |-> e(i)] \in Seq(Frame)
  BY <1>1, <1>3, SeqDef
<1> QED BY <1>4, <1>5

(* Returning takes a frame off.                                            *)
LEMMA UnderType ==
  ASSUME frames \in Seq(Frame), frames # <<>>
  PROVE  Under \in Seq(Frame) /\ Top \in Frame
<1> DEFINE n == Len(frames) - 1
<1>1. Len(frames) \in Nat \ {0} /\ n \in Nat /\ n < Len(frames)
  BY EmptySeq, LenProperties
<1>2. \A i \in 1..Len(frames) : frames[i] \in Frame
  BY ElementOfSeq
<1> HIDE DEF n
<1>3. SubSeq(frames, 1, n) \in Seq(Frame)
  BY <1>1, <1>2, SubSeqProperties
<1> QED BY <1>1, <1>2, <1>3 DEF Under, Top, n

(* An unchanged chain keeps its ranks.                                     *)
LEMMA RankedKept ==
  ASSUME Ranked, UNCHANGED nxt
  PROVE  Ranked'
BY Zenon DEF Ranked, Ranks

(* then() makes no cycle: the new future was not linked to anything.       *)
LEMMA RankedThen ==
  ASSUME SafeInv, NEW f \in Futs, NEW g \in Futs, NEW m \in Modes, then(f, g, m)
  PROVE  Ranked'
<1>0. PICK n \in Nat : \E r \in [Futs -> 0..n] : Ranks(r)
  BY DEF SafeInv, Ranked
<1>1. PICK r \in [Futs -> 0..n] : Ranks(r)
  BY <1>0
<1> DEFINE s == [h \in Futs |-> IF h = g THEN 0 ELSE r[h] + 1]
<1>2. n + 1 \in Nat /\ s \in [Futs -> 0..n + 1]
  OBVIOUS
<1>3. /\ nxt' = [nxt EXCEPT ![f] = g] /\ nxt \in [Futs -> Futs \cup {NoFut}]
      /\ f # g /\ nxt[g] = NoFut /\ \A h \in Futs : nxt[h] # g
  BY FuturesAssumption DEF then, SafeInv, TypeOK, Linked, Made
<1>4. ASSUME NEW h \in Futs, nxt'[h] # NoFut PROVE s[nxt'[h]] < s[h]
  <2>1. h # g
    BY <1>3, <1>4
  <2>2. CASE h = f
    BY <1>3, <2>1, <2>2
  <2>3. CASE h # f
    <3>1. nxt'[h] = nxt[h] /\ nxt[h] \in Futs /\ nxt[h] # g
      BY <1>3, <1>4, <2>3
    <3>2. r[nxt[h]] < r[h] /\ r[nxt[h]] \in Nat /\ r[h] \in Nat
      BY <1>1, <1>4, <3>1 DEF Ranks
    <3> QED BY <2>1, <3>1, <3>2
  <2> QED BY <2>2, <2>3
<1> HIDE DEF s
<1>5. \A h \in Futs : nxt'[h] # NoFut => s[nxt'[h]] < s[h]
  BY <1>4
<1> QED BY <1>2, <1>5 DEF Ranked, Ranks

(* Initially there are no links.                                           *)
LEMMA InitSafe == Init => SafeInv
<1> SUFFICES ASSUME Init PROVE SafeInv
  OBVIOUS
<1>1. frames = <<>> /\ frames \in Seq(Frame)
  BY DEF Init
<1>2. TypeOK
  <2>1. /\ mode \in [Futs -> BodyModes \cup {"FIRST", "none"}]
        /\ nxtForward \in [Futs -> {"none", "next", "except"}]
        /\ errored \in [Futs -> BOOLEAN]
    BY DEF Init
  <2>2. /\ nxt \in [Futs -> Futs \cup {NoFut}]
        /\ \A f \in Futs : nxtForward[f] = "next" => nxt[f] # NoFut
    BY DEF Init
  <2>3. /\ saved \subseteq Futs /\ excepted \subseteq Futs
        /\ shadowed \subseteq excepted /\ crashed \in BOOLEAN
    BY Zenon DEF Init
  <2>4. runs \in 0..MaxRuns
    BY FuturesAssumption DEF Init
  <2> QED BY <1>1, <2>1, <2>2, <2>3, <2>4 DEF TypeOK, Frame
<1>5. Linked
  BY DEF Init, Linked, Made
<1> DEFINE r == [f \in Futs |-> 0]
<1>3. r \in [Futs -> 0..0] /\ Ranks(r)
  BY DEF Init, Ranks
<1> HIDE DEF r
<1>4. Ranked
  BY <1>3 DEF Ranked
<1> QED BY <1>2, <1>4, <1>5 DEF SafeInv

(* Every step keeps the types and the links.                               *)
LEMMA StepSafe ==
  ASSUME SafeInv, [Next]_vars
  PROVE  SafeInv'
<1>0. TypeOK /\ Linked /\ Ranked /\ frames \in Seq(Frame)
  BY DEF SafeInv, TypeOK, Frame
<1>1. ASSUME NEW f \in Futs, create(f) PROVE SafeInv'
  <2>1. TypeOK'
    BY <1>0, <1>1 DEF create, TypeOK, notes
  <2>2. Linked'
    BY <1>0, <1>1 DEF create, TypeOK, Linked, Made, notes
  <2>3. Ranked'
    BY <1>0, <1>1, RankedKept DEF create
  <2> QED BY <2>1, <2>2, <2>3 DEF SafeInv
<1>2. ASSUME NEW f \in Futs, NEW g \in Futs, NEW m \in Modes, then(f, g, m)
      PROVE  SafeInv'
  <2>1. m \in BodyModes /\ m # "none"
    BY FuturesAssumption DEF BodyModes
  <2>2. TypeOK'
    BY <1>0, <1>2, <2>1, FuturesAssumption DEF then, TypeOK
  <2>3. Linked'
    BY <1>0, <1>2, <2>1, FuturesAssumption DEF then, TypeOK, Linked, Made
  <2>4. Ranked'
    BY <1>2, RankedThen
  <2> QED BY <2>2, <2>3, <2>4 DEF SafeInv
<1>3. ASSUME NEW f \in Futs, except(f) PROVE SafeInv'
  <2>1. TypeOK'
    BY <1>0, <1>3 DEF except, TypeOK
  <2>2. Linked'
    BY <1>0, <1>3 DEF except, TypeOK, Linked, Made
  <2>3. Ranked'
    BY <1>0, <1>3, RankedKept DEF except
  <2> QED BY <2>1, <2>2, <2>3 DEF SafeInv
<1>4. ASSUME UNCHANGED <<links, notes>>, frames' \in Seq(Frame),
             errored' \in [Futs -> BOOLEAN], saved' \subseteq Futs,
             crashed' \in BOOLEAN, runs' \in 0..MaxRuns
      PROVE  SafeInv'
  <2>1. TypeOK'
    BY <1>0, <1>4 DEF TypeOK, Frame, links, notes
  <2>2. Linked'
    BY <1>0, <1>4 DEF Linked, Made, links, notes
  <2>3. Ranked'
    BY <1>0, <1>4, RankedKept DEF links
  <2> QED BY <2>1, <2>2, <2>3 DEF SafeInv
<1>5. /\ nxt \in [Futs -> Futs \cup {NoFut}] /\ errored \in [Futs -> BOOLEAN]
      /\ saved \subseteq Futs /\ crashed \in BOOLEAN /\ runs \in 0..MaxRuns
  BY <1>0 DEF TypeOK
<1>6. ASSUME NEW f \in Futs, run(f) PROVE SafeInv'
  <2>1. frames' \in Seq(Frame)
    BY <1>0, <1>5, <1>6, AcceptsType DEF run
  <2> QED BY <1>4, <1>5, <1>6, <2>1, FuturesAssumption DEF run
<1>7. ASSUME NEW f \in Futs, acceptfun(f) PROVE SafeInv'
  <2>1. frames' \in Seq(Frame)
    BY <1>0, <1>5, <1>7, NotedType, AcceptsType DEF acceptfun
  <2> QED BY <1>4, <1>5, <1>7, <2>1 DEF acceptfun, Spent
<1>8. ASSUME NEW f \in Futs, rejectfun(f) PROVE SafeInv'
  <2>1. Catcher[f] \in Futs \cup {NoFut}
    BY <1>0, ErrorsCaught DEF Caught, Chained, TypeOK
  <2>2. Noted(f, TRUE) \in Seq(Frame)
    BY <1>0, NotedType
  <2>3. Catcher[f] # NoFut => Call(Noted(f, TRUE), Catcher[f], "except") \in Seq(Frame)
    BY <2>1, <2>2, CallType
  <2>4. frames' \in Seq(Frame)
    BY <1>8, <2>2, <2>3 DEF rejectfun
  <2>5. errored' \in [Futs -> BOOLEAN]
    BY <1>5, <1>8 DEF rejectfun
  <2> QED BY <1>4, <1>5, <1>8, <2>4, <2>5 DEF rejectfun, Spent
<1>9. ASSUME NEW f \in Futs, save(f) PROVE SafeInv'
  <2>1. frames' \in Seq(Frame)
    BY <1>0, <1>9, NotedType DEF save
  <2> QED BY <1>4, <1>5, <1>9, <2>1 DEF save
<1>10. CASE body_returns
  <2>1. Under \in Seq(Frame) /\ Top.fut \in Futs
    BY <1>0, <1>10, UnderType DEF body_returns, Frame
  <2>2. Accepts(Under, Top.fut) \in Seq(Frame)
    BY <1>5, <2>1, AcceptsType
  <2>3. frames' \in Seq(Frame)
    BY <1>10, <2>1, <2>2 DEF body_returns
  <2> QED BY <1>4, <1>5, <1>10, <2>3 DEF body_returns
<1>11. CASE UNCHANGED vars
  BY <1>0, <1>4, <1>5, <1>11 DEF vars
<1> QED BY <1>1, <1>2, <1>3, <1>6, <1>7, <1>8, <1>9, <1>10, <1>11 DEF Next

(* Every call goes to a real future, chains are linked as then() and       *)
(* except() left them, and every reject under way is noted.                *)
THEOREM FuturesSafe == Spec => []FuturesInv
<1>1. Init => SafeInv
  BY InitSafe
<1>2. SafeInv /\ [Next]_vars => SafeInv'
  BY StepSafe
<1>3. SafeInv /\ RejectNoted => FuturesInv
  BY DEF SafeInv, FuturesInv
<1>4. Spec => []RejectNoted
  BY FuturesRejectNoted
<1> QED BY <1>1, <1>2, <1>3, <1>4, PTL DEF Spec

(* rejectfun() and the forwarding behind it take an error to the nearest   *)
(* future with a handler that then() has not taken out, in chains of every *)
(* length, put together in every order.                                    *)
THEOREM FuturesNearestCatches == Spec => []NearestCatches
<1>1. Init => SafeInv
  BY InitSafe
<1>2. SafeInv /\ [Next]_vars => SafeInv'
  BY StepSafe
<1>3. SafeInv => NearestCatches
  <2> SUFFICES ASSUME SafeInv PROVE NearestCatches
    OBVIOUS
  <2>1. \A f \in Futs : Caught(f)
    BY ErrorsCaught DEF SafeInv, TypeOK, Chained
  <2>2. \A f \in Futs : Catcher[f] = Nearest(ChainFrom[f])
    BY <2>1 DEF Caught
  <2> QED BY <2>2, Zenon DEF NearestCatches, Nearest, Active
<1> QED BY <1>1, <1>2, <1>3, PTL DEF Spec
=============================================================================
