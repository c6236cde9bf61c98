---------------------------- MODULE RttRingProofs ----------------------------
(***************************************************************************)
(* The ring buffer is a first-in first-out channel for every size of the   *)
(* ring, every length of the calls and every interleaving of writer and    *)
(* reader: RingInv is inductive, and RttRing implements ByteChannel.       *)
(***************************************************************************)
EXTENDS RttRing, SequenceTheorems, TLAPS

-----------------------------------------------------------------------------
(* Arithmetic on offsets.                                                  *)

(* The remainder by the size of the ring, for what is less than a turn     *)
(* away.                                                                   *)
LEMMA ModTurn ==
  ASSUME NEW n \in Nat \ {0}, NEW x \in Int
  PROVE  /\ 0 <= x /\ x < n => x % n = x
         /\ n <= x /\ x < n + n => x % n = x - n
         /\ -n <= x /\ x < 0 => x % n = x + n
OBVIOUS

(* How many bytes lie between an offset r and an offset w after it.        *)
Dist(w, r) == (w - r) % Size

DistIs(d, w, r) ==
  /\ d \in 0..Size - 1
  /\ r <= w /\ w - r < Size => d = w - r
  /\ w - r = Size => d = 0
  /\ w < r => d = w - r + Size

(* The cases of the remainder by the size, for two offsets.                *)
LEMMA DistCases ==
  ASSUME NEW w \in 0..Size, NEW r \in 0..Size
  PROVE  DistIs(Dist(w, r), w, r)
<1> DEFINE x == w - r
<1>1. /\ Size \in Nat \ {0} /\ x \in Int
      /\ x >= -Size /\ x <= Size
  BY RingAssumption
<1> HIDE DEF x
<1>2. /\ 0 <= x /\ x < Size => x % Size = x
      /\ Size <= x /\ x < Size + Size => x % Size = x - Size
      /\ -Size <= x /\ x < 0 => x % Size = x + Size
  BY <1>1, ModTurn
<1>3. Dist(w, r) = x % Size
  BY DEF Dist, x
<1>4. /\ Dist(w, r) \in 0..Size - 1
      /\ 0 <= x /\ x < Size => Dist(w, r) = x
      /\ x = Size => Dist(w, r) = 0
      /\ x < 0 => Dist(w, r) = x + Size
  BY <1>1, <1>2, <1>3
<1> QED BY <1>1, <1>4 DEF x, DistIs

(* Where the k-th byte from offset r is.                                   *)
Place(r, k) == (r + k - 1) % Size

PlaceIs(p, r, k) ==
  /\ p \in 0..Size - 1
  /\ r + k - 1 < Size => p = r + k - 1
  /\ r + k - 1 >= Size => p = r + k - 1 - Size

(* The cases of the place of a byte.                                       *)
LEMMA PlaceCases ==
  ASSUME NEW r \in 0..Size, NEW k \in 1..Size
  PROVE  PlaceIs(Place(r, k), r, k)
<1> DEFINE x == r + k - 1
<1>1. /\ Size \in Nat \ {0} /\ x \in Int
      /\ 0 <= x /\ x < Size + Size
  BY RingAssumption
<1> HIDE DEF x
<1>2. /\ 0 <= x /\ x < Size => x % Size = x
      /\ Size <= x /\ x < Size + Size => x % Size = x - Size
  BY <1>1, ModTurn
<1>3. Place(r, k) = x % Size
  BY DEF Place, x
<1>4. /\ Place(r, k) \in 0..Size - 1
      /\ x < Size => Place(r, k) = x
      /\ x >= Size => Place(r, k) = x - Size
  BY <1>1, <1>2, <1>3
<1> QED BY <1>1, <1>4 DEF x, PlaceIs

(* The bytes behind WrOff are outside of what the reader may look at.      *)
LEMMA PlacesApart ==
  ASSUME NEW w \in 0..Size - 1, NEW r \in 0..Size, NEW k \in 1..Dist(w, r),
         NEW m \in Nat, m <= Size - 1 - Dist(w, r), m <= Size - w
  PROVE  Place(r, k) \notin w..w + m - 1
<1> DEFINE d == Dist(w, r)
           p == Place(r, k)
<1>1. Size \in Nat \ {0} /\ w \in 0..Size
  BY RingAssumption
<1>2. DistIs(d, w, r)
  BY <1>1, DistCases
<1>3. k \in 1..Size
  BY <1>1, <1>2 DEF DistIs
<1>4. PlaceIs(p, r, k)
  BY <1>3, PlaceCases
<1>5. d <= Size - 1 - m /\ k <= d
  BY <1>1, <1>2, <1>3 DEF DistIs
<1> HIDE DEF d, p
<1>6. p \notin w..w + m - 1
  BY <1>1, <1>2, <1>3, <1>4, <1>5 DEF DistIs, PlaceIs
<1> QED BY <1>6 DEF p

(* Moving w on by m bytes that fit.                                        *)
LEMMA DistAdvance ==
  ASSUME NEW w \in 0..Size - 1, NEW r \in 0..Size,
         NEW m \in Nat, m <= Size - 1 - Dist(w, r), m <= Size - w
  PROVE  /\ w + m \in 0..Size
         /\ Dist(w + m, r) = Dist(w, r) + m
         /\ \A k \in 1..m : Place(r, Dist(w, r) + k) = w + k - 1
<1> DEFINE d == Dist(w, r)
           e == Dist(w + m, r)
<1>1. Size \in Nat \ {0} /\ w \in 0..Size /\ w + m \in 0..Size
  BY RingAssumption
<1>2. DistIs(d, w, r) /\ DistIs(e, w + m, r)
  BY <1>1, DistCases
<1>3. d + m <= Size - 1
  BY <1>1, <1>2 DEF DistIs
<1> HIDE DEF d, e
<1>4. e = d + m
  BY <1>1, <1>2, <1>3 DEF DistIs
<1>5. ASSUME NEW k \in 1..m PROVE Place(r, d + k) = w + k - 1
  <2> DEFINE p == Place(r, d + k)
  <2>1. d + k \in 1..Size
    BY <1>1, <1>2, <1>3 DEF DistIs
  <2>2. PlaceIs(p, r, d + k)
    BY <2>1, PlaceCases
  <2> HIDE DEF p
  <2>3. p = w + k - 1
    BY <1>1, <1>2, <1>3, <2>1, <2>2 DEF DistIs, PlaceIs
  <2> QED BY <2>3 DEF p
<1> QED BY <1>1, <1>4, <1>5 DEF d, e

(* Size and 0 are the same place.                                          *)
LEMMA DistWrap == \A r \in 0..Size : Dist(Size, r) = Dist(0, r)
<1> SUFFICES ASSUME NEW r \in 0..Size PROVE Dist(Size, r) = Dist(0, r)
  OBVIOUS
<1> DEFINE d == Dist(Size, r)
           e == Dist(0, r)
<1>1. Size \in 0..Size /\ 0 \in 0..Size /\ Size \in Nat \ {0}
  BY RingAssumption
<1>2. DistIs(d, Size, r) /\ DistIs(e, 0, r)
  BY <1>1, DistCases
<1> HIDE DEF d, e
<1>3. d = e
  BY <1>1, <1>2 DEF DistIs
<1> QED BY <1>3 DEF d, e

(* Moving r on to q, over some of the bytes before w.                      *)
LEMMA DistConsume ==
  ASSUME NEW w \in 0..Size, NEW r \in 0..Size, NEW q \in 0..Size,
         Dist(q, r) <= Dist(w, r)
  PROVE  /\ Dist(w, q) = Dist(w, r) - Dist(q, r)
         /\ \A k \in 1..Dist(w, q) : Place(q, k) = Place(r, Dist(q, r) + k)
<1> DEFINE a == Dist(q, r)
           b == Dist(w, r)
           c == Dist(w, q)
<1>1. Size \in Nat \ {0} /\ a <= b
  BY RingAssumption
<1>2. DistIs(a, q, r) /\ DistIs(b, w, r) /\ DistIs(c, w, q)
  BY DistCases
<1> HIDE DEF a, b, c
<1>3. c = b - a
  BY <1>1, <1>2 DEF DistIs
<1>4. ASSUME NEW k \in 1..c PROVE Place(q, k) = Place(r, a + k)
  <2> DEFINE p == Place(q, k)
             s == Place(r, a + k)
  <2>1. k \in 1..Size /\ a + k \in 1..Size
    BY <1>1, <1>2, <1>3 DEF DistIs
  <2>2. PlaceIs(p, q, k) /\ PlaceIs(s, r, a + k)
    BY <2>1, PlaceCases
  <2> HIDE DEF p, s
  <2>3. p = s
    BY <1>1, <1>2, <1>3, <2>1, <2>2 DEF DistIs, PlaceIs
  <2> QED BY <2>3 DEF p, s
<1> QED BY <1>3, <1>4 DEF a, b, c

-----------------------------------------------------------------------------
(* Sequences of bytes.                                                     *)

(* The n bytes from offset r on.                                           *)
Seg(bytes, r, n) == [i \in 1..n |-> bytes[Place(r, i)]]

(* Such a piece is a sequence of n bytes.                                  *)
LEMMA SegFacts ==
  ASSUME NEW bytes \in [0..Size - 1 -> Nat], NEW r \in 0..Size, NEW n \in 0..Size
  PROVE  /\ Seg(bytes, r, n) \in Seq(Nat)
         /\ Len(Seg(bytes, r, n)) = n
         /\ \A i \in 1..n : Seg(bytes, r, n)[i] = bytes[Place(r, i)]
<1>1. n \in Nat /\ Size \in Nat
  BY RingAssumption
<1>2. \A i \in 1..n : bytes[Place(r, i)] \in Nat
  <2> SUFFICES ASSUME NEW i \in 1..n PROVE bytes[Place(r, i)] \in Nat
    OBVIOUS
  <2>1. i \in 1..Size
    BY <1>1
  <2>2. PlaceIs(Place(r, i), r, i)
    BY <2>1, PlaceCases
  <2> QED BY <2>2 DEF PlaceIs
<1>3. Seg(bytes, r, n) \in [1..n -> Nat]
  BY <1>2 DEF Seg
<1>4. Seg(bytes, r, n) \in Seq(Nat) /\ Len(Seg(bytes, r, n)) = n
  BY <1>1, <1>3, SeqDef, LenProperties
<1> QED BY <1>4 DEF Seg

(* What the ring holds, in these terms.                                    *)
LEMMA ContentFacts ==
  ASSUME TypeOK
  PROVE  /\ Used = Dist(WrOff, RdOff) /\ Used \in 0..Size - 1 /\ Used \in 0..Size
         /\ Room \in 0..Size - 1 /\ Room = Size - 1 - Used
         /\ Content = Seg(ring, RdOff, Used)
         /\ Content \in Seq(Nat) /\ Len(Content) = Used
         /\ \A i \in 1..Used : Content[i] = ring[Place(RdOff, i)]
<1>1. Used = Dist(WrOff, RdOff)
  BY DEF Used, Dist
<1>2. DistIs(Used, WrOff, RdOff) /\ Size \in Nat \ {0}
  BY <1>1, DistCases, RingAssumption DEF TypeOK
<1>3. Used \in 0..Size - 1 /\ Used \in 0..Size
  BY <1>2 DEF DistIs
<1>4. Room \in 0..Size - 1 /\ Room = Size - 1 - Used
  BY <1>2, <1>3 DEF Room
<1>5. Content = Seg(ring, RdOff, Used)
  BY DEF Content, Seg, Place
<1> QED BY <1>1, <1>3, <1>4, <1>5, SegFacts DEF TypeOK

(* The first a bytes of a sequence, and those behind them up to b.         *)
PiecesAre(seq, a, b) ==
  /\ SubSeq(seq, 1, a) \in Seq(Nat) /\ Len(SubSeq(seq, 1, a)) = a
  /\ SubSeq(seq, a + 1, b) \in Seq(Nat) /\ Len(SubSeq(seq, a + 1, b)) = b - a
  /\ \A i \in 1..a : SubSeq(seq, 1, a)[i] = seq[i]
  /\ \A i \in 1..b - a : SubSeq(seq, a + 1, b)[i] = seq[a + i]
  /\ SubSeq(seq, 1, a) \o SubSeq(seq, a + 1, b) = SubSeq(seq, 1, b)

(* Two adjacent pieces make one piece.                                     *)
LEMMA Pieces ==
  ASSUME NEW seq \in Seq(Nat), NEW a \in Nat, NEW b \in Nat,
         a <= b, b <= Len(seq)
  PROVE  PiecesAre(seq, a, b)
<1>1. Len(seq) \in Nat /\ \A i \in 1..Len(seq) : seq[i] \in Nat
  BY LenProperties, ElementOfSeq
<1>2. ASSUME NEW m \in Nat, NEW n \in Nat, m <= n, n <= Len(seq)
      PROVE  /\ SubSeq(seq, m + 1, n) \in Seq(Nat)
             /\ Len(SubSeq(seq, m + 1, n)) = n - m
             /\ \A i \in 1..n - m : SubSeq(seq, m + 1, n)[i] = seq[m + i]
  <2> DEFINE k == m + 1
  <2>1. k \in Int /\ n \in Int /\ \A i \in k..n : seq[i] \in Nat
    BY <1>1, <1>2
  <2>2. k = m + 1
    OBVIOUS
  <2> HIDE DEF k
  <2>3. /\ SubSeq(seq, k, n) \in Seq(Nat)
        /\ Len(SubSeq(seq, k, n)) = IF k <= n THEN n - k + 1 ELSE 0
        /\ \A i \in 1..n - k + 1 : SubSeq(seq, k, n)[i] = seq[k + i - 1]
    BY <2>1, SubSeqProperties
  <2>4. Len(SubSeq(seq, k, n)) = n - m
    BY <1>2, <2>2, <2>3
  <2>5. ASSUME NEW i \in 1..n - m PROVE SubSeq(seq, k, n)[i] = seq[m + i]
    <3>1. i \in 1..n - k + 1 /\ k + i - 1 = m + i
      BY <1>2, <2>2
    <3> QED BY <2>3, <3>1
  <2> QED BY <2>2, <2>3, <2>4, <2>5
<1>3. 0 \in Nat /\ 0 <= a /\ 0 <= b /\ 0 + 1 = 1 /\ a - 0 = a /\ b - 0 = b
      /\ a <= Len(seq)
  BY <1>1
<1>4. SubSeq(seq, 1, a) \in Seq(Nat) /\ Len(SubSeq(seq, 1, a)) = a
      /\ \A i \in 1..a : SubSeq(seq, 1, a)[i] = seq[0 + i]
  BY <1>2, <1>3
<1>5. \A i \in 1..a : SubSeq(seq, 1, a)[i] = seq[i]
  BY <1>4
<1>6. SubSeq(seq, 1, a) \o SubSeq(seq, a + 1, b) = SubSeq(seq, 1, b)
  <2>1. 1 \in 1..Len(seq) + 1 /\ a \in 1 - 1..Len(seq) /\ b \in a..Len(seq)
    BY <1>1
  <2> QED BY <2>1, ConcatAdjacentSubSeq
<1> QED BY <1>2, <1>4, <1>5, <1>6 DEF PiecesAre

-----------------------------------------------------------------------------
(* How the steps of writer and reader change what the ring holds.          *)

(* MEMCPY writes behind WrOff, into the room the reader has left: nothing  *)
(* that the reader may look at changes.                                    *)
LEMMA CopyContent ==
  ASSUME TypeOK, WriterInv, write_copy
  PROVE  /\ ring' \in [0..Size - 1 -> Nat] /\ Used' = Used /\ Content' = Content
         /\ \A i \in 1..NumBytesToWrite :
              ring'[WrOff + i - 1] = arg[NumBytesWritten + i]
<1> DEFINE m == NumBytesToWrite
<1>1. /\ wpc = "copy" /\ UNCHANGED <<WrOff, RdOff>>
      /\ ring' = [i \in 0..Size - 1 |->
                    IF i \in WrOff..WrOff + m - 1
                      THEN arg[NumBytesWritten + i - WrOff + 1] ELSE ring[i]]
  BY DEF write_copy
<1>2. /\ Size \in Nat \ {0} /\ m \in Nat /\ WrOff \in 0..Size - 1 /\ RdOff \in 0..Size
      /\ m <= Room /\ m <= Size - WrOff /\ m <= NumBytes
      /\ NumBytesWritten + NumBytes <= Len(arg) /\ arg \in Seq(Nat) /\ Len(arg) \in Nat
      /\ NumBytes \in Nat /\ NumBytesWritten \in Nat
  BY <1>1, RingAssumption, LenProperties DEF TypeOK, WriterInv
<1>3. Used' = Used
  BY <1>1 DEF Used
<1>4. ASSUME NEW i \in 1..Used
      PROVE  ring'[Place(RdOff, i)] = ring[Place(RdOff, i)]
  <2>1. /\ Used = Dist(WrOff, RdOff) /\ Used \in 0..Size - 1
        /\ Room = Size - 1 - Used
    BY ContentFacts
  <2>2. Place(RdOff, i) \notin WrOff..WrOff + m - 1
    BY <1>2, <2>1, PlacesApart
  <2>3. i \in 1..Size
    BY <1>2, <2>1
  <2>4. Place(RdOff, i) \in 0..Size - 1
    BY <1>2, <2>3, PlaceCases DEF PlaceIs
  <2> QED BY <1>1, <2>2, <2>4
<1>5. Content' = Content
  BY <1>1, <1>3, <1>4 DEF Content, Place
<1>6. ASSUME NEW i \in WrOff..WrOff + m - 1
      PROVE  arg[NumBytesWritten + i - WrOff + 1] \in Nat
  <2>1. NumBytesWritten + i - WrOff + 1 \in 1..Len(arg)
    BY <1>2
  <2> QED BY <1>2, <2>1, ElementOfSeq
<1>7. ring' \in [0..Size - 1 -> Nat]
  BY <1>1, <1>6 DEF TypeOK
<1>8. ASSUME NEW i \in 1..m
      PROVE  ring'[WrOff + i - 1] = arg[NumBytesWritten + i]
  <2>1. /\ WrOff + i - 1 \in 0..Size - 1 /\ WrOff + i - 1 \in WrOff..WrOff + m - 1
        /\ NumBytesWritten + (WrOff + i - 1) - WrOff + 1 = NumBytesWritten + i
    BY <1>2
  <2> QED BY <1>1, <2>1
<1> QED BY <1>3, <1>5, <1>7, <1>8

(* Moving WrOff on shows the reader the bytes just copied, in order.       *)
LEMMA AdvanceContent ==
  ASSUME TypeOK, WriterInv, write_advance
  PROVE  /\ WrOff' \in 0..Size
         /\ Used' = Used + NumBytesToWrite
         /\ Shown \in Nat /\ Shown + NumBytesToWrite = NumBytesWritten
         /\ NumBytesWritten <= Len(arg)
         /\ Content' = Content \o SubSeq(arg, Shown + 1, NumBytesWritten)
<1> DEFINE m == NumBytesToWrite
           X == SubSeq(arg, Shown + 1, NumBytesWritten)
<1>1. /\ wpc = "advance" /\ WrOff' = WrOff + m /\ UNCHANGED <<RdOff, ring>>
      /\ Shown = NumBytesWritten - m /\ Hidden = m
  BY DEF write_advance, Shown, Hidden
<1>2. /\ Size \in Nat \ {0} /\ m \in Nat /\ WrOff \in 0..Size - 1 /\ RdOff \in 0..Size
      /\ m <= Room /\ m <= Size - WrOff /\ m <= NumBytesWritten
      /\ NumBytesWritten + NumBytes <= Len(arg) /\ arg \in Seq(Nat) /\ Len(arg) \in Nat
      /\ NumBytes \in Nat /\ NumBytesWritten \in Nat
      /\ ring \in [0..Size - 1 -> Nat]
      /\ \A i \in 1..m : ring[WrOff + i - 1] = arg[Shown + i]
  BY <1>1, RingAssumption, LenProperties DEF TypeOK, WriterInv
<1>3. /\ Used = Dist(WrOff, RdOff) /\ Used \in 0..Size - 1 /\ Room = Size - 1 - Used
      /\ Content \in Seq(Nat) /\ Len(Content) = Used
      /\ \A i \in 1..Used : Content[i] = ring[Place(RdOff, i)]
  BY ContentFacts
<1>4. /\ WrOff + m \in 0..Size
      /\ Dist(WrOff + m, RdOff) = Used + m
      /\ \A k \in 1..m : Place(RdOff, Used + k) = WrOff + k - 1
  BY <1>2, <1>3, DistAdvance
<1>5. Used' = Used + m /\ Used + m \in 0..Size /\ Used \in Nat /\ m \in Nat
  <2>1. Used' = Dist(WrOff + m, RdOff)
    BY <1>1 DEF Used, Dist
  <2>2. Used' = Used + m
    BY <1>4, <2>1
  <2>3. /\ Used \in 0..Size - 1 /\ m <= Size - 1 - Used
        /\ m \in Nat /\ Size \in Nat
    BY <1>2, <1>3
  <2> HIDE DEF m
  <2>4. Used + m \in 0..Size /\ Used \in Nat
    BY <2>3
  <2> QED BY <2>2, <2>3, <2>4
<1>6. /\ Content' = Seg(ring, RdOff, Used + m)
      /\ Content' \in Seq(Nat) /\ Len(Content') = Used + m
      /\ \A i \in 1..Used + m : Content'[i] = ring[Place(RdOff, i)]
  <2>1. Content' = Seg(ring, RdOff, Used + m)
    BY <1>1, <1>5 DEF Content, Seg, Place
  <2> QED BY <1>2, <1>5, <2>1, SegFacts
<1>7. /\ Shown \in Nat /\ Shown + m = NumBytesWritten /\ NumBytesWritten <= Len(arg)
      /\ Shown <= NumBytesWritten /\ NumBytesWritten - Shown = m
  BY <1>1, <1>2
<1>8. X \in Seq(Nat) /\ Len(X) = m /\ \A i \in 1..m : X[i] = arg[Shown + i]
  <2> DEFINE s == Shown
             w == NumBytesWritten
  <2>1. /\ s \in Nat /\ w \in Nat /\ s <= w /\ w <= Len(arg) /\ w - s = m
        /\ s = Shown
    BY <1>2, <1>7
  <2> HIDE DEF s, w
  <2>2. PiecesAre(arg, s, w)
    BY <1>2, <2>1, Pieces
  <2> QED BY <2>1, <2>2 DEF PiecesAre, w
<1>9. Content' = Content \o X
  <2>0. /\ Used \in Nat /\ m \in Nat /\ Len(X) = m /\ X \in Seq(Nat)
        /\ \A i \in 1..m : ring[WrOff + i - 1] = X[i]
    BY <1>2, <1>5, <1>8
  <2> HIDE DEF X, m
  <2>1. /\ Content \o X \in Seq(Nat) /\ Len(Content \o X) = Used + m
        /\ \A i \in 1..Used + m :
             (Content \o X)[i] = IF i <= Used THEN Content[i] ELSE X[i - Used]
    <3> DEFINE C == Content
    <3>1. C \in Seq(Nat) /\ Len(C) = Used /\ C = Content
      BY <1>3
    <3> HIDE DEF C
    <3>2. /\ C \o X \in Seq(Nat) /\ Len(C \o X) = Len(C) + Len(X)
          /\ \A i \in 1..Len(C) + Len(X) :
               (C \o X)[i] = IF i <= Len(C) THEN C[i] ELSE X[i - Len(C)]
      BY <2>0, <3>1, ConcatProperties
    <3> QED BY <2>0, <3>1, <3>2
  <2>2. ASSUME NEW i \in 1..Used + m PROVE Content'[i] = (Content \o X)[i]
    <3>1. CASE i <= Used
      <4>1. i \in 1..Used
        BY <1>3, <3>1
      <4> QED BY <1>3, <1>6, <2>1, <3>1, <4>1
    <3>2. CASE ~(i <= Used)
      <4>1. i - Used \in 1..m /\ Used + (i - Used) = i
        BY <2>0, <3>2
      <4>2. Content'[i] = ring[WrOff + (i - Used) - 1]
        BY <1>4, <1>6, <4>1
      <4> QED BY <2>0, <2>1, <3>2, <4>1, <4>2
    <3> QED BY <3>1, <3>2
  <2> QED BY <1>6, <2>1, <2>2, SeqEqual
<1> QED BY <1>1, <1>4, <1>5, <1>7, <1>9

(* WrOff turns from Size to 0, which is the same place.                    *)
LEMMA WrapContent ==
  ASSUME TypeOK, write_wrap
  PROVE  WrOff' \in 0..Size - 1 /\ Used' = Used /\ Content' = Content
<1>1. /\ WrOff' = IF WrOff = Size THEN 0 ELSE WrOff
      /\ UNCHANGED <<RdOff, ring>>
      /\ Size \in Nat \ {0} /\ WrOff \in 0..Size /\ RdOff \in 0..Size
  BY RingAssumption DEF write_wrap, TypeOK
<1>2. Dist(WrOff', RdOff) = Dist(WrOff, RdOff)
  BY <1>1, DistWrap
<1>3. Used' = Used
  BY <1>1, <1>2 DEF Used, Dist
<1>4. Content' = Content
  BY <1>1, <1>3 DEF Content
<1> QED BY <1>1, <1>3, <1>4

(* Moving RdOff on takes what was copied off the front.                    *)
LEMMA CommitContent ==
  ASSUME TypeOK, ReaderInv, read_commit, copied # <<>>
  PROVE  /\ Len(copied) \in 1..Used
         /\ Used' = Used - Len(copied)
         /\ copied = SubSeq(Content, 1, Len(copied))
         /\ Content' = SubSeq(Content, Len(copied) + 1, Used)
<1> DEFINE c == Len(copied)
<1>1. /\ RdOff' = rd /\ UNCHANGED <<WrOff, ring>>
      /\ c <= Used /\ Dist(rd, RdOff) = c
      /\ \A i \in 1..c : copied[i] = Content[i]
  BY DEF read_commit, ReaderInv, Dist
<1>2. /\ copied \in Seq(Nat) /\ c \in Nat \ {0}
      /\ WrOff \in 0..Size /\ RdOff \in 0..Size /\ rd \in 0..Size
      /\ Size \in Nat \ {0} /\ ring \in [0..Size - 1 -> Nat]
  BY EmptySeq, RingAssumption DEF TypeOK
<1>3. /\ Used = Dist(WrOff, RdOff) /\ Used \in 0..Size - 1
      /\ Content \in Seq(Nat) /\ Len(Content) = Used
      /\ \A i \in 1..Used : Content[i] = ring[Place(RdOff, i)]
  BY ContentFacts
<1> HIDE DEF c
<1>4. /\ Dist(WrOff, rd) = Used - c
      /\ \A k \in 1..Dist(WrOff, rd) : Place(rd, k) = Place(RdOff, c + k)
  <2>1. Dist(rd, RdOff) <= Dist(WrOff, RdOff)
    BY <1>1, <1>3
  <2>2. /\ Dist(WrOff, rd) = Dist(WrOff, RdOff) - Dist(rd, RdOff)
        /\ \A k \in 1..Dist(WrOff, rd) :
             Place(rd, k) = Place(RdOff, Dist(rd, RdOff) + k)
    BY <1>2, <2>1, DistConsume
  <2> QED BY <1>1, <1>3, <2>2
<1>5. /\ Used' = Used - c /\ Used - c \in 0..Size /\ Used - c \in Nat
      /\ Used \in Nat /\ c <= Len(Content)
  <2>1. Used' = Dist(WrOff, rd)
    BY <1>1 DEF Used, Dist
  <2>2. Used \in 0..Size - 1 /\ c \in Nat /\ c <= Used /\ Size \in Nat
    BY <1>1, <1>2, <1>3
  <2>3. Used - c \in 0..Size /\ Used - c \in Nat /\ Used \in Nat
    BY <2>2
  <2> QED BY <1>3, <1>4, <2>1, <2>2, <2>3
<1>6. /\ Content' \in Seq(Nat) /\ Len(Content') = Used - c
      /\ \A i \in 1..Used - c : Content'[i] = ring[Place(rd, i)]
  <2>1. Content' = Seg(ring, rd, Used - c)
    BY <1>1, <1>5 DEF Content, Seg, Place
  <2> QED BY <1>2, <1>5, <2>1, SegFacts
<1>7. /\ SubSeq(Content, 1, c) \in Seq(Nat) /\ Len(SubSeq(Content, 1, c)) = c
      /\ SubSeq(Content, c + 1, Used) \in Seq(Nat)
      /\ Len(SubSeq(Content, c + 1, Used)) = Used - c
      /\ \A i \in 1..c : SubSeq(Content, 1, c)[i] = Content[i]
      /\ \A i \in 1..Used - c : SubSeq(Content, c + 1, Used)[i] = Content[c + i]
  <2>1. c \in Nat /\ Used \in Nat /\ c <= Used /\ Used <= Len(Content)
    BY <1>1, <1>2, <1>3, <1>5
  <2> DEFINE C == Content
  <2>2. C \in Seq(Nat) /\ C = Content /\ Used <= Len(C)
    BY <1>3, <2>1
  <2> HIDE DEF C
  <2>3. PiecesAre(C, c, Used)
    BY <2>1, <2>2, Pieces
  <2> QED BY <2>2, <2>3 DEF PiecesAre
<1>8. copied = SubSeq(Content, 1, c)
  BY <1>1, <1>2, <1>7, SeqEqual DEF c
<1>9. Content' = SubSeq(Content, c + 1, Used)
  <2>1. ASSUME NEW i \in 1..Used - c
        PROVE  Content'[i] = SubSeq(Content, c + 1, Used)[i]
    <3>1. c + i \in 1..Used
      BY <1>2, <1>3
    <3> QED BY <1>3, <1>4, <1>6, <1>7, <3>1
  <2> QED BY <1>6, <1>7, <2>1, SeqEqual
<1>10. c \in 1..Used
  BY <1>1, <1>2, <1>3
<1> QED BY <1>5, <1>8, <1>9, <1>10 DEF c

-----------------------------------------------------------------------------
(* What an action leaves alone.                                            *)

(* The room as Write() calculates it is the room there is, unless WrOff is *)
(* Size; Write() never looks then.                                         *)
LEMMA FreeRoom ==
  ASSUME TypeOK, WrOff # Size
  PROVE  Free = Room /\ Room \in 0..Size - 1
<1>1. /\ Used = Dist(WrOff, RdOff) /\ Room = Size - 1 - Used /\ Room \in 0..Size - 1
      /\ WrOff \in 0..Size /\ RdOff \in 0..Size /\ Size \in Nat \ {0}
  BY ContentFacts, RingAssumption DEF TypeOK
<1>2. DistIs(Used, WrOff, RdOff)
  BY <1>1, DistCases
<1> QED BY <1>1, <1>2 DEF Free, DistIs

(* What Write() sets out to store.                                         *)
LEMMA FittingFacts ==
  ASSUME TypeOK, WrOff # Size, NEW n \in Nat
  PROVE  /\ Fitting(n) \in Nat /\ Fitting(n) <= n
         /\ mode = "SKIP" => Fitting(n) \in {0, n}
         /\ mode = "BLOCK" => Fitting(n) = n
         /\ mode # "BLOCK" => Fitting(n) <= Room
<1>1. Free = Room /\ Room \in 0..Size - 1 /\ Size \in Nat
  BY FreeRoom, RingAssumption
<1>2. mode \in {"SKIP", "TRIM", "BLOCK"}
  BY RingAssumption DEF TypeOK
<1>3. CASE mode = "BLOCK" \/ n <= Free
  BY <1>1, <1>3 DEF Fitting
<1>4. CASE mode = "SKIP" /\ ~(n <= Free)
  <2>1. Fitting(n) = 0
    BY <1>1, <1>4 DEF Fitting
  <2> QED BY <1>1, <1>4, <2>1
<1>5. CASE mode = "TRIM" /\ ~(n <= Free)
  <2>1. Fitting(n) = Free
    BY <1>1, <1>5 DEF Fitting
  <2> QED BY <1>1, <1>5, <2>1
<1> QED BY <1>2, <1>3, <1>4, <1>5

(* The writer may add to what the reader has seen, but not turn the end of *)
(* the ring behind its back.                                               *)
LEMMA ReaderKept ==
  ASSUME ReaderInv, UNCHANGED <<RdOff, readVars>>, TypeOK,
         Used' \in Nat, Used <= Used',
         \A i \in 1..Used : Content'[i] = Content[i],
         WrOff < RdOff => WrOff' < RdOff
  PROVE  ReaderInv'
<1>1. UNCHANGED <<RdOff, rpc, BufferSize, wr, rd, copied, got>>
  BY DEF readVars
<1>2. /\ Used \in Nat /\ Len(copied) \in Nat /\ Size \in Nat \ {0}
      /\ wr \in Int /\ rd \in Int /\ RdOff \in Int
  BY ContentFacts, RingAssumption, LenProperties DEF TypeOK
<1>3. rpc = "copy" =>
        /\ rd = RdOff
        /\ wr - rd # Size /\ (wr - rd) % Size <= Used'
        /\ wr < rd => WrOff' < RdOff
  <2>1. (wr - rd) % Size \in Int
    BY <1>2
  <2> QED BY <1>2, <2>1 DEF ReaderInv
<1>4. rpc = "commit" =>
        /\ Len(copied) <= Used'
        /\ \A i \in 1..Len(copied) : copied[i] = Content'[i]
        /\ copied # <<>> => (rd - RdOff) % Size = Len(copied)
        /\ copied # <<>> /\ rd = 0 => WrOff' < RdOff
  BY <1>2 DEF ReaderInv
<1>5. rpc # "commit" => copied = <<>>
  BY DEF ReaderInv
<1> QED BY <1>1, <1>3, <1>4, <1>5 DEF ReaderInv

(* The reader may only make room.                                          *)
LEMMA WriterKept ==
  ASSUME WriterInv, UNCHANGED <<WrOff, ring, mode, writeVars>>, TypeOK,
         Room' \in Nat, Room <= Room', WrOff = Size => RdOff' # 0
  PROVE  WriterInv' /\ Shown' = Shown /\ UNCHANGED <<arg, accepted>>
<1>1. UNCHANGED <<WrOff, ring, mode, wpc, arg, NumBytes, NumBytesWritten,
                  NumBytesToWrite, accepted>>
  BY DEF writeVars
<1>2. Shown' = Shown /\ Hidden' = Hidden
  BY <1>1 DEF Shown, Hidden
<1>3. Room \in Nat /\ Hidden \in Nat /\ NumBytes \in Nat /\ NumBytesToWrite \in Nat
  BY ContentFacts DEF Hidden, TypeOK
<1>4. /\ wpc \in {"copy", "advance"} => NumBytesToWrite <= Room'
      /\ wpc # "idle" => (mode # "BLOCK" => Hidden + NumBytes <= Room')
  BY <1>3 DEF WriterInv
<1> QED BY <1>1, <1>2, <1>4 DEF WriterInv

-----------------------------------------------------------------------------
(* The initial state, and the writer's steps.                              *)

(* A piece of no bytes.                                                    *)
LEMMA NoBytes ==
  ASSUME NEW seq \in Seq(Nat)
  PROVE  SubSeq(seq, 1, 0) = <<>> /\ seq \o <<>> = seq /\ <<>> \o seq = seq
<1>1. SubSeq(seq, 1, 0) = <<>>
  BY SubSeqEmpty
<1> QED BY <1>1, ConcatEmptySeq

(* Joining pieces in another order.                                        *)
LEMMA JoinBytes ==
  ASSUME NEW s \in Seq(Nat), NEW t \in Seq(Nat), NEW u \in Seq(Nat)
  PROVE  s \o (t \o u) = (s \o t) \o u
<1>1. (s \o t) \o u = s \o (t \o u)
  BY ConcatAssociative
<1> QED BY <1>1

(* An empty ring, and nobody at work on it.                                *)
LEMMA InitRing == Init => RingInv /\ Content = <<>>
<1> SUFFICES ASSUME Init PROVE RingInv /\ Content = <<>>
  OBVIOUS
<1>1. TypeOK
  BY RingAssumption DEF Init, TypeOK
<1>2. Used = 0
  <2>1. Size \in Nat \ {0} /\ WrOff = 0 /\ RdOff = 0
    BY RingAssumption DEF Init
  <2>2. 0 % Size = 0
    BY <2>1, ModTurn
  <2> QED BY <2>1, <2>2 DEF Used
<1>3. Content = <<>> /\ Content \in Seq(Nat)
  BY <1>1, <1>2, ContentFacts, EmptySeq
<1>4. Shown = 0 /\ Hidden = 0
  BY DEF Init, Shown, Hidden
<1>5. WriterInv
  BY <1>4, RingAssumption DEF Init, WriterInv
<1>6. ReaderInv
  BY DEF Init, ReaderInv
<1>7. BytesKept
  <2>1. arg \in Seq(Nat) /\ got = <<>> /\ accepted = <<>>
    BY <1>1 DEF Init, TypeOK
  <2>2. SubSeq(arg, 1, 0) = <<>>
    BY <2>1, NoBytes
  <2> QED BY <1>3, <1>4, <2>1, <2>2 DEF BytesKept
<1>8. ModeContract /\ NeverWaits
  BY DEF Init, ModeContract, NeverWaits
<1>9. last \in [mode : {"SKIP", "TRIM", "BLOCK"}, asked : Nat, stored : Nat]
  BY DEF Init
<1> QED BY <1>1, <1>3, <1>5, <1>6, <1>7, <1>8, <1>9 DEF RingInv

(* A step of the writer that moves no offset and changes no byte of the    *)
(* ring changes nothing for the reader.                                    *)
LEMMA RingStill ==
  ASSUME RingInv, UNCHANGED <<WrOff, RdOff, ring, readVars>>
  PROVE  Used' = Used /\ Room' = Room /\ Content' = Content /\ ReaderInv'
<1>1. UNCHANGED <<WrOff, RdOff, ring>>
  OBVIOUS
<1>2. Used' = Used /\ Content' = Content /\ Room' = Room
  BY <1>1 DEF Used, Content, Room
<1>3. Used \in Nat /\ TypeOK /\ ReaderInv
  BY ContentFacts DEF RingInv
<1> QED BY <1>1, <1>2, <1>3, ReaderKept

(* The entry of Write(): the room for the call is there for good.          *)
LEMMA StepWrite ==
  ASSUME RingInv, NEW n \in Nat, Write(n)
  PROVE  RingInv' /\ UNCHANGED <<Content, got>>
<1> DEFINE F == Fitting(n)
<1>1. /\ wpc = "idle" /\ made' = made + n /\ arg' = [i \in 1..n |-> made + i]
      /\ NumBytes' = F /\ NumBytesWritten' = 0
      /\ UNCHANGED <<WrOff, RdOff, ring, mode, NumBytesToWrite, readVars>>
  BY DEF Write
<1>2. TypeOK /\ WrOff # Size /\ made \in Nat /\ mode \in {"SKIP", "TRIM", "BLOCK"}
  BY <1>1, RingAssumption DEF RingInv, WriterInv, TypeOK
<1>3. /\ F \in Nat /\ F <= n
      /\ mode = "SKIP" => F \in {0, n}
      /\ mode = "BLOCK" => F = n
      /\ mode # "BLOCK" => F <= Room
  BY <1>2, FittingFacts
<1>4. \/ F = 0 /\ wpc' = "idle" /\ accepted' = accepted \o SubSeq(arg', 1, 0)
         /\ last' = [mode |-> mode, asked |-> n, stored |-> 0]
      \/ F # 0 /\ wpc' = "size" /\ UNCHANGED <<accepted, last>>
  BY DEF Write, WriteReturns
<1> HIDE DEF F
<1>5. Used' = Used /\ Room' = Room /\ Content' = Content /\ ReaderInv'
  BY <1>1, RingStill
<1>6. arg' \in Seq(Nat) /\ Len(arg') = n /\ made' \in Nat
  <2>1. arg' \in [1..n -> Nat]
    BY <1>1, <1>2
  <2> QED BY <1>1, <1>2, <2>1, SeqDef, LenProperties
<1>7. accepted' = accepted /\ accepted \in Seq(Nat)
  <2>1. accepted \in Seq(Nat) /\ SubSeq(arg', 1, 0) = <<>>
    BY <1>2, <1>6, NoBytes DEF TypeOK
  <2>2. accepted \o <<>> = accepted
    BY <2>1, NoBytes
  <2> QED BY <1>4, <2>1, <2>2
<1>8. UNCHANGED <<rpc, BufferSize, wr, rd, copied, got>>
  BY <1>1 DEF readVars
<1>9. TypeOK'
  BY <1>1, <1>2, <1>3, <1>4, <1>6, <1>7, <1>8 DEF TypeOK
<1>10. Shown = 0 /\ Shown' = 0 /\ Hidden' = 0
  BY <1>1, <1>4 DEF Shown, Hidden
<1>11. WriterInv'
  <2>1. Room \in Nat
    BY <1>2, ContentFacts
  <2>2. WrOff' # Size /\ Room' = Room
    BY <1>1, <1>2, <1>5
  <2>3. wpc' = "size" => /\ F > 0 /\ 0 + F <= Len(arg')
                         /\ mode # "TRIM" => 0 + F = Len(arg')
                         /\ mode # "BLOCK" => 0 + F <= Room
    BY <1>2, <1>3, <1>4, <1>6, <2>1
  <2> QED BY <1>1, <1>4, <1>10, <2>2, <2>3 DEF WriterInv
<1>12. BytesKept'
  <2>1. arg \in Seq(Nat)
    BY <1>2 DEF TypeOK
  <2>2. SubSeq(arg, 1, 0) = <<>> /\ SubSeq(arg', 1, 0) = <<>>
    BY <1>6, <2>1, NoBytes
  <2> QED BY <1>5, <1>7, <1>8, <1>10, <2>2 DEF BytesKept, RingInv
<1>13. ModeContract'
       /\ last' \in [mode : {"SKIP", "TRIM", "BLOCK"}, asked : Nat, stored : Nat]
  <2>1. CASE F = 0
    <3>1. last' = [mode |-> mode, asked |-> n, stored |-> 0]
      BY <1>4, <2>1
    <3> QED BY <1>2, <1>3, <2>1, <3>1 DEF ModeContract
  <2>2. CASE F # 0
    BY <1>4, <2>2 DEF ModeContract, RingInv
  <2> QED BY <2>1, <2>2
<1>14. NeverWaits'
  BY <1>4 DEF NeverWaits
<1> QED BY <1>5, <1>8, <1>9, <1>11, <1>12, <1>13, <1>14 DEF RingInv

(* The top of the loop: the piece fits, and is not empty if not blocking.  *)
LEMMA StepSize ==
  ASSUME RingInv, write_size
  PROVE  RingInv' /\ UNCHANGED <<Content, got>>
<1> DEFINE m == MIN(MIN(Free, Size - WrOff), NumBytes)
<1>1. /\ wpc = "size" /\ wpc' = "copy" /\ NumBytesToWrite' = m
      /\ UNCHANGED <<WrOff, RdOff, ring, mode, arg, NumBytes, NumBytesWritten,
                     accepted, made, last, readVars>>
  BY DEF write_size
<1>2. /\ TypeOK /\ WrOff # Size /\ WrOff \in 0..Size /\ Size \in Nat \ {0}
      /\ NumBytes \in Nat /\ NumBytes > 0
      /\ Hidden = 0
      /\ mode # "BLOCK" => Hidden + NumBytes <= Room
  BY <1>1, RingAssumption DEF RingInv, WriterInv, TypeOK, Hidden
<1>3. Free = Room /\ Room \in 0..Size - 1
  BY <1>2, FreeRoom
<1>4. /\ m \in Nat /\ m <= Room /\ m <= Size - WrOff /\ m <= NumBytes
      /\ mode # "BLOCK" => m > 0
  BY <1>2, <1>3 DEF MIN
<1> HIDE DEF m
<1>5. Used' = Used /\ Room' = Room /\ Content' = Content /\ ReaderInv'
  BY <1>1, RingStill
<1>6. UNCHANGED <<rpc, BufferSize, wr, rd, copied, got>>
  BY <1>1 DEF readVars
<1>7. TypeOK'
  BY <1>1, <1>2, <1>4, <1>6 DEF TypeOK
<1>8. Shown' = Shown /\ Hidden' = 0
  BY <1>1 DEF Shown, Hidden
<1>9. WriterInv'
  BY <1>1, <1>2, <1>4, <1>5, <1>8 DEF WriterInv, RingInv
<1>10. BytesKept'
  BY <1>1, <1>5, <1>6, <1>8 DEF BytesKept, RingInv
<1>11. ModeContract' /\ NeverWaits'
  BY <1>1, <1>4 DEF ModeContract, NeverWaits, RingInv
<1> QED BY <1>1, <1>5, <1>6, <1>7, <1>9, <1>10, <1>11 DEF RingInv

(* MEMCPY: the bytes are in place, behind WrOff.                           *)
LEMMA StepCopy ==
  ASSUME RingInv, write_copy
  PROVE  RingInv' /\ UNCHANGED <<Content, got>>
<1> DEFINE m == NumBytesToWrite
           w == NumBytesWritten
<1>1. /\ wpc = "copy" /\ wpc' = "advance"
      /\ NumBytesWritten' = w + m /\ NumBytes' = NumBytes - m
      /\ UNCHANGED <<WrOff, RdOff, mode, arg, NumBytesToWrite, accepted, made,
                     last, readVars>>
  BY DEF write_copy
<1>2. /\ TypeOK /\ WriterInv /\ ReaderInv
      /\ m \in Nat /\ w \in Nat /\ NumBytes \in Nat /\ m <= NumBytes
      /\ m <= Room /\ m <= Size - WrOff /\ WrOff # Size
      /\ Hidden = 0 /\ Shown = w
      /\ w + NumBytes <= Len(arg) /\ Len(arg) \in Nat
      /\ mode # "TRIM" => w + NumBytes = Len(arg)
      /\ mode # "BLOCK" => 0 + NumBytes <= Room
  BY <1>1, LenProperties DEF RingInv, WriterInv, TypeOK, Hidden, Shown
<1>3. /\ ring' \in [0..Size - 1 -> Nat] /\ Used' = Used /\ Content' = Content
      /\ \A i \in 1..m : ring'[WrOff + i - 1] = arg[w + i]
  BY <1>2, CopyContent
<1>4. UNCHANGED <<rpc, BufferSize, wr, rd, copied, got>>
  BY <1>1 DEF readVars
<1>5. TypeOK'
  BY <1>1, <1>2, <1>3, <1>4 DEF TypeOK
<1>6. Shown' = w /\ Hidden' = m
  <2>1. Shown' = (w + m) - m /\ Hidden' = m
    BY <1>1 DEF Shown, Hidden
  <2> QED BY <1>2, <2>1
<1>7. ReaderInv'
  <2>1. Used \in Nat /\ Used <= Used /\ UNCHANGED <<RdOff, readVars>>
    BY <1>1, <1>2, ContentFacts
  <2> QED BY <1>1, <1>2, <1>3, <2>1, ReaderKept
<1>8. WriterInv'
  <2>1. Room' = Room
    BY <1>1, <1>3 DEF Room
  <2>2. m <= w + m /\ (w + m) + (NumBytes - m) = w + NumBytes
        /\ m + (NumBytes - m) = 0 + NumBytes
    BY <1>2
  <2> QED BY <1>1, <1>2, <1>3, <1>6, <2>1, <2>2 DEF WriterInv
<1>9. BytesKept'
  BY <1>1, <1>2, <1>3, <1>4, <1>6 DEF BytesKept, RingInv
<1>10. ModeContract' /\ NeverWaits'
  BY <1>1 DEF ModeContract, NeverWaits, RingInv
<1> QED BY <1>1, <1>3, <1>4, <1>5, <1>7, <1>8, <1>9, <1>10 DEF RingInv

(* The only step of the writer that the channel sees.                      *)
LEMMA StepAdvance ==
  ASSUME RingInv, write_advance
  PROVE  /\ RingInv' /\ UNCHANGED got
         /\ Content' = Content \o SubSeq(arg, Shown + 1, NumBytesWritten)
         /\ Content' \in Seq(Nat) /\ Len(Content') \in Len(Content)..Size - 1
<1> DEFINE m == NumBytesToWrite
           w == NumBytesWritten
           X == SubSeq(arg, Shown + 1, w)
<1>1. /\ wpc = "advance" /\ wpc' = "wrap" /\ WrOff' = WrOff + m
      /\ UNCHANGED <<RdOff, ring, mode, arg, NumBytes, NumBytesWritten,
                     NumBytesToWrite, accepted, made, last, readVars>>
  BY DEF write_advance
<1>2. /\ TypeOK /\ WriterInv /\ ReaderInv /\ BytesKept
      /\ m \in Nat /\ w \in Nat /\ NumBytes \in Nat
      /\ m <= Room /\ m <= Size - WrOff /\ WrOff # Size
      /\ WrOff \in 0..Size /\ RdOff \in 0..Size /\ Size \in Nat \ {0}
      /\ Hidden = m /\ arg \in Seq(Nat) /\ accepted \in Seq(Nat) /\ got \in Seq(Nat)
      /\ w + NumBytes <= Len(arg)
      /\ mode # "TRIM" => w + NumBytes = Len(arg)
      /\ mode # "BLOCK" => m + NumBytes <= Room
  BY <1>1, RingAssumption DEF RingInv, WriterInv, TypeOK, Hidden
<1>3. /\ WrOff' \in 0..Size /\ Used' = Used + m
      /\ Shown \in Nat /\ Shown + m = w /\ w <= Len(arg)
      /\ Content' = Content \o X
  BY <1>2, AdvanceContent
<1>4. /\ Used = Dist(WrOff, RdOff) /\ Used \in 0..Size - 1
      /\ Room = Size - 1 - Used
      /\ Content \in Seq(Nat) /\ Len(Content) = Used
  BY <1>2, ContentFacts
<1>5. DistIs(Used, WrOff, RdOff)
  BY <1>2, <1>4, DistCases
<1>6. UNCHANGED <<rpc, BufferSize, wr, rd, copied, got>>
  BY <1>1 DEF readVars
<1>7. TypeOK'
  BY <1>1, <1>2, <1>3, <1>6 DEF TypeOK
<1>8. /\ SubSeq(arg, 1, Shown) \in Seq(Nat) /\ X \in Seq(Nat) /\ Len(X) = m
       /\ SubSeq(arg, 1, Shown) \o X = SubSeq(arg, 1, w)
  <2> DEFINE s == Shown
  <2>1. /\ s \in Nat /\ s = Shown /\ s <= w /\ w - s = m
        /\ w \in Nat /\ w <= Len(arg) /\ arg \in Seq(Nat)
    BY <1>2, <1>3
  <2> HIDE DEF s, w
  <2>2. PiecesAre(arg, s, w)
    BY <2>1, Pieces
  <2> QED BY <2>1, <2>2 DEF PiecesAre
<1>9. Used' \in 0..Size - 1 /\ Used' \in Nat /\ Used <= Used' /\ Used \in Nat
  <2>1. Used \in 0..Size - 1 /\ m \in Nat /\ Size \in Nat /\ m <= Size - 1 - Used
    BY <1>2, <1>4
  <2> HIDE DEF m
  <2>2. Used + m \in 0..Size - 1 /\ Used + m \in Nat /\ Used <= Used + m /\ Used \in Nat
    BY <2>1
  <2> QED BY <1>3, <2>2
<1>10. /\ Content' \in Seq(Nat) /\ Len(Content') = Used'
      /\ Len(Content') \in Len(Content)..Size - 1
  <2>1. Content' \in Seq(Nat) /\ Len(Content') = Used' /\ Used' \in 0..Size - 1
    <3> DEFINE C == Content
    <3>1. X \in Seq(Nat) /\ Len(X) = m
      BY <1>8
    <3>2. C \in Seq(Nat) /\ Content' = C \o X /\ Len(C) = Used
      BY <1>3, <1>4
    <3> HIDE DEF C, X
    <3>3. C \o X \in Seq(Nat) /\ Len(C \o X) = Len(C) + Len(X)
      BY <3>1, <3>2, ConcatProperties
    <3> QED BY <1>3, <1>9, <3>1, <3>2, <3>3
  <2> QED BY <1>2, <1>4, <1>9, <2>1
<1>11. \A i \in 1..Used : Content'[i] = Content[i]
  <2> DEFINE C == Content
  <2>1. C \in Seq(Nat) /\ Content' = C \o X /\ Len(C) = Used /\ X \in Seq(Nat)
    BY <1>3, <1>4, <1>8
  <2>2. Used \in Nat /\ C = Content
    BY <1>4
  <2> HIDE DEF C, X
  <2>3. \A i \in 1..Len(C) : (C \o X)[i] = C[i]
    <3>1. Len(X) \in Nat /\ Len(C) \in Nat
      BY <2>1, LenProperties
    <3> QED BY <2>1, <3>1, ConcatProperties
  <2> QED BY <2>1, <2>2, <2>3
<1>12. ReaderInv'
  <2>1. Used' \in Nat /\ Used <= Used' /\ UNCHANGED <<RdOff, readVars>>
    BY <1>1, <1>9
  <2>2. WrOff < RdOff => WrOff' < RdOff
    BY <1>1, <1>2, <1>4, <1>5 DEF DistIs
  <2> QED BY <1>2, <1>11, <2>1, <2>2, ReaderKept
<1>13. Shown' = w /\ Hidden' = 0
  BY <1>1 DEF Shown, Hidden
<1>14. WriterInv'
  <2>1. Room' = Room - m
    <3>1. Room' = Size - 1 - Used'
      BY DEF Room
    <3> QED BY <1>2, <1>3, <1>4, <3>1
  <2>2. WrOff' = Size => RdOff # 0
    BY <1>1, <1>2, <1>4, <1>5 DEF DistIs
  <2>3. mode # "BLOCK" => 0 + NumBytes <= Room - m
    BY <1>2, <1>4
  <2> QED BY <1>1, <1>2, <1>13, <2>1, <2>2, <2>3 DEF WriterInv
<1>15. BytesKept'
  <2> DEFINE C == Content
             P == SubSeq(arg, 1, Shown)
  <2>1. P \in Seq(Nat) /\ X \in Seq(Nat) /\ P \o X = SubSeq(arg, 1, w)
    BY <1>8
  <2>2. C \in Seq(Nat) /\ got \o C = accepted \o P /\ Content' = C \o X
    BY <1>2, <1>3, <1>4 DEF BytesKept
  <2>6. got \in Seq(Nat) /\ accepted \in Seq(Nat)
    BY <1>2
  <2> HIDE DEF C, P, X
  <2>3. got \o (C \o X) = (got \o C) \o X
    BY <2>1, <2>2, <2>6, JoinBytes
  <2>4. accepted \o (P \o X) = (accepted \o P) \o X
    BY <2>1, <2>6, JoinBytes
  <2>5. got \o Content' = accepted \o SubSeq(arg, 1, w)
    BY <2>1, <2>2, <2>3, <2>4
  <2> QED BY <1>1, <1>6, <1>13, <2>5 DEF BytesKept
<1>16. ModeContract' /\ NeverWaits'
  BY <1>1 DEF ModeContract, NeverWaits, RingInv
<1> QED BY <1>1, <1>3, <1>6, <1>7, <1>10, <1>12, <1>14, <1>15, <1>16 DEF RingInv

(* WrOff turns, and Write() returns or goes on.                            *)
LEMMA StepWrap ==
  ASSUME RingInv, write_wrap
  PROVE  RingInv' /\ UNCHANGED <<Content, got>>
<1> DEFINE w == NumBytesWritten
<1>1. /\ wpc = "wrap" /\ WrOff' = IF WrOff = Size THEN 0 ELSE WrOff
      /\ UNCHANGED <<RdOff, ring, mode, arg, NumBytes, NumBytesWritten,
                     NumBytesToWrite, made, readVars>>
  BY DEF write_wrap
<1>2. \/ NumBytes # 0 /\ wpc' = "size" /\ UNCHANGED <<accepted, last>>
      \/ /\ NumBytes = 0 /\ wpc' = "idle"
         /\ accepted' = accepted \o SubSeq(arg, 1, w)
         /\ last' = [mode |-> mode, asked |-> Len(arg), stored |-> w]
  BY DEF write_wrap, WriteReturns
<1>3. /\ TypeOK /\ WriterInv /\ ReaderInv /\ BytesKept
      /\ WrOff \in 0..Size /\ RdOff \in 0..Size /\ Size \in Nat \ {0}
      /\ WrOff = Size => RdOff # 0
      /\ NumBytes \in Nat /\ w \in Nat /\ arg \in Seq(Nat) /\ Len(arg) \in Nat
      /\ accepted \in Seq(Nat) /\ mode \in {"SKIP", "TRIM", "BLOCK"}
      /\ Hidden = 0 /\ Shown = w
      /\ w + NumBytes <= Len(arg)
      /\ mode # "TRIM" => w + NumBytes = Len(arg)
      /\ mode # "BLOCK" => Hidden + NumBytes <= Room
  BY <1>1, RingAssumption, LenProperties
     DEF RingInv, WriterInv, TypeOK, Hidden, Shown
<1>4. WrOff' \in 0..Size - 1 /\ Used' = Used /\ Content' = Content
  BY <1>3, WrapContent
<1>5. UNCHANGED <<rpc, BufferSize, wr, rd, copied, got>>
  BY <1>1 DEF readVars
<1>6. Room' = Room
  BY <1>4 DEF Room
<1>7. SubSeq(arg, 1, w) \in Seq(Nat) /\ accepted \o SubSeq(arg, 1, w) \in Seq(Nat)
  <2>1. w <= w /\ w <= Len(arg)
    BY <1>3
  <2>2. SubSeq(arg, 1, w) \in Seq(Nat)
    BY <1>3, <2>1, Pieces DEF PiecesAre
  <2> DEFINE P == SubSeq(arg, 1, w)
  <2> HIDE DEF P
  <2>3. P \in Seq(Nat) => accepted \o P \in Seq(Nat)
    BY <1>3, ConcatProperties
  <2> QED BY <2>2, <2>3 DEF P
<1>8. TypeOK'
  <2>1. accepted' \in Seq(Nat) /\ wpc' \in {"idle", "size"}
    BY <1>2, <1>3, <1>7
  <2>2. WrOff' \in 0..Size
    BY <1>3, <1>4
  <2> QED BY <1>1, <1>3, <1>5, <2>1, <2>2 DEF TypeOK
<1>9. ReaderInv'
  <2>1. Used' \in Nat /\ Used <= Used' /\ UNCHANGED <<RdOff, readVars>>
    BY <1>1, <1>3, <1>4, ContentFacts
  <2>2. WrOff < RdOff => WrOff' < RdOff
    BY <1>1, <1>3
  <2> QED BY <1>3, <1>4, <2>1, <2>2, ReaderKept
<1>10. Hidden' = 0 /\ Shown' = IF NumBytes = 0 THEN 0 ELSE w
  BY <1>1, <1>2 DEF Hidden, Shown
<1>11. WriterInv'
  <2>1. WrOff' # Size /\ (wpc' = "size" => NumBytes > 0)
    BY <1>2, <1>3, <1>4
  <2> QED BY <1>1, <1>2, <1>3, <1>6, <1>10, <2>1 DEF WriterInv
<1>12. BytesKept'
  <2>1. CASE NumBytes = 0
    <3> DEFINE A == accepted \o SubSeq(arg, 1, w)
    <3>1. A \in Seq(Nat) /\ accepted' = A /\ got \o Content = A
      BY <1>2, <1>3, <1>7, <2>1 DEF BytesKept
    <3>2. SubSeq(arg, 1, 0) = <<>>
      BY <1>3, NoBytes
    <3> HIDE DEF A
    <3>3. A \o <<>> = A
      BY <3>1, NoBytes
    <3> QED BY <1>1, <1>4, <1>5, <1>10, <2>1, <3>1, <3>2, <3>3 DEF BytesKept
  <2>2. CASE NumBytes # 0
    BY <1>1, <1>2, <1>3, <1>4, <1>5, <1>10, <2>2 DEF BytesKept
  <2> QED BY <2>1, <2>2
<1>13. ModeContract'
       /\ last' \in [mode : {"SKIP", "TRIM", "BLOCK"}, asked : Nat, stored : Nat]
  <2>1. CASE NumBytes = 0
    <3>1. last' = [mode |-> mode, asked |-> Len(arg), stored |-> w]
      BY <1>2, <2>1
    <3>2. mode # "TRIM" => w = Len(arg)
      BY <1>3, <2>1
    <3> QED BY <1>3, <3>1, <3>2 DEF ModeContract
  <2>2. CASE NumBytes # 0
    BY <1>2, <2>2 DEF ModeContract, RingInv
  <2> QED BY <2>1, <2>2
<1>14. NeverWaits'
  BY <1>2 DEF NeverWaits
<1> QED BY <1>4, <1>5, <1>8, <1>9, <1>11, <1>12, <1>13, <1>14 DEF RingInv

(* ConfigUpBuffer() between two calls of Write().                          *)
LEMMA StepConfig ==
  ASSUME RingInv, NEW m \in Modes, ConfigUpBuffer(m)
  PROVE  RingInv' /\ UNCHANGED <<Content, got>>
<1>1. /\ wpc = "idle" /\ mode' = m
      /\ UNCHANGED <<WrOff, RdOff, ring, readVars>>
      /\ UNCHANGED <<wpc, arg, NumBytes, NumBytesWritten, NumBytesToWrite, accepted,
                     made, last>>
      /\ UNCHANGED <<rpc, BufferSize, wr, rd, copied, got>>
  BY DEF ConfigUpBuffer, writeVars, readVars
<1>2. Used' = Used /\ Room' = Room /\ Content' = Content /\ ReaderInv'
  BY <1>1, RingStill
<1>3. TypeOK'
  BY <1>1 DEF RingInv, TypeOK
<1>4. Shown' = Shown /\ Hidden' = 0
  BY <1>1 DEF Shown, Hidden
<1>5. WriterInv'
  BY <1>1, <1>4 DEF WriterInv, RingInv
<1>6. BytesKept' /\ ModeContract' /\ NeverWaits'
  BY <1>1, <1>2, <1>4 DEF BytesKept, ModeContract, NeverWaits, RingInv
<1> QED BY <1>1, <1>2, <1>3, <1>5, <1>6 DEF RingInv

-----------------------------------------------------------------------------
(* The reader's steps.                                                     *)

(* A step of the reader that does not move RdOff changes nothing for the   *)
(* writer.                                                                 *)
LEMMA ReaderLooks ==
  ASSUME RingInv, UNCHANGED <<WrOff, RdOff, ring, mode, writeVars, got>>
  PROVE  /\ WriterInv' /\ BytesKept' /\ ModeContract' /\ NeverWaits'
         /\ last' \in [mode : {"SKIP", "TRIM", "BLOCK"}, asked : Nat, stored : Nat]
         /\ UNCHANGED <<Used, Content, wpc, arg, NumBytes, NumBytesWritten,
                        NumBytesToWrite, accepted, made, last>>
<1>1. UNCHANGED <<WrOff, RdOff, ring, wpc, arg, NumBytes, NumBytesWritten,
                  NumBytesToWrite, accepted, made, last, mode, got>>
  BY DEF writeVars
<1>2. Used' = Used /\ Content' = Content /\ Room' = Room
  BY <1>1 DEF Used, Content, Room
<1>3. WriterInv' /\ Shown' = Shown
  <2>1. Room \in Nat /\ TypeOK /\ WriterInv
    BY ContentFacts DEF RingInv
  <2>2. WrOff = Size => RdOff' # 0
    BY <1>1 DEF RingInv, WriterInv
  <2> QED BY <1>2, <2>1, <2>2, WriterKept
<1>4. BytesKept' /\ ModeContract' /\ NeverWaits'
  BY <1>1, <1>2, <1>3 DEF RingInv, BytesKept, ModeContract, NeverWaits
<1> QED BY <1>1, <1>2, <1>3, <1>4 DEF RingInv

(* The entry of Read(): its copies are fresh.                              *)
LEMMA StepRead ==
  ASSUME RingInv, NEW k \in Nat, Read(k)
  PROVE  RingInv' /\ UNCHANGED <<Content, got>>
<1>1. /\ rpc = "idle" /\ rpc' = "copy" /\ BufferSize' = k /\ wr' = WrOff /\ rd' = RdOff
      /\ UNCHANGED <<WrOff, RdOff, ring, mode, writeVars, copied, got>>
  BY DEF Read
<1>2. /\ WriterInv' /\ BytesKept' /\ ModeContract' /\ NeverWaits'
      /\ last' \in [mode : {"SKIP", "TRIM", "BLOCK"}, asked : Nat, stored : Nat]
      /\ UNCHANGED <<Used, Content, wpc, arg, NumBytes, NumBytesWritten,
                     NumBytesToWrite, accepted, made, last>>
  BY <1>1, ReaderLooks
<1>3. /\ WrOff \in 0..Size /\ RdOff \in 0..Size /\ Size \in Nat \ {0}
      /\ WrOff = Size => RdOff # 0
      /\ copied = <<>>
  BY <1>1, RingAssumption DEF RingInv, TypeOK, WriterInv, ReaderInv
<1>4. TypeOK'
  BY <1>1, <1>2 DEF RingInv, TypeOK
<1>5. ReaderInv'
  <2>1. WrOff - RdOff # Size
    BY <1>3
  <2>2. (WrOff - RdOff) % Size = Used' /\ Used \in Nat
    BY <1>1, ContentFacts DEF Used, RingInv
  <2>3. (wr' - rd') % Size <= Used'
    BY <1>1, <1>2, <2>2
  <2> QED BY <1>1, <1>3, <2>1, <2>3 DEF ReaderInv
<1> QED BY <1>1, <1>2, <1>4, <1>5 DEF RingInv

(* The local values of read_copy, for offsets w and r and room b.          *)
ReadIs(w, r, b, first, turned, more, rest) ==
  /\ first = IF r > w THEN MIN(Size - r, b) ELSE 0
  /\ turned = IF r > w /\ r + first = Size THEN 0 ELSE r + first
  /\ more = MIN(w - turned, b - first)
  /\ rest = IF more > 0 THEN more ELSE 0

(* How many bytes Read() copies, up to the end of the ring and from its    *)
(* start, and where that leaves its copy of RdOff.                         *)
LEMMA ReadLength ==
  ASSUME NEW w \in 0..Size, NEW r \in 0..Size, NEW b \in Nat, w - r # Size,
         NEW first, NEW turned, NEW more, NEW rest,
         ReadIs(w, r, b, first, turned, more, rest)
  PROVE  /\ first + rest \in 0..Size /\ turned + rest \in 0..Size
         /\ first + rest <= Dist(w, r)
         /\ first + rest > 0 => Dist(turned + rest, r) = first + rest
         /\ first + rest > 0 /\ turned + rest = 0 => w < r
<1> DEFINE d == Dist(w, r)
           q == turned + rest
           e == Dist(q, r)
<1>1. Size \in Nat \ {0} /\ DistIs(d, w, r)
  BY RingAssumption, DistCases
<1> HIDE DEF d
<1>2. /\ first \in Nat /\ rest \in Nat /\ q \in 0..Size
      /\ first + rest <= d /\ first + rest < Size
      /\ \/ q = r + (first + rest) /\ q - r < Size
         \/ q = r + (first + rest) - Size /\ q < r
      /\ first + rest > 0 /\ q = 0 => w < r
  <2>1. CASE r > w /\ Size - r <= b
    <3>1. first = Size - r /\ turned = 0
      BY <1>1, <2>1 DEF MIN, ReadIs
    <3>2. more \in Nat /\ more <= w /\ rest = more
      BY <1>1, <2>1, <3>1 DEF MIN, ReadIs
    <3> QED BY <1>1, <2>1, <3>1, <3>2 DEF DistIs
  <2>2. CASE r > w /\ ~(Size - r <= b)
    <3>1. first = b /\ turned = r + b
      BY <1>1, <2>2 DEF MIN, ReadIs
    <3>2. rest = 0
      BY <1>1, <2>2, <3>1 DEF MIN, ReadIs
    <3>3. q = r + b /\ first + rest = b /\ q - r = b /\ b <= d /\ b < Size - r
      BY <1>1, <2>2, <3>1, <3>2 DEF DistIs
    <3> HIDE DEF q
    <3> QED BY <1>1, <2>2, <3>1, <3>2, <3>3
  <2>3. CASE r <= w
    <3>1. first = 0 /\ turned = r
      BY <1>1, <2>3 DEF ReadIs
    <3>2. more \in Nat /\ more <= w - r /\ rest = more
      BY <1>1, <2>3, <3>1 DEF MIN, ReadIs
    <3>3. d = w - r /\ d < Size /\ d \in Nat
      BY <1>1, <2>3 DEF DistIs
    <3>4. q = r + more /\ first + rest = more /\ q - r = more
      BY <1>1, <3>1, <3>2
    <3>5. q \in 0..Size /\ more <= d /\ more < Size /\ (more > 0 => q # 0)
      BY <1>1, <2>3, <3>2, <3>3, <3>4
    <3> HIDE DEF q
    <3> QED BY <3>1, <3>2, <3>4, <3>5
  <2> QED BY <1>1, <2>1, <2>2, <2>3
<1>3. DistIs(e, q, r)
  BY <1>2, DistCases
<1> HIDE DEF q, e
<1>4. first + rest > 0 => e = first + rest
  BY <1>1, <1>2, <1>3 DEF DistIs
<1>5. first + rest \in 0..Size
  BY <1>1, <1>2
<1> QED BY <1>2, <1>4, <1>5 DEF d, e, q

(* Both MEMCPYs of Read() copy the front of what the ring holds.           *)
LEMMA StepReadCopy ==
  ASSUME RingInv, read_copy
  PROVE  RingInv' /\ UNCHANGED <<Content, got>>
<1> DEFINE first == IF rd > wr THEN MIN(Size - rd, BufferSize) ELSE 0
           turned == IF rd > wr /\ rd + first = Size THEN 0 ELSE rd + first
           more == MIN(wr - turned, BufferSize - first)
           rest == IF more > 0 THEN more ELSE 0
           n == first + rest
           q == turned + rest
<1>1. /\ rpc = "copy" /\ rpc' = "commit"
      /\ copied' = [i \in 1..n |-> ring[(rd + i - 1) % Size]] /\ rd' = q
      /\ UNCHANGED <<WrOff, RdOff, ring, mode, writeVars, BufferSize, wr, got>>
  BY DEF read_copy
<1>2. /\ WriterInv' /\ BytesKept' /\ ModeContract' /\ NeverWaits'
      /\ last' \in [mode : {"SKIP", "TRIM", "BLOCK"}, asked : Nat, stored : Nat]
      /\ UNCHANGED <<Used, Content, wpc, arg, NumBytes, NumBytesWritten,
                     NumBytesToWrite, accepted, made, last>>
  BY <1>1, ReaderLooks
<1>3. /\ TypeOK /\ wr \in 0..Size /\ rd \in 0..Size /\ BufferSize \in Nat
      /\ ring \in [0..Size - 1 -> Nat] /\ Size \in Nat \ {0}
      /\ rd = RdOff /\ wr - rd # Size /\ Dist(wr, rd) <= Used
      /\ wr < rd => WrOff < RdOff
  BY <1>1, RingAssumption DEF RingInv, TypeOK, ReaderInv, Dist
<1>4. /\ n \in 0..Size /\ q \in 0..Size
      /\ n <= Dist(wr, rd)
      /\ n > 0 => Dist(q, rd) = n
      /\ n > 0 /\ q = 0 => wr < rd
  <2> HIDE DEF first, turned, more, rest
  <2>1. ReadIs(wr, rd, BufferSize, first, turned, more, rest)
    BY DEF first, turned, more, rest, ReadIs
  <2> QED BY <1>3, <2>1, ReadLength
<1> HIDE DEF first, turned, more, rest, n, q
<1>5. n <= Used
  <2>1. DistIs(Dist(wr, rd), wr, rd) /\ Used \in Nat
    BY <1>3, DistCases, ContentFacts
  <2> QED BY <1>3, <1>4, <2>1 DEF DistIs
<1>6. /\ copied' \in Seq(Nat) /\ Len(copied') = n
      /\ \A i \in 1..n : copied'[i] = ring[Place(RdOff, i)]
  <2>1. copied' = Seg(ring, RdOff, n)
    BY <1>1, <1>3 DEF Seg, Place
  <2> QED BY <1>3, <1>4, <2>1, SegFacts
<1>7. \A i \in 1..n : copied'[i] = Content[i]
  <2>1. \A i \in 1..Used : Content[i] = ring[Place(RdOff, i)]
    BY <1>3, ContentFacts
  <2>2. \A i \in 1..n : i \in 1..Used
    <3>1. Used \in Nat /\ n \in Nat
      BY <1>3, <1>4, ContentFacts
    <3> QED BY <1>5, <3>1
  <2> QED BY <1>6, <2>1, <2>2
<1>8. copied' # <<>> => n > 0
  <2>1. n = 0 => copied' = <<>>
    BY <1>6, EmptySeq
  <2> QED BY <1>4, <2>1
<1>9. ReaderInv'
  <2>1. /\ Len(copied') <= Used'
        /\ \A i \in 1..Len(copied') : copied'[i] = Content'[i]
    BY <1>2, <1>5, <1>6, <1>7
  <2>2. copied' # <<>> => (rd' - RdOff') % Size = Len(copied')
    BY <1>1, <1>3, <1>4, <1>6, <1>8 DEF Dist
  <2>3. copied' # <<>> /\ rd' = 0 => WrOff' < RdOff'
    BY <1>1, <1>3, <1>4, <1>8
  <2> QED BY <1>1, <2>1, <2>2, <2>3 DEF ReaderInv
<1>10. TypeOK'
  BY <1>1, <1>2, <1>3, <1>4, <1>6 DEF TypeOK
<1> QED BY <1>1, <1>2, <1>9, <1>10 DEF RingInv

(* The only step of the reader that the channel sees.                      *)
LEMMA StepCommit ==
  ASSUME RingInv, read_commit
  PROVE  /\ RingInv'
         /\ \/ UNCHANGED <<Content, got>>
            \/ /\ Len(copied) \in 1..Len(Content)
               /\ got' = got \o SubSeq(Content, 1, Len(copied))
               /\ Content' = SubSeq(Content, Len(copied) + 1, Len(Content))
<1>1. /\ rpc = "commit" /\ rpc' = "idle"
      /\ RdOff' = (IF copied # <<>> THEN rd ELSE RdOff)
      /\ got' = got \o copied /\ copied' = <<>>
      /\ UNCHANGED <<WrOff, ring, mode, writeVars, BufferSize, wr, rd>>
  BY DEF read_commit
<1>2. /\ TypeOK /\ WriterInv /\ ReaderInv /\ BytesKept
      /\ got \in Seq(Nat) /\ copied \in Seq(Nat)
      /\ Content \in Seq(Nat) /\ Len(Content) = Used /\ Used \in Nat
  BY ContentFacts DEF RingInv, TypeOK
<1>3. CASE copied = <<>>
  <2>1. got' = got
    BY <1>1, <1>2, <1>3, NoBytes
  <2>2. UNCHANGED <<WrOff, RdOff, ring, mode, writeVars, got>>
    BY <1>1, <1>3, <2>1
  <2>3. /\ WriterInv' /\ BytesKept' /\ ModeContract' /\ NeverWaits'
        /\ last' \in [mode : {"SKIP", "TRIM", "BLOCK"}, asked : Nat, stored : Nat]
        /\ UNCHANGED <<Used, Content, wpc, arg, NumBytes, NumBytesWritten,
                       NumBytesToWrite, accepted, made, last>>
    BY <2>2, ReaderLooks
  <2>4. TypeOK'
    BY <1>1, <1>2, <1>3, <2>2, <2>3 DEF TypeOK
  <2>5. ReaderInv'
    BY <1>1 DEF ReaderInv
  <2> QED BY <2>1, <2>3, <2>4, <2>5 DEF RingInv
<1>4. CASE copied # <<>>
  <2> DEFINE c == Len(copied)
  <2>1. /\ c \in 1..Used /\ Used' = Used - c
        /\ copied = SubSeq(Content, 1, c)
        /\ Content' = SubSeq(Content, c + 1, Used)
    BY <1>2, <1>4, CommitContent
  <2>2. /\ UNCHANGED <<WrOff, ring, mode, wpc, arg, NumBytes, NumBytesWritten,
                       NumBytesToWrite, accepted, made, last, BufferSize, wr, rd>>
        /\ RdOff' = rd
    BY <1>1, <1>4 DEF writeVars
  <2>3. got' \in Seq(Nat)
    BY <1>1, <1>2, ConcatProperties
  <2>4. TypeOK'
    BY <1>1, <1>2, <2>2, <2>3 DEF TypeOK
  <2>5. ReaderInv'
    BY <1>1 DEF ReaderInv
  <2>6. WriterInv' /\ Shown' = Shown
    <3>1. Room' = Size - 1 - Used' /\ Room = Size - 1 - Used /\ Size \in Nat
          /\ Used \in 0..Size - 1
      BY <1>2, ContentFacts, RingAssumption DEF Room
    <3> HIDE DEF c
    <3>2. Room' \in Nat /\ Room <= Room'
      BY <2>1, <3>1
    <3>3. WrOff = Size => RdOff' # 0
      <4>1. rd = 0 => WrOff < RdOff
        BY <1>1, <1>2, <1>4 DEF ReaderInv
      <4> QED BY <1>2, <2>2, <4>1 DEF TypeOK
    <3> QED BY <1>1, <1>2, <3>2, <3>3, WriterKept
  <2>7. BytesKept'
    <3> DEFINE C == Content
               H == SubSeq(C, 1, c)
               T == SubSeq(C, c + 1, Used)
    <3>1. C \in Seq(Nat) /\ Len(C) = Used /\ Used \in Nat /\ c \in Nat /\ c <= Used
          /\ Used <= Len(C)
      BY <1>2, <2>1
    <3> HIDE DEF c, C
    <3>2. H \in Seq(Nat) /\ T \in Seq(Nat) /\ H \o T = SubSeq(C, 1, Used)
      <4>1. PiecesAre(C, c, Used)
        BY <3>1, Pieces
      <4> QED BY <4>1 DEF PiecesAre
    <3>3. SubSeq(C, 1, Used) = C
      BY <3>1, SubSeqFull
    <3>4. got' = got \o H /\ Content' = T /\ got \o C = accepted \o SubSeq(arg, 1, Shown)
      BY <1>1, <1>2, <2>1 DEF BytesKept, C
    <3> HIDE DEF H, T
    <3>5. got \o (H \o T) = (got \o H) \o T
      BY <1>2, <3>2, JoinBytes
    <3>6. got' \o Content' = accepted \o SubSeq(arg, 1, Shown)
      BY <3>2, <3>3, <3>4, <3>5
    <3> QED BY <2>2, <2>6, <3>6 DEF BytesKept
  <2>8. ModeContract' /\ NeverWaits'
    BY <2>2 DEF RingInv, ModeContract, NeverWaits
  <2>9. RingInv'
    BY <2>2, <2>4, <2>5, <2>6, <2>7, <2>8 DEF RingInv
  <2> QED BY <1>1, <1>2, <2>1, <2>9
<1> QED BY <1>3, <1>4

-----------------------------------------------------------------------------
(* The theorems.                                                           *)

(* Every step keeps RingInv, and adds to the channel, takes from it or     *)
(* leaves it alone.                                                        *)
LEMMA StepRing ==
  ASSUME RingInv, [Next]_vars
  PROVE  RingInv' /\ [Channel!Put \/ Channel!Get]_<<Content, got>>
<1>1. ASSUME UNCHANGED <<Content, got>>, RingInv'
      PROVE  RingInv' /\ [Channel!Put \/ Channel!Get]_<<Content, got>>
  BY <1>1
<1>2. MaxCall \in Nat
  BY RingAssumption
<1>3. ASSUME NEW n \in 0..MaxCall, Write(n)
      PROVE  RingInv' /\ UNCHANGED <<Content, got>>
  <2>1. n \in Nat
    BY <1>2
  <2> QED BY <1>3, <2>1, StepWrite
<1>4. ASSUME NEW m \in Modes, ConfigUpBuffer(m)
      PROVE  RingInv' /\ UNCHANGED <<Content, got>>
  BY <1>4, StepConfig
<1>5. CASE write_size
  BY <1>1, <1>5, StepSize
<1>6. CASE write_copy
  BY <1>1, <1>6, StepCopy
<1>7. CASE write_advance
  <2>1. /\ RingInv' /\ UNCHANGED got
        /\ Content' = Content \o SubSeq(arg, Shown + 1, NumBytesWritten)
        /\ Content' \in Seq(Nat) /\ Len(Content') \in Len(Content)..Size - 1
    BY <1>7, StepAdvance
  <2>2. SubSeq(Content', 1, Len(Content)) = Content
    <3> DEFINE C == Content
               X == SubSeq(arg, Shown + 1, NumBytesWritten)
    <3>1. C \in Seq(Nat) /\ X \in Seq(Nat) /\ Content' = C \o X
      <4>1. /\ Shown \in Nat /\ NumBytesWritten \in Nat /\ Shown <= NumBytesWritten
            /\ NumBytesWritten <= Len(arg) /\ arg \in Seq(Nat)
        <5>1. /\ Shown \in Nat /\ Shown + NumBytesToWrite = NumBytesWritten
              /\ NumBytesWritten <= Len(arg)
          BY <1>7, AdvanceContent DEF RingInv
        <5>2. NumBytesToWrite \in Nat /\ NumBytesWritten \in Nat /\ arg \in Seq(Nat)
          BY DEF RingInv, TypeOK
        <5> QED BY <5>1, <5>2
      <4>2. X \in Seq(Nat)
        <5> DEFINE s == Shown
        <5>1. s \in Nat /\ s = Shown /\ s <= NumBytesWritten
          BY <4>1
        <5> HIDE DEF s
        <5>2. PiecesAre(arg, s, NumBytesWritten)
          BY <4>1, <5>1, Pieces
        <5> QED BY <5>1, <5>2 DEF PiecesAre
      <4> QED BY <2>1, <4>2, ContentFacts DEF RingInv
    <3> HIDE DEF C, X
    <3>2. SubSeq(C \o X, 1, Len(C)) = C
      BY <3>1
    <3> QED BY <3>1, <3>2 DEF C
  <2>3. Channel!Put
    BY <2>1, <2>2 DEF Channel!Put
  <2> QED BY <2>1, <2>3
<1>8. CASE write_wrap
  BY <1>1, <1>8, StepWrap
<1>9. ASSUME NEW k \in 1..MaxCall, Read(k)
      PROVE  RingInv' /\ UNCHANGED <<Content, got>>
  <2>1. k \in Nat
    BY <1>2
  <2> QED BY <1>9, <2>1, StepRead
<1>10. CASE read_copy
  BY <1>1, <1>10, StepReadCopy
<1>11. CASE read_commit
  <2>1. /\ RingInv'
        /\ \/ UNCHANGED <<Content, got>>
           \/ /\ Len(copied) \in 1..Len(Content)
              /\ got' = got \o SubSeq(Content, 1, Len(copied))
              /\ Content' = SubSeq(Content, Len(copied) + 1, Len(Content))
    BY <1>11, StepCommit
  <2>2. UNCHANGED <<Content, got>> \/ Channel!Get
    BY <2>1 DEF Channel!Get
  <2> QED BY <2>1, <2>2
<1>12. CASE UNCHANGED vars
  <2>1. UNCHANGED <<WrOff, RdOff, ring, mode, writeVars, readVars>>
    BY <1>12 DEF vars
  <2>2. UNCHANGED <<rpc, BufferSize, wr, rd, copied, got>>
    BY <2>1 DEF readVars
  <2>3. /\ WriterInv' /\ BytesKept' /\ ModeContract' /\ NeverWaits'
        /\ last' \in [mode : {"SKIP", "TRIM", "BLOCK"}, asked : Nat, stored : Nat]
        /\ UNCHANGED <<Used, Content, wpc, arg, NumBytes, NumBytesWritten,
                       NumBytesToWrite, accepted, made, last>>
    BY <2>1, <2>2, ReaderLooks
  <2>4. ReaderInv'
    BY <2>1, RingStill
  <2>5. TypeOK'
    BY <2>1, <2>2, <2>3 DEF RingInv, TypeOK
  <2> QED BY <2>2, <2>3, <2>4, <2>5 DEF RingInv
<1> QED
  BY <1>1, <1>3, <1>4, <1>5, <1>6, <1>7, <1>8, <1>9, <1>10, <1>11, <1>12
  DEF Next, WriteStep, ReadStep

(* RingInv is inductive: whatever the size of the ring, the modes and the  *)
(* interleaving, the writer's pieces fit before the reader, the reader's   *)
(* copy of WrOff is never behind RdOff, and no byte is lost or made up.    *)
THEOREM RingInvariant == Spec => []RingInv
<1>1. Init => RingInv
  BY InitRing
<1>2. RingInv /\ [Next]_vars => RingInv'
  BY StepRing
<1> QED BY <1>1, <1>2, PTL DEF Spec

(* When no call of SEGGER_RTT_Write() is under way, what the reader has    *)
(* taken and what the ring holds are the bytes reported as stored.         *)
THEOREM RingReportedIsStored == Spec => []ReportedIsStored
<1>1. RingInv => ReportedIsStored
  <2> SUFFICES ASSUME RingInv, wpc = "idle" PROVE got \o Content = accepted
    BY DEF ReportedIsStored
  <2>1. Shown = 0 /\ arg \in Seq(Nat) /\ accepted \in Seq(Nat)
    BY DEF Shown, RingInv, TypeOK
  <2>2. SubSeq(arg, 1, 0) = <<>> /\ accepted \o <<>> = accepted
    BY <2>1, NoBytes
  <2> QED BY <2>1, <2>2 DEF RingInv, BytesKept
<1> QED BY <1>1, RingInvariant, PTL

(* SEGGER_RTT_Write() keeps to its mode whatever the reader does in the    *)
(* meantime: SKIP stores all of a call or none, BLOCK stores all.          *)
THEOREM RingModeContract == Spec => []ModeContract
<1>1. RingInv => ModeContract
  BY DEF RingInv
<1> QED BY <1>1, RingInvariant, PTL

(* Unless the mode is to block, every turn of the loop of                  *)
(* SEGGER_RTT_Write() stores bytes: it never waits for the reader.         *)
THEOREM RingNeverWaits == Spec => []NeverWaits
<1>1. RingInv => NeverWaits
  BY DEF RingInv
<1> QED BY <1>1, RingInvariant, PTL

(* The ring is a first-in first-out channel of Size - 1 bytes: moving      *)
(* WrOff on adds to its back, moving RdOff on takes what was copied off    *)
(* its front, and no other step of either side changes what it holds.      *)
THEOREM RingImplementsChannel == Spec => ImplementsChannel
<1>1. Init => Channel!Init
  <2> SUFFICES ASSUME Init PROVE Content = <<>> /\ got = <<>>
    BY DEF Channel!Init
  <2> QED BY InitRing DEF Init
<1>2. RingInv /\ [Next]_vars => [Channel!Put \/ Channel!Get]_<<Content, got>>
  BY StepRing
<1> QED
  BY <1>1, <1>2, RingInvariant, PTL DEF Spec, ImplementsChannel, Channel!Spec
=============================================================================
