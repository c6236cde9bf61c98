--------------------------- MODULE RttOutputProofs ---------------------------
(***************************************************************************)
(* What a user sees of SEGGER_RTT_printf() and of the virtual terminals,   *)
(* for every set of formats, arguments, texts and modes, every size of the *)
(* buffer on the stack and every width of an unsigned.                     *)
(*                                                                         *)
(* Four parts: the host's reading of a stream as a recursion along it; the *)
(* loops of _PrintUnsigned() and _PrintInt(), which yield the digits, sign *)
(* and padding that RefNumber defines by position (NumberRight); the       *)
(* buffer of a call step by step (PrintInv); and both on one up-buffer     *)
(* (AllInv, the inductive invariant behind the theorems at the end).       *)
(***************************************************************************)
EXTENDS RttOutput, SequenceTheorems, WellFoundedInduction, TLAPS

-----------------------------------------------------------------------------
(* Numbers and recursion.  The library's induction theorems speak of an    *)
(* arbitrary predicate; here a set takes its place.                        *)

(* A non-empty set of numbers has a smallest one.                          *)
LEMMA NatMin ==
  ASSUME NEW K \in SUBSET Nat, K # {}
  PROVE  \E x \in K : \A y \in K : x <= y
<1> DEFINE R == OpToRel(<, Nat)
<1>1. PICK x \in K : \A y \in K : ~(<<y, x>> \in R)
  <2> HIDE DEF R
  <2>1. IsWellFoundedOn(R, Nat)
    BY NatLessThanWellFounded DEF R
  <2> QED BY <2>1, WFMin
<1>2. ASSUME NEW y \in K PROVE x <= y
  <2>1. <<y, x>> \notin R
    BY <1>1
  <2>2. ~(y < x)
    BY <2>1 DEF R, OpToRel
  <2> QED BY <2>2
<1> QED BY <1>2

(* A set of numbers that holds 0 and with every number the next one holds  *)
(* them all.                                                               *)
LEMMA Induct ==
  ASSUME NEW K \in SUBSET Nat, 0 \in K, \A n \in K : n + 1 \in K
  PROVE  K = Nat
<1> SUFFICES ASSUME Nat \ K # {} PROVE FALSE
  OBVIOUS
<1>1. PICK x \in Nat \ K : \A y \in Nat \ K : x <= y
  BY NatMin
<1>2. x - 1 \in Nat /\ (x - 1) + 1 = x
  BY <1>1
<1>3. x - 1 \in K
  BY <1>1, <1>2
<1>4. (x - 1) + 1 \in K
  BY <1>3
<1> QED BY <1>2, <1>4

(* f follows the recursion that starts with a, up to n.                    *)
Follows(f, a, step, S, n) ==
  /\ f \in [0..n -> S] /\ f[0] = a
  /\ \A m \in 0..n - 1 : f[m + 1] = step[m + 1][f[m]]

(* A recursion can be followed as far as wanted.                           *)
LEMMA FollowsExists ==
  ASSUME NEW S, NEW a \in S, NEW step \in [Nat -> [S -> S]]
  PROVE  \A n \in Nat : \E f : Follows(f, a, step, S, n)
<1> DEFINE K == {n \in Nat : \E f : Follows(f, a, step, S, n)}
<1>1. 0 \in K
  <2> DEFINE f == [i \in 0..0 |-> a]
  <2>1. f \in [0..0 -> S] /\ f[0] = a /\ 0..0 - 1 = {}
    OBVIOUS
  <2> HIDE DEF f
  <2>2. Follows(f, a, step, S, 0)
    BY <2>1 DEF Follows
  <2> QED BY <2>2
<1>2. ASSUME NEW n \in K PROVE n + 1 \in K
  <2>0. n \in Nat
    OBVIOUS
  <2>1. PICK f : Follows(f, a, step, S, n)
    OBVIOUS
  <2>2. f \in [0..n -> S] /\ f[0] = a /\ \A m \in 0..n - 1 : f[m + 1] = step[m + 1][f[m]]
    BY <2>1 DEF Follows
  <2> DEFINE g == [i \in 0..n + 1 |-> IF i = n + 1 THEN step[n + 1][f[n]] ELSE f[i]]
  <2>3. f[n] \in S /\ step[n + 1][f[n]] \in S
    BY <2>0, <2>2
  <2>4. g \in [0..n + 1 -> S] /\ g[0] = a
    BY <2>0, <2>2, <2>3
  <2>5. \A i \in 0..n : g[i] = f[i]
    BY <2>0
  <2>6. g[n + 1] = step[n + 1][f[n]]
    BY <2>0
  <2> HIDE DEF g
  <2>7. ASSUME NEW m \in 0..(n + 1) - 1 PROVE g[m + 1] = step[m + 1][g[m]]
    <3>1. CASE m = n
      BY <2>0, <2>5, <2>6, <3>1
    <3>2. CASE m # n
      <4>1. m \in 0..n - 1 /\ m \in 0..n /\ m + 1 \in 0..n
        BY <2>0, <3>2
      <4> QED BY <2>2, <2>5, <4>1
    <3> QED BY <3>1, <3>2
  <2>8. Follows(g, a, step, S, n + 1)
    BY <2>4, <2>7 DEF Follows
  <2> QED BY <2>0, <2>8
<1>3. K = Nat
  <2> HIDE DEF K
  <2> QED BY <1>1, <1>2, Induct DEF K
<1> QED BY <1>3

(* There is only one way to follow it.                                     *)
LEMMA FollowsAgree ==
  ASSUME NEW S, NEW a \in S, NEW step \in [Nat -> [S -> S]],
         NEW n \in Nat, NEW m \in Nat, NEW f, NEW g,
         Follows(f, a, step, S, n), Follows(g, a, step, S, m)
  PROVE  \A k \in Nat : k <= n /\ k <= m => f[k] = g[k]
<1> DEFINE K == {k \in Nat : k <= n /\ k <= m => f[k] = g[k]}
<1>1. 0 \in K
  BY DEF Follows
<1>2. ASSUME NEW k \in K PROVE k + 1 \in K
  <2>1. k \in Nat
    OBVIOUS
  <2>2. CASE k + 1 <= n /\ k + 1 <= m
    <3>1. f[k] = g[k] /\ k \in 0..n - 1 /\ k \in 0..m - 1
      BY <2>1, <2>2
    <3>2. f[k + 1] = g[k + 1]
      BY <3>1 DEF Follows
    <3> QED BY <2>1, <3>2
  <2> QED BY <2>1, <2>2
<1>3. K = Nat
  <2> HIDE DEF K
  <2> QED BY <1>1, <1>2, Induct DEF K
<1> QED BY <1>3

Solves(f, a, step) == f[0] = a /\ \A n \in Nat : f[n + 1] = step[n + 1][f[n]]

(* A recursion over all numbers has a solution.                            *)
LEMMA RecursionExists ==
  ASSUME NEW S, NEW a \in S, NEW step \in [Nat -> [S -> S]]
  PROVE  \E f \in [Nat -> S] : Solves(f, a, step)
<1> DEFINE h(n) == CHOOSE f : Follows(f, a, step, S, n)
           F == [n \in Nat |-> h(n)[n]]
<1>1. ASSUME NEW n \in Nat PROVE Follows(h(n), a, step, S, n)
  <2>1. \E f : Follows(f, a, step, S, n)
    BY FollowsExists
  <2> QED BY <2>1, Zenon
<1> HIDE DEF h
<1>2. \A n \in Nat : h(n)[n] \in S
  BY <1>1 DEF Follows
<1>3. F \in [Nat -> S]
  BY <1>2
<1>4. F[0] = a
  BY <1>1 DEF Follows
<1>5. ASSUME NEW n \in Nat PROVE F[n + 1] = step[n + 1][F[n]]
  <2>1. Follows(h(n), a, step, S, n) /\ Follows(h(n + 1), a, step, S, n + 1)
    BY <1>1
  <2>2. h(n + 1)[n] = h(n)[n]
    BY <2>1, FollowsAgree
  <2>3. h(n + 1)[n + 1] = step[n + 1][h(n + 1)[n]]
    BY <2>1 DEF Follows
  <2> QED BY <2>2, <2>3
<1> HIDE DEF F
<1> QED BY <1>3, <1>4, <1>5 DEF Solves

-----------------------------------------------------------------------------
(* The host reads the stream.                                              *)
HostSet == [term : 0..15, esc : BOOLEAN, out : SUBSET (0..15)]

HostType == host \in [term : 0..15, esc : BOOLEAN]

Start == [term |-> host.term, esc |-> host.esc, out |-> {}]

(* One more byte, whatever it is.                                          *)
LEMMA HostByteType ==
  ASSUME NEW h \in HostSet, NEW c
  PROVE  T!HostByte(h, c) \in HostSet
<1>1. T!Named(c, h.term) \in 0..15
  BY DEF HostSet, T!Named, T!Code0, T!CodeA
<1> QED BY <1>1 DEF T!HostByte, HostSet

(* The host's reading of some bytes is what it is defined by.              *)
LEMMA HostReadingIs ==
  ASSUME HostType, NEW bytes
  PROVE  /\ T!HostReading(bytes)[0] = Start
         /\ \A n \in Nat : /\ T!HostReading(bytes)[n] \in HostSet
                           /\ T!HostReading(bytes)[n + 1]
                                = T!HostByte(T!HostReading(bytes)[n], bytes[n + 1])
<1> DEFINE step == [n \in Nat |-> [h \in HostSet |-> T!HostByte(h, bytes[n])]]
           Def(f) == [n \in Nat |-> IF n = 0 THEN Start
                                    ELSE T!HostByte(f[n - 1], bytes[n])]
           H == T!HostReading(bytes)
<1>1. Start \in HostSet
  BY DEF Start, HostSet, HostType
<1>2. step \in [Nat -> [HostSet -> HostSet]]
  BY HostByteType
<1>3. \A n \in Nat : \A h \in HostSet : step[n][h] = T!HostByte(h, bytes[n])
  OBVIOUS
<1> HIDE DEF step
<1>a. PICK f \in [Nat -> HostSet] : Solves(f, Start, step)
  BY <1>1, <1>2, RecursionExists
<1>4. f[0] = Start /\ \A n \in Nat : f[n + 1] = step[n + 1][f[n]]
  BY <1>a DEF Solves
<1>5. ASSUME NEW n \in Nat
      PROVE  f[n] = IF n = 0 THEN Start ELSE T!HostByte(f[n - 1], bytes[n])
  <2>1. CASE n = 0
    BY <1>4, <2>1
  <2>2. CASE n # 0
    <3>1. n - 1 \in Nat /\ (n - 1) + 1 = n
      BY <2>2
    <3>2. f[n] = step[n][f[n - 1]] /\ f[n - 1] \in HostSet
      BY <1>4, <3>1
    <3> QED BY <1>3, <2>2, <3>2
  <2> QED BY <2>1, <2>2
<1>6. f = Def(f)
  BY <1>5
<1>7. \E g : g = Def(g)
  BY <1>6
<1>8. H = Def(H)
  BY <1>7, Zenon DEF T!HostReading, Start
<1> HIDE DEF H
<1>9. H[0] = Start /\ \A n \in Nat : H[n + 1] = T!HostByte(H[n], bytes[n + 1])
  <2>1. \A n \in Nat : H[n] = IF n = 0 THEN Start ELSE T!HostByte(H[n - 1], bytes[n])
    BY <1>8, Zenon
  <2>2. H[0] = Start
    BY <2>1
  <2>3. ASSUME NEW n \in Nat PROVE H[n + 1] = T!HostByte(H[n], bytes[n + 1])
    <3>1. n + 1 \in Nat /\ n + 1 # 0 /\ (n + 1) - 1 = n
      OBVIOUS
    <3> QED BY <2>1, <3>1
  <2> QED BY <2>2, <2>3
<1> DEFINE Typed == {n \in Nat : H[n] \in HostSet}
<1>10. Typed = Nat
  <2>1. 0 \in Typed
    BY <1>1, <1>9
  <2>2. ASSUME NEW n \in Typed PROVE n + 1 \in Typed
    BY <1>9, HostByteType
  <2> HIDE DEF Typed
  <2> QED BY <2>1, <2>2, Induct DEF Typed
<1> QED BY <1>9, <1>10 DEF H

(* Text leaves the host where it is.                                       *)
LEMMA HostReadsText ==
  ASSUME HostType, NEW bytes, NEW m \in Nat, NEW n \in Nat, m <= n,
         ~T!HostReading(bytes)[m].esc, \A i \in m + 1..n : bytes[i] # 255
  PROVE  /\ ~T!HostReading(bytes)[n].esc
         /\ T!HostReading(bytes)[n].term = T!HostReading(bytes)[m].term
         /\ T!HostReading(bytes)[n].out
              \subseteq T!HostReading(bytes)[m].out \cup {T!HostReading(bytes)[m].term}
<1> DEFINE H == T!HostReading(bytes)
           Ok(j) == /\ ~H[j].esc /\ H[j].term = H[m].term
                    /\ H[j].out \subseteq H[m].out \cup {H[m].term}
           S == {k \in Nat : m + k <= n => Ok(m + k)}
<1>1. \A j \in Nat : H[j] \in HostSet /\ H[j + 1] = T!HostByte(H[j], bytes[j + 1])
  BY HostReadingIs
<1>2. ~H[m].esc
  OBVIOUS
<1> HIDE DEF H
<1>3. 0 \in S
  BY <1>2
<1>4. ASSUME NEW k \in S PROVE k + 1 \in S
  <2>1. k \in Nat
    OBVIOUS
  <2>2. CASE m + (k + 1) <= n
    <3>1. m + k \in Nat /\ m + k <= n /\ (m + k) + 1 = m + (k + 1)
          /\ m + (k + 1) \in m + 1..n
      BY <2>1, <2>2
    <3>2. Ok(m + k)
      BY <3>1
    <3>3. bytes[m + (k + 1)] # 255
      BY <3>1
    <3> DEFINE h == H[m + k]
               g == H[m + (k + 1)]
    <3>4. h \in HostSet /\ g = T!HostByte(h, bytes[m + (k + 1)])
      BY <1>1, <3>1
    <3>5. ~h.esc /\ h.term = H[m].term /\ h.out \subseteq H[m].out \cup {H[m].term}
      BY <3>2
    <3> HIDE DEF h, g
    <3>6. g = [h EXCEPT !.out = h.out \cup {h.term}]
      BY <3>3, <3>4, <3>5 DEF T!HostByte, T!ESC
    <3>7. g.esc = h.esc /\ g.term = h.term /\ g.out = h.out \cup {h.term}
      BY <3>4, <3>6 DEF HostSet
    <3>8. ~g.esc /\ g.term = H[m].term /\ g.out \subseteq H[m].out \cup {H[m].term}
      BY <3>5, <3>7
    <3>9. Ok(m + (k + 1))
      BY <3>8 DEF g
    <3> QED BY <2>1, <3>9
  <2> QED BY <2>1, <2>2
<1>5. S = Nat
  <2> HIDE DEF S
  <2> QED BY <1>3, <1>4, Induct DEF S
<1>6. n - m \in Nat /\ m + (n - m) = n
  OBVIOUS
<1>7. n - m \in S
  BY <1>5, <1>6
<1>8. Ok(n)
  BY <1>6, <1>7
<1> QED BY <1>8 DEF H

(* A pair takes it to the terminal it names.                               *)
LEMMA HostReadsPair ==
  ASSUME HostType, NEW bytes, NEW m \in Nat,
         ~T!HostReading(bytes)[m].esc, bytes[m + 1] = 255
  PROVE  /\ ~T!HostReading(bytes)[m + 2].esc
         /\ T!HostReading(bytes)[m + 2].term
              = T!Named(bytes[m + 2], T!HostReading(bytes)[m].term)
         /\ T!HostReading(bytes)[m + 2].out = T!HostReading(bytes)[m].out
<1> DEFINE H == T!HostReading(bytes)
           h == H[m]
           g == H[m + 1]
           k == H[m + 2]
<1>1. h \in HostSet /\ g \in HostSet /\ g = T!HostByte(h, bytes[m + 1])
  BY HostReadingIs
<1>2. k = T!HostByte(g, bytes[m + 2])
  <2>1. m + 1 \in Nat /\ (m + 1) + 1 = m + 2
    OBVIOUS
  <2>2. H[(m + 1) + 1] = T!HostByte(H[m + 1], bytes[(m + 1) + 1])
    BY <2>1, HostReadingIs
  <2> QED BY <2>1, <2>2
<1>3. ~h.esc
  OBVIOUS
<1> HIDE DEF h, g, k, H
<1>4. g = [h EXCEPT !.esc = TRUE]
  BY <1>1, <1>3 DEF T!HostByte, T!ESC
<1>5. g.esc /\ g.term = h.term /\ g.out = h.out
  BY <1>1, <1>4 DEF HostSet
<1>6. k = [g EXCEPT !.term = T!Named(bytes[m + 2], g.term), !.esc = FALSE]
  BY <1>2, <1>5 DEF T!HostByte
<1>7. ~k.esc /\ k.term = T!Named(bytes[m + 2], h.term) /\ k.out = h.out
  BY <1>1, <1>5, <1>6 DEF HostSet
<1> QED BY <1>7 DEF h, g, k, H

(* A sequence keeps its form when more elements are about.                 *)
LEMMA MoreElements ==
  ASSUME NEW S, NEW R, S \subseteq R, NEW q \in Seq(S)
  PROVE  q \in Seq(R)
<1>1. Len(q) \in Nat /\ q \in [1..Len(q) -> S]
  BY LenProperties
<1>2. q \in [1..Len(q) -> R]
  BY <1>1
<1> QED BY <1>1, <1>2, SeqDef

(* What a write may store, when bytes are not trimmed.                     *)
LEMMA WriteWhole ==
  ASSUME mode \in {"SKIP", "BLOCK"}, NEW b, NEW w \in T!Write(b)
  PROVE  w = <<>> \/ w = b
<1>1. CASE mode = "BLOCK"
  BY <1>1 DEF T!Write
<1>2. CASE mode = "SKIP"
  BY <1>2 DEF T!Write
<1> QED BY <1>1, <1>2

(* It is a sequence in any case.                                           *)
LEMMA WriteSeq ==
  ASSUME mode \in {"SKIP", "TRIM", "BLOCK"}, NEW S, NEW b \in Seq(S), NEW w \in T!Write(b)
  PROVE  w \in Seq(S)
<1>1. CASE mode # "TRIM"
  <2>1. w = <<>> \/ w = b
    BY <1>1, WriteWhole
  <2>2. <<>> \in Seq(S)
    OBVIOUS
  <2> QED BY <2>1, <2>2, Zenon
<1>2. CASE mode = "TRIM"
  <2>1. PICK n \in 0..Len(b) : w = SubSeq(b, 1, n)
    BY <1>2 DEF T!Write
  <2> QED BY <2>1
<1> QED BY <1>1, <1>2

(* w stands behind the first m bytes.                                      *)
StandsAt(w, bytes, m) == \A i \in 1..Len(w) : bytes[m + i] = w[i]

(* The host has read w, which is text, or a pair if it is not lost.        *)
TextRead(H, m, w) ==
  /\ ~H[m + Len(w)].esc /\ H[m + Len(w)].term = H[m].term
  /\ H[m + Len(w)].out \subseteq H[m].out \cup {H[m].term}

PairRead(H, m, w, c) ==
  /\ ~H[m + Len(w)].esc /\ H[m + Len(w)].out = H[m].out
  /\ H[m + Len(w)].term = IF w = <<>> THEN H[m].term ELSE T!Named(c, H[m].term)

(* The host reads a piece of text.                                         *)
LEMMA PieceText ==
  ASSUME HostType, NEW bytes, NEW m \in Nat, ~T!HostReading(bytes)[m].esc,
         NEW w \in Seq(0..254), StandsAt(w, bytes, m)
  PROVE  TextRead(T!HostReading(bytes), m, w)
<1>1. Len(w) \in Nat /\ \A i \in 1..Len(w) : w[i] \in 0..254
  BY LenProperties, ElementOfSeq
<1>2. ASSUME NEW i \in m + 1..m + Len(w) PROVE bytes[i] # 255
  <2>1. i - m \in 1..Len(w) /\ m + (i - m) = i
    BY <1>1
  <2>2. bytes[i] = w[i - m]
    BY <2>1 DEF StandsAt
  <2>3. w[i - m] \in 0..254
    BY <1>1, <2>1
  <2>4. \A x \in 0..254 : x # 255
    OBVIOUS
  <2> QED BY <2>2, <2>3, <2>4, Zenon
<1>3. m + Len(w) \in Nat /\ m <= m + Len(w)
  BY <1>1
<1> QED BY <1>2, <1>3, HostReadsText DEF TextRead

(* The host reads a pair, or nothing where a pair was lost.                *)
LEMMA PiecePair ==
  ASSUME HostType, NEW bytes, NEW m \in Nat, ~T!HostReading(bytes)[m].esc,
         NEW c, NEW w, w = <<>> \/ w = <<255, c>>, StandsAt(w, bytes, m)
  PROVE  PairRead(T!HostReading(bytes), m, w, c)
<1>1. CASE w = <<>>
  <2>1. m + Len(w) = m
    BY <1>1
  <2> QED BY <1>1, <2>1 DEF PairRead
<1>2. CASE w = <<255, c>>
  <2>1. Len(w) = 2 /\ w[1] = 255 /\ w[2] = c /\ w # <<>>
    BY <1>2
  <2>2. bytes[m + 1] = 255 /\ bytes[m + 2] = c
    BY <2>1 DEF StandsAt
  <2> QED BY <2>1, <2>2, HostReadsPair DEF PairRead
<1> QED BY <1>1, <1>2

(* A pair is a sequence of bytes.                                          *)
LEMMA PairSeq ==
  ASSUME NEW c \in 0..255, NEW w, w = <<>> \/ w = <<255, c>>
  PROVE  w \in Seq(0..255)
<1>1. CASE w = <<>>
  BY <1>1
<1>2. CASE w = <<255, c>>
  <2>1. 255 \in 0..255
    OBVIOUS
  <2>2. <<255, c>> \in Seq(0..255)
    BY <2>1
  <2> QED BY <1>2, <2>2
<1> QED BY <1>1, <1>2

(* The host has shown text on terminal t only and ends on terminal t3.     *)
OutIs(h, t, t3) == ~h.esc /\ h.term = t3 /\ h.out \subseteq {t}

(* Two pairs with the characters c1 and c3, if they are not lost, and a    *)
(* text between them: the host is on t and then on t3.                     *)
OutOf(c1, w1, w2, c3, w3, t, t3) ==
  /\ HostType /\ ~host.esc /\ c1 \in 0..255 /\ c3 \in 0..255
  /\ w1 = <<>> \/ w1 = <<255, c1>>
  /\ w2 \in Seq(0..254)
  /\ w3 = <<>> \/ w3 = <<255, c3>>
  /\ t = IF w1 = <<>> THEN host.term ELSE T!Named(c1, host.term)
  /\ t3 = IF w3 = <<>> THEN t ELSE T!Named(c3, t)

(* The host reads what TerminalOut() wrote, whichever parts were stored.   *)
LEMMA OutRead ==
  ASSUME NEW c1, NEW c3, NEW w1, NEW w2, NEW w3, NEW t, NEW t3,
         OutOf(c1, w1, w2, c3, w3, t, t3)
  PROVE  OutIs(T!HostReads(w1 \o w2 \o w3), t, t3)
<1> USE DEF OutOf
<1> DEFINE bytes == w1 \o w2 \o w3
           H == T!HostReading(bytes)
           a == Len(w1)
           b == a + Len(w2)
<1>1. w1 \in Seq(0..255) /\ w2 \in Seq(0..255) /\ w3 \in Seq(0..255)
  <2>1. w2 \in Seq(0..255)
    <3>1. Len(w2) \in Nat /\ \A i \in 1..Len(w2) : w2[i] \in 0..254
      BY LenProperties, ElementOfSeq
    <3>2. \A i \in 1..Len(w2) : w2[i] \in 0..255
      BY <3>1
    <3> QED BY <3>1, <3>2, SeqDef, LenProperties
  <2> QED BY <2>1, PairSeq
<1>2. /\ a \in Nat /\ b \in Nat /\ Len(bytes) = b + Len(w3)
      /\ \A i \in 1..Len(w1) : bytes[0 + i] = w1[i]
      /\ \A i \in 1..Len(w2) : bytes[a + i] = w2[i]
      /\ \A i \in 1..Len(w3) : bytes[b + i] = w3[i]
  BY <1>1
<1> HIDE DEF bytes, a, b
<1>3. StandsAt(w1, bytes, 0) /\ StandsAt(w2, bytes, a) /\ StandsAt(w3, bytes, b)
  BY <1>2 DEF StandsAt
<1>4. ~H[0].esc /\ H[0].term = host.term /\ H[0].out = {}
  <2>1. H[0] = Start
    BY HostReadingIs
  <2>2. Start.esc = host.esc /\ Start.term = host.term /\ Start.out = {}
    BY DEF Start
  <2> QED BY <2>1, <2>2, Zenon
<1>5. ~H[a].esc /\ H[a].term = t /\ H[a].out = {}
  <2>1. 0 + Len(w1) = a
    BY <1>2 DEF a
  <2>2. PairRead(H, 0, w1, c1)
    BY <1>3, <1>4, PiecePair
  <2> QED BY <1>4, <2>1, <2>2 DEF PairRead
<1>6. ~H[b].esc /\ H[b].term = t /\ H[b].out \subseteq {t}
  <2>1. TextRead(H, a, w2)
    BY <1>2, <1>3, <1>5, PieceText
  <2> QED BY <1>5, <2>1 DEF b, TextRead
<1>7. PairRead(H, b, w3, c3)
  BY <1>2, <1>3, <1>6, PiecePair
<1>8. T!HostReads(bytes) = H[b + Len(w3)]
  BY <1>2 DEF T!HostReads
<1> QED BY <1>6, <1>7, <1>8 DEF bytes, PairRead, OutIs

(* The host reads a pair alone.                                            *)
LEMMA PairReads ==
  ASSUME HostType, ~host.esc, NEW c, NEW w, w = <<>> \/ w = <<255, c>>
  PROVE  /\ ~T!HostReads(w).esc
         /\ T!HostReads(w).term = IF w = <<>> THEN host.term ELSE T!Named(c, host.term)
<1> DEFINE H == T!HostReading(w)
<1>1. ~H[0].esc /\ H[0].term = host.term
  <2>1. H[0] = Start
    BY HostReadingIs
  <2>2. Start.esc = host.esc /\ Start.term = host.term
    BY DEF Start
  <2> QED BY <2>1, <2>2, Zenon
<1>2. StandsAt(w, w, 0)
  BY DEF StandsAt
<1>3. PairRead(H, 0, w, c)
  BY <1>1, <1>2, PiecePair
<1>4. Len(w) \in Nat /\ 0 + Len(w) = Len(w)
  OBVIOUS
<1> HIDE DEF H
<1> QED BY <1>1, <1>3, <1>4 DEF PairRead, T!HostReads, H

(* The host reads text alone.                                              *)
LEMMA TextReads ==
  ASSUME HostType, ~host.esc, NEW w \in Seq(0..254)
  PROVE  /\ ~T!HostReads(w).esc /\ T!HostReads(w).term = host.term
         /\ T!HostReads(w).out \subseteq {host.term}
<1> DEFINE H == T!HostReading(w)
<1>1. ~H[0].esc /\ H[0].term = host.term /\ H[0].out = {}
  <2>1. H[0] = Start
    BY HostReadingIs
  <2>2. Start.esc = host.esc /\ Start.term = host.term /\ Start.out = {}
    BY DEF Start
  <2> QED BY <2>1, <2>2, Zenon
<1>2. Len(w) \in Nat /\ 0 + Len(w) = Len(w)
  OBVIOUS
<1>3. StandsAt(w, w, 0)
  BY <1>2 DEF StandsAt
<1>4. TextRead(H, 0, w)
  BY <1>1, <1>3, PieceText
<1> HIDE DEF H
<1> QED BY <1>1, <1>2, <1>4 DEF TextRead, T!HostReads, H

(* The host is in a proper state after any bytes.                          *)
LEMMA HostReadsType ==
  ASSUME HostType, NEW S, NEW bytes \in Seq(S)
  PROVE  T!HostReads(bytes) \in HostSet
<1>1. Len(bytes) \in Nat
  OBVIOUS
<1> QED BY <1>1, HostReadingIs DEF T!HostReads

-----------------------------------------------------------------------------
(* The calls that select terminals.                                        *)
TermInv ==
  /\ T!TypeOK /\ T!HostFollows /\ T!TextRouted
  /\ mode # "TRIM" => ~host.esc

(* The pair of a terminal names it.                                        *)
LEMMA SelectNames ==
  ASSUME NEW id \in 0..15, NEW c, c = T!Select(id)[2], NEW t
  PROVE  T!Select(id) = <<255, c>> /\ c \in 0..255 /\ T!Named(c, t) = id
BY DEF T!Select, T!Named, T!Code0, T!CodeA, T!ESC

(* So does the pair that switches back, within one range of ids.           *)
LEMMA BackNames ==
  ASSUME NEW id \in 0..15, _ActiveTerminal \in 0..15, NEW c, c = T!Back(id)[2], NEW t
  PROVE  /\ T!Back(id) = <<255, c>> /\ c \in 0..255
         /\ (id < 10 <=> _ActiveTerminal < 10) => T!Named(c, t) = _ActiveTerminal
BY DEF T!Back, T!Named, T!Code0, T!CodeA, T!ESC

(* What the steps on terminals keep, given what the host makes of the      *)
(* bytes.                                                                  *)
LEMMA TermKept ==
  ASSUME TermInv, UNCHANGED mode, NEW h \in HostSet,
         host' = [term |-> h.term, esc |-> h.esc],
         _ActiveTerminal' \in 0..15, crossed' \in BOOLEAN, missed' \in BOOLEAN,
         shown' \in [wanted : 0..15, on : SUBSET (0..15), sure : BOOLEAN],
         mode # "TRIM" => ~h.esc,
         mode # "TRIM" /\ ~missed' /\ ~crossed' => h.term = _ActiveTerminal',
         mode # "TRIM" /\ shown'.sure => shown'.on \subseteq {shown'.wanted}
  PROVE  TermInv'
<1>1. host' \in [term : 0..15, esc : BOOLEAN] /\ host'.term = h.term /\ host'.esc = h.esc
  BY DEF HostSet
<1>2. T!TypeOK'
  BY <1>1 DEF TermInv, T!TypeOK
<1>3. T!HostFollows'
  BY <1>1 DEF T!HostFollows
<1>4. T!TextRouted'
  BY DEF T!TextRouted
<1>5. (mode # "TRIM" => ~host.esc)'
  BY <1>1, Zenon
<1> QED BY <1>2, <1>3, <1>4, <1>5 DEF TermInv

(* SEGGER_RTT_SetTerminal().                                               *)
LEMMA TermSetTerminal ==
  ASSUME TermInv, NEW id \in Ids, T!SetTerminal(id)
  PROVE  TermInv'
<1>1. id \in 0..15
  BY OutputAssumption DEF T!SetTerminal
<1>2. HostType /\ mode \in {"SKIP", "TRIM", "BLOCK"} /\ (mode # "TRIM" => ~host.esc)
  BY PrintfAssumption DEF TermInv, T!TypeOK, HostType
<1>3. PICK w \in T!Write(T!Select(id)) :
        T!Received(w) /\ missed' = (w # T!Select(id))
  BY DEF T!SetTerminal
<1> DEFINE c == T!Select(id)[2]
           h == T!HostReads(w)
<1>4. T!Select(id) = <<255, c>> /\ c \in 0..255 /\ \A t : T!Named(c, t) = id
  BY <1>1, SelectNames
<1>5. T!Select(id) \in Seq(0..255)
  BY <1>4, PairSeq
<1>6. w \in Seq(0..255)
  BY <1>2, <1>5, WriteSeq
<1>7. h \in HostSet /\ host' = [term |-> h.term, esc |-> h.esc]
  BY <1>2, <1>3, <1>6, HostReadsType DEF T!Received
<1> HIDE DEF c
<1>8. mode # "TRIM" => ~h.esc /\ (~missed' => h.term = id)
  <2> SUFFICES ASSUME mode # "TRIM" PROVE ~h.esc /\ (~missed' => h.term = id)
    OBVIOUS
  <2>1. w = <<>> \/ w = <<255, c>>
    BY <1>2, <1>4, WriteWhole
  <2>2. ~h.esc /\ h.term = IF w = <<>> THEN host.term ELSE T!Named(c, host.term)
    BY <1>2, <1>6, <2>1, PairReads
  <2>3. ~missed' => w = <<255, c>>
    BY <1>3, <1>4, Zenon
  <2>4. <<255, c>> # <<>>
    OBVIOUS
  <2>5. ~missed' => h.term = T!Named(c, host.term)
    BY <2>2, <2>3, <2>4, Zenon
  <2> QED BY <1>4, <2>2, <2>5, Zenon
<1>9. /\ _ActiveTerminal' = id /\ UNCHANGED mode /\ crossed' = FALSE /\ UNCHANGED shown
      /\ missed' \in BOOLEAN
  BY <1>3, Zenon DEF T!SetTerminal
<1>10. /\ shown' \in [wanted : 0..15, on : SUBSET (0..15), sure : BOOLEAN]
       /\ mode # "TRIM" /\ shown'.sure => shown'.on \subseteq {shown'.wanted}
  BY <1>9 DEF TermInv, T!TypeOK, T!TextRouted
<1> HIDE DEF h
<1> QED BY <1>1, <1>7, <1>8, <1>9, <1>10, TermKept

(* SEGGER_RTT_WriteString().                                               *)
LEMMA TermWriteString ==
  ASSUME TermInv, NEW s \in Texts, T!WriteString(s)
  PROVE  TermInv'
<1>1. HostType /\ mode \in {"SKIP", "TRIM", "BLOCK"} /\ (mode # "TRIM" => ~host.esc)
  BY PrintfAssumption DEF TermInv, T!TypeOK, HostType
<1>2. PICK w \in T!Write(s) :
        T!Received(w) /\ T!Shows(_ActiveTerminal, w, ~missed /\ ~crossed)
  BY DEF T!WriteString
<1>3. s \in Seq(0..254)
  BY OutputAssumption
<1>4. w \in Seq(0..254)
  BY <1>1, <1>3, WriteSeq
<1> DEFINE h == T!HostReads(w)
<1>5. h \in HostSet /\ host' = [term |-> h.term, esc |-> h.esc]
  BY <1>1, <1>2, <1>4, HostReadsType DEF T!Received
<1>6. mode # "TRIM" => ~h.esc /\ h.term = host.term /\ h.out \subseteq {host.term}
  BY <1>1, <1>4, TextReads
<1>7. shown' = [wanted |-> _ActiveTerminal, on |-> h.out, sure |-> ~missed /\ ~crossed]
  BY <1>2 DEF T!Shows
<1> HIDE DEF h
<1>8. /\ UNCHANGED <<mode, _ActiveTerminal, crossed, missed>>
      /\ _ActiveTerminal \in 0..15 /\ crossed \in BOOLEAN /\ missed \in BOOLEAN
  BY DEF T!WriteString, TermInv, T!TypeOK
<1>9. mode # "TRIM" /\ ~missed /\ ~crossed => host.term = _ActiveTerminal
  BY DEF TermInv, T!HostFollows
<1>10. /\ shown'.wanted = _ActiveTerminal /\ shown'.on = h.out
       /\ shown'.sure = (~missed /\ ~crossed)
  BY <1>7
<1>11. shown' \in [wanted : 0..15, on : SUBSET (0..15), sure : BOOLEAN]
  <2>1. (~missed /\ ~crossed) \in BOOLEAN /\ h.out \in SUBSET (0..15)
    BY <1>5 DEF HostSet
  <2> QED BY <1>7, <1>8, <2>1
<1>12. mode # "TRIM" /\ shown'.sure => shown'.on \subseteq {shown'.wanted}
  BY <1>6, <1>9, <1>10
<1>13. mode # "TRIM" /\ ~missed' /\ ~crossed' => h.term = _ActiveTerminal'
  BY <1>6, <1>8, <1>9
<1>14. /\ _ActiveTerminal' \in 0..15 /\ crossed' \in BOOLEAN /\ missed' \in BOOLEAN
       /\ UNCHANGED mode
  BY <1>8
<1> QED BY <1>5, <1>6, <1>11, <1>12, <1>13, <1>14, TermKept

(* SEGGER_RTT_TerminalOut().                                               *)
LEMMA TermTerminalOut ==
  ASSUME TermInv, NEW id \in Ids, NEW s \in Texts, T!TerminalOut(id, s)
  PROVE  TermInv'
<1>0. id < 16
  BY Zenon DEF T!TerminalOut
<1>1. id \in 0..15
  BY <1>0, OutputAssumption
<1>2. /\ HostType /\ mode \in {"SKIP", "TRIM", "BLOCK"} /\ (mode # "TRIM" => ~host.esc)
      /\ _ActiveTerminal \in 0..15 /\ crossed \in BOOLEAN /\ missed \in BOOLEAN
  BY PrintfAssumption DEF TermInv, T!TypeOK, HostType
<1> DEFINE c1 == T!Select(id)[2]
           c3 == T!Back(id)[2]
<1>3. T!Select(id) = <<255, c1>> /\ c1 \in 0..255 /\ \A t : T!Named(c1, t) = id
  BY <1>1, SelectNames
<1>4. /\ T!Back(id) = <<255, c3>> /\ c3 \in 0..255
      /\ (id < 10 <=> _ActiveTerminal < 10) => \A t : T!Named(c3, t) = _ActiveTerminal
  BY <1>1, <1>2, BackNames
<1> HIDE DEF c1, c3
<1>5. PICK w1 \in T!Write(T!Select(id)), w2 \in T!Write(s), w3 \in T!Write(T!Back(id)) :
        /\ T!Received(w1 \o w2 \o w3)
        /\ T!Shows(id, w1 \o w2 \o w3, w1 = T!Select(id))
        /\ missed' = (missed \/ (w1 # <<>> /\ w3 # T!Back(id)))
  <2>1. T!Out(id, s)[1] = T!Select(id) /\ T!Out(id, s)[2] = s
    BY DEF T!Out
  <2> QED BY <2>1, Zenon DEF T!TerminalOut
<1>6. /\ crossed' = (crossed \/ (id < 10) # (_ActiveTerminal < 10))
      /\ UNCHANGED <<mode, _ActiveTerminal>>
  BY DEF T!TerminalOut
<1>7. w1 \in Seq(0..255) /\ w2 \in Seq(0..254) /\ w3 \in Seq(0..255)
  <2>1. T!Select(id) \in Seq(0..255) /\ T!Back(id) \in Seq(0..255)
    BY <1>3, <1>4, PairSeq
  <2>2. s \in Seq(0..254)
    BY OutputAssumption
  <2> QED BY <1>2, <2>1, <2>2, WriteSeq
<1> DEFINE bytes == w1 \o w2 \o w3
           h == T!HostReads(bytes)
<1>8. bytes \in Seq(Int)
  <2>1. 0..255 \subseteq Int /\ 0..254 \subseteq Int
    OBVIOUS
  <2>2. w1 \in Seq(Int) /\ w2 \in Seq(Int) /\ w3 \in Seq(Int)
    BY <1>7, <2>1, MoreElements
  <2> QED BY <2>2
<1> HIDE DEF bytes
<1>9. h \in HostSet
  BY <1>2, <1>8, HostReadsType
<1>10. /\ host' = [term |-> h.term, esc |-> h.esc]
       /\ shown' = [wanted |-> id, on |-> h.out, sure |-> w1 = T!Select(id)]
  BY <1>5 DEF T!Received, T!Shows, bytes
<1> DEFINE t == IF w1 = <<>> THEN host.term ELSE id
           t3 == IF w3 = <<>> THEN t ELSE T!Named(c3, t)
<1>11. mode # "TRIM" => /\ w1 = <<>> \/ w1 = <<255, c1>>
                        /\ w3 = <<>> \/ w3 = <<255, c3>>
                        /\ OutIs(h, t, t3)
  <2> SUFFICES ASSUME mode # "TRIM"
               PROVE  /\ w1 = <<>> \/ w1 = <<255, c1>>
                      /\ w3 = <<>> \/ w3 = <<255, c3>>
                      /\ OutIs(h, t, t3)
    OBVIOUS
  <2>1. (w1 = <<>> \/ w1 = <<255, c1>>) /\ (w3 = <<>> \/ w3 = <<255, c3>>)
    BY <1>2, <1>3, <1>4, WriteWhole
  <2>2. t = IF w1 = <<>> THEN host.term ELSE T!Named(c1, host.term)
    BY <1>3, Zenon
  <2>3. t3 = IF w3 = <<>> THEN t ELSE T!Named(c3, t)
    OBVIOUS
  <2> HIDE DEF t, t3
  <2>4. HostType /\ ~host.esc /\ c1 \in 0..255 /\ c3 \in 0..255 /\ w2 \in Seq(0..254)
    BY <1>2, <1>3, <1>4, <1>7
  <2>6. OutOf(c1, w1, w2, c3, w3, t, t3)
    BY <2>1, <2>2, <2>3, <2>4 DEF OutOf
  <2>5. OutIs(T!HostReads(w1 \o w2 \o w3), t, t3)
    BY <2>6, OutRead
  <2> QED BY <2>1, <2>5 DEF bytes
<1> HIDE DEF h
<1>12. shown' \in [wanted : 0..15, on : SUBSET (0..15), sure : BOOLEAN]
       /\ shown'.wanted = id /\ shown'.on = h.out /\ shown'.sure = (w1 = T!Select(id))
  <2>1. (w1 = T!Select(id)) \in BOOLEAN /\ h.out \in SUBSET (0..15)
    BY <1>9 DEF HostSet
  <2> QED BY <1>1, <1>10, <2>1
<1>13. <<255, c1>> # <<>> /\ <<255, c3>> # <<>>
  OBVIOUS
<1>14. mode # "TRIM" /\ shown'.sure => shown'.on \subseteq {shown'.wanted}
  BY <1>3, <1>11, <1>12, <1>13 DEF OutIs
<1>15. mode # "TRIM" /\ ~missed' /\ ~crossed' => h.term = _ActiveTerminal'
  <2> SUFFICES ASSUME mode # "TRIM", ~missed', ~crossed' PROVE h.term = _ActiveTerminal
    BY <1>6
  <2>1. /\ ~missed /\ ~crossed /\ (w1 = <<>> \/ w3 = T!Back(id))
        /\ (id < 10) = (_ActiveTerminal < 10)
    BY <1>5, <1>6, Zenon
  <2>2. host.term = _ActiveTerminal
    BY <2>1 DEF TermInv, T!HostFollows
  <2>3. \A u : T!Named(c3, u) = _ActiveTerminal
    BY <1>4, <2>1, Zenon
  <2>4. t3 = _ActiveTerminal
    BY <1>4, <1>11, <1>13, <2>1, <2>2, <2>3, Zenon
  <2> QED BY <1>11, <2>4, Zenon DEF OutIs
<1>16. mode # "TRIM" => ~h.esc
  BY <1>11 DEF OutIs
<1>17. /\ _ActiveTerminal' \in 0..15 /\ crossed' \in BOOLEAN /\ missed' \in BOOLEAN
       /\ UNCHANGED mode
  <2>1. (missed \/ (w1 # <<>> /\ w3 # T!Back(id))) \in BOOLEAN
        /\ (crossed \/ (id < 10) # (_ActiveTerminal < 10)) \in BOOLEAN
    BY Zenon
  <2> QED BY <1>2, <1>5, <1>6, <2>1, Zenon
<1> QED BY <1>9, <1>10, <1>12, <1>14, <1>15, <1>16, <1>17, TermKept

-----------------------------------------------------------------------------
(* Sequences of characters.                                                *)

(* A prefix is what stands in front of something.                          *)
LEMMA PrefixGives ==
  ASSUME NEW S, NEW a \in Seq(S), NEW b \in Seq(S), IsPrefix(a, b)
  PROVE  \E r \in Seq(S) : b = a \o r
<1> DEFINE r == SubSeq(b, Len(a) + 1, Len(b))
           c == a \o r
<1>1. Len(a) \in Nat /\ Len(b) \in Nat /\ Len(a) <= Len(b)
  BY DEF IsPrefix
<1>2. r \in Seq(S) /\ Len(r) = Len(b) - Len(a)
  BY <1>1
<1>3. ASSUME NEW i \in 1..Len(a) PROVE a[i] = b[i]
  <2>1. SubSeq(a, 1, Len(a))[i] = SubSeq(b, 1, Len(a))[i]
    BY DEF IsPrefix
  <2>2. SubSeq(a, 1, Len(a))[i] = a[i] /\ SubSeq(b, 1, Len(a))[i] = b[i]
    BY <1>1
  <2> QED BY <2>1, <2>2
<1>4. ASSUME NEW i \in 1..Len(r) PROVE r[i] = b[Len(a) + i]
  BY <1>1, <1>2
<1> HIDE DEF r
<1>5. c \in Seq(S) /\ Len(c) = Len(b)
  BY <1>1, <1>2
<1>6. ASSUME NEW i \in 1..Len(b) PROVE c[i] = b[i]
  <2>1. CASE i <= Len(a)
    BY <1>1, <1>2, <1>3, <2>1
  <2>2. CASE ~(i <= Len(a))
    <3>1. i - Len(a) \in 1..Len(r) /\ Len(a) + (i - Len(a)) = i
      BY <1>1, <1>2, <2>2
    <3>2. c[i] = r[i - Len(a)]
      BY <1>1, <1>2, <2>2
    <3> QED BY <1>4, <3>1, <3>2
  <2> QED BY <2>1, <2>2
<1> HIDE DEF c
<1>7. c = b
  BY <1>5, <1>6, SeqEqual
<1> QED BY <1>2, <1>7 DEF c

(* And the other way around.                                               *)
LEMMA PrefixOf ==
  ASSUME NEW S, NEW a \in Seq(S), NEW r \in Seq(S)
  PROVE  IsPrefix(a, a \o r)
<1>1. Len(a) \in Nat /\ Len(r) \in Nat /\ Len(a \o r) = Len(a) + Len(r)
      /\ a \o r \in Seq(S)
  OBVIOUS
<1>2. \A i \in 1..Len(a) : (a \o r)[i] = a[i]
  BY <1>1
<1> DEFINE c == a \o r
<1> HIDE DEF c
<1>3. c \in Seq(S) /\ Len(a) <= Len(c) /\ \A i \in 1..Len(a) : c[i] = a[i]
  BY <1>1, <1>2 DEF c
<1>4. SubSeq(a, 1, Len(a)) = SubSeq(c, 1, Len(a))
  BY <1>1, <1>3
<1> QED BY <1>3, <1>4 DEF IsPrefix, c

(* The first character of h goes from one sequence to the other.           *)
LEMMA TakeOne ==
  ASSUME NEW S, NEW u \in Seq(S), NEW h \in Seq(S), h # <<>>
  PROVE  /\ Head(h) \in S /\ Tail(h) \in Seq(S) /\ Append(u, Head(h)) \in Seq(S)
         /\ u \o h = Append(u, Head(h)) \o Tail(h)
<1>1. Len(h) \in Nat \ {0} /\ Head(h) \in S /\ Tail(h) \in Seq(S)
      /\ Len(Tail(h)) = Len(h) - 1 /\ Head(h) = h[1]
      /\ \A i \in 1..Len(Tail(h)) : Tail(h)[i] = h[i + 1]
  BY EmptySeq, HeadTailProperties
<1> DEFINE c == Head(h)
           t == Tail(h)
           a == Append(u, c)
<1>2. a \in Seq(S) /\ Len(a) = Len(u) + 1 /\ Len(u) \in Nat
      /\ a[Len(u) + 1] = c /\ \A i \in 1..Len(u) : a[i] = u[i]
  BY <1>1, AppendProperties
<1> HIDE DEF c, t, a
<1>3. c \in S /\ t \in Seq(S) /\ Len(t) = Len(h) - 1 /\ c = h[1]
      /\ \A i \in 1..Len(t) : t[i] = h[i + 1]
  BY <1>1 DEF c, t
<1> DEFINE l == u \o h
           r == a \o t
<1>4. l \in Seq(S) /\ r \in Seq(S) /\ Len(l) = Len(u) + Len(h) /\ Len(r) = Len(l)
  <2>1. l \in Seq(S) /\ Len(l) = Len(u) + Len(h)
    BY ConcatProperties
  <2>2. r \in Seq(S) /\ Len(r) = Len(a) + Len(t)
    BY <1>2, <1>3, ConcatProperties
  <2> QED BY <1>1, <1>2, <1>3, <2>1, <2>2
<1>5. ASSUME NEW i \in 1..Len(l) PROVE l[i] = r[i]
  <2>1. CASE i <= Len(u)
    BY <1>1, <1>2, <1>3, <1>4, <2>1
  <2>2. CASE i = Len(u) + 1
    BY <1>1, <1>2, <1>3, <1>4, <2>2
  <2>3. CASE i > Len(u) + 1
    <3>1. l[i] = h[i - Len(u)]
      BY <1>1, <1>2, <1>4, <2>3
    <3>2. r[i] = t[i - Len(u) - 1]
      BY <1>2, <1>3, <1>4, <2>3
    <3>3. i - Len(u) - 1 \in 1..Len(t) /\ (i - Len(u) - 1) + 1 = i - Len(u)
      BY <1>1, <1>2, <1>3, <1>4, <2>3
    <3> QED BY <1>3, <3>1, <3>2, <3>3
  <2> QED BY <1>2, <1>4, <2>1, <2>2, <2>3
<1> HIDE DEF l, r
<1>6. l = r
  BY <1>4, <1>5, SeqEqual
<1> QED BY <1>2, <1>3, <1>6 DEF l, r, c, t, a

(* A character put behind the second of two sequences.                     *)
LEMMA AppendBehind ==
  ASSUME NEW S, NEW u \in Seq(S), NEW b \in Seq(S), NEW c \in S
  PROVE  u \o Append(b, c) = Append(u \o b, c)
<1> DEFINE l == u \o Append(b, c)
           r == Append(u \o b, c)
<1>1. /\ l \in Seq(S) /\ r \in Seq(S) /\ Len(u) \in Nat /\ Len(b) \in Nat
      /\ Len(l) = Len(u) + Len(b) + 1 /\ Len(r) = Len(l)
  OBVIOUS
<1>2. ASSUME NEW i \in 1..Len(l) PROVE l[i] = r[i]
  BY <1>1
<1> HIDE DEF l, r
<1>3. l = r
  BY <1>1, <1>2, SeqEqual
<1> QED BY <1>3 DEF l, r

-----------------------------------------------------------------------------
(* The loops that print a number.                                          *)

(* Division, the two ways around.                                          *)
LEMMA DivMod ==
  ASSUME NEW a \in Nat, NEW b \in Nat \ {0}
  PROVE  a = b * (a \div b) + (a % b) /\ a % b \in 0..b - 1 /\ a \div b \in Nat
<1>1. a = b * (a \div b) + (a % b)
  OBVIOUS
<1>2. a % b \in 0..b - 1
  OBVIOUS
<1>3. a \div b \in Int /\ a \div b >= 0
  OBVIOUS
<1> QED BY <1>1, <1>2, <1>3

(* A number is divided when quotient and remainder are known.              *)
LEMMA DivIs ==
  ASSUME NEW b \in Nat \ {0}, NEW q \in Nat, NEW r \in 0..b - 1
  PROVE  (b * q + r) \div b = q /\ (b * q + r) % b = r
<1> DEFINE a == b * q + r
           p == a \div b
           s == a % b
<1>1. a \in Nat
  OBVIOUS
<1>2. a = b * p + s /\ s \in 0..b - 1 /\ p \in Nat
  BY <1>1, DivMod
<1>3. b * q + r = b * p + s
  BY <1>2
<1> HIDE DEF p, s
<1>4. ~(q < p)
  <2> SUFFICES ASSUME q < p PROVE FALSE
    OBVIOUS
  <2>1. p - q >= 1 /\ p - q \in Nat /\ b * (p - q) = b * p - b * q
    BY <1>2
  <2>2. b * (p - q) >= b
    BY <2>1
  <2> QED BY <1>2, <1>3, <2>1, <2>2
<1>5. ~(p < q)
  <2> SUFFICES ASSUME p < q PROVE FALSE
    OBVIOUS
  <2>1. q - p >= 1 /\ q - p \in Nat /\ b * (q - p) = b * q - b * p
    BY <1>2
  <2>2. b * (q - p) >= b
    BY <2>1
  <2> QED BY <1>2, <1>3, <2>1, <2>2
<1>6. p = q
  BY <1>2, <1>4, <1>5
<1>7. s = r
  BY <1>2, <1>3, <1>6
<1> QED BY <1>6, <1>7 DEF p, s

(* A quotient is small when the number is.                                 *)
LEMMA DivSmall ==
  ASSUME NEW a \in Nat, NEW b \in Nat \ {0}, NEW c \in Nat
  PROVE  a \div b < c <=> a < c * b
<1> DEFINE q == a \div b
           r == a % b
<1>1. a = b * q + r /\ r \in 0..b - 1 /\ q \in Nat
  BY DivMod
<1> HIDE DEF q, r
<1>2. ASSUME q < c PROVE a < c * b
  <2>1. c - q >= 1 /\ c - q \in Nat /\ b * (c - q) = b * c - b * q
    BY <1>1, <1>2
  <2>2. b * (c - q) >= b
    BY <2>1
  <2> QED BY <1>1, <2>1, <2>2
<1>3. ASSUME q >= c PROVE a >= c * b
  <2>1. q - c \in Nat /\ b * (q - c) = b * q - b * c
    BY <1>1, <1>3
  <2>2. b * (q - c) >= 0
    BY <2>1
  <2> QED BY <1>1, <2>1, <2>2
<1>4. q \in Int /\ a \in Int /\ c * b \in Int
  BY <1>1
<1> QED BY <1>2, <1>3, <1>4 DEF q

(* Dividing by b and then by c, and the remainders.                        *)
LEMMA DivDiv ==
  ASSUME NEW a \in Nat, NEW b \in Nat \ {0}, NEW c \in Nat \ {0}
  PROVE  /\ (a \div b) \div c = a \div (c * b)
         /\ (a % (c * b)) \div b = (a \div b) % c
         /\ (a % (c * b)) % b = a % b
<1> DEFINE q == a \div b
           r == a % b
           p == q \div c
           s == q % c
           m == c * b
           t == b * s + r
<1>1. a = b * q + r /\ r \in 0..b - 1 /\ q \in Nat
  BY DivMod
<1>2. q = c * p + s /\ s \in 0..c - 1 /\ p \in Nat
  <2> HIDE DEF q
  <2> QED BY <1>1, DivMod
<1> HIDE DEF q, r, p, s
<1>3. m \in Nat \ {0}
  OBVIOUS
<1>4. t \in 0..m - 1
  <2>1. b * s <= b * (c - 1)
    <3>1. (c - 1) - s \in Nat
      BY <1>2
    <3>2. b * ((c - 1) - s) >= 0
      BY <3>1
    <3> QED BY <1>2, <3>2
  <2>2. b * (c - 1) = m - b
    OBVIOUS
  <2>3. b * s >= 0 /\ b * s \in Int
    BY <1>2
  <2> QED BY <1>1, <1>3, <2>1, <2>2, <2>3
<1>5. a = m * p + t
  <2>1. b * (c * p + s) = (c * b) * p + b * s
    BY <1>2
  <2> QED BY <1>1, <1>2, <2>1
<1>6. a \div m = p /\ a % m = t
  <2> HIDE DEF m, t
  <2> QED BY <1>2, <1>3, <1>4, <1>5, DivIs
<1>7. t \div b = s /\ t % b = r
  BY <1>1, <1>2, DivIs
<1> HIDE DEF m, t
<1> QED BY <1>6, <1>7 DEF q, r, p, s, m

(* H takes its values from S if its recursion stays in S.                  *)
LEMMA RecursionStays ==
  ASSUME NEW S, NEW H, H[0] \in S, \A n \in Nat : H[n] \in S => H[n + 1] \in S
  PROVE  \A n \in Nat : H[n] \in S
<1> DEFINE U == {n \in Nat : H[n] \in S}
<1>1. 0 \in U /\ \A n \in U : n + 1 \in U
  OBVIOUS
<1>2. U = Nat
  <2> HIDE DEF U
  <2> QED BY <1>1, Induct DEF U
<1> QED BY <1>2

Unfolds(f, a, step) == \A n \in Nat : f[n] = IF n = 0 THEN a ELSE step[n][f[n - 1]]

(* A recursive function, in the form its definition has.                   *)
LEMMA Unfold ==
  ASSUME NEW S, NEW a \in S, NEW step \in [Nat -> [S -> S]]
  PROVE  \E f \in [Nat -> S] : Unfolds(f, a, step)
<1>1. PICK f \in [Nat -> S] : Solves(f, a, step)
  BY RecursionExists
<1>2. ASSUME NEW n \in Nat PROVE f[n] = IF n = 0 THEN a ELSE step[n][f[n - 1]]
  <2>1. CASE n = 0
    BY <1>1, <2>1 DEF Solves
  <2>2. CASE n # 0
    <3>1. n - 1 \in Nat /\ (n - 1) + 1 = n
      BY <2>2
    <3>2. f[(n - 1) + 1] = step[(n - 1) + 1][f[n - 1]]
      BY <1>1, <3>1 DEF Solves
    <3> QED BY <2>2, <3>1, <3>2
  <2> QED BY <2>1, <2>2
<1>3. Unfolds(f, a, step)
  BY <1>2 DEF Unfolds
<1> QED BY <1>3

(* The powers of Base.                                                     *)
LEMMA PowerIs ==
  ASSUME NEW Base \in Nat
  PROVE  /\ Power(Base)[0] = 1
         /\ \A k \in Nat : /\ Power(Base)[k] \in Nat
                           /\ Power(Base)[k + 1] = Base * Power(Base)[k]
<1> DEFINE step == [n \in Nat |-> [x \in Nat |-> Base * x]]
           Def(f) == [k \in Nat |-> IF k = 0 THEN 1 ELSE Base * f[k - 1]]
           H == Power(Base)
<1>1. step \in [Nat -> [Nat -> Nat]] /\ \A n \in Nat, x \in Nat : step[n][x] = Base * x
  OBVIOUS
<1> HIDE DEF step
<1>2. PICK f \in [Nat -> Nat] : Unfolds(f, 1, step)
  BY <1>1, Unfold
<1>3. \A n \in Nat : f[n] = IF n = 0 THEN 1 ELSE step[n][f[n - 1]]
  BY <1>2 DEF Unfolds
<1>4. f = Def(f)
  <2>1. \A n \in Nat : n # 0 => n - 1 \in Nat /\ f[n - 1] \in Nat
    OBVIOUS
  <2>2. \A n \in Nat : f[n] = IF n = 0 THEN 1 ELSE Base * f[n - 1]
    BY <1>1, <1>3, <2>1
  <2> QED BY <2>2
<1>5. H = Def(H)
  BY <1>4, Zenon DEF Power
<1> HIDE DEF H
<1>6. H[0] = 1 /\ \A n \in Nat : H[n + 1] = Base * H[n]
  <2>1. \A n \in Nat : H[n] = IF n = 0 THEN 1 ELSE Base * H[n - 1]
    BY <1>5, Zenon
  <2>2. \A n \in Nat : n + 1 \in Nat /\ n + 1 # 0 /\ (n + 1) - 1 = n
    OBVIOUS
  <2> QED BY <2>1, <2>2
<1>7. \A n \in Nat : H[n] \in Nat
  <2>1. \A n \in Nat : H[n] \in Nat => H[n + 1] \in Nat
    BY <1>6
  <2> QED BY <1>6, <2>1, RecursionStays
<1> QED BY <1>6, <1>7 DEF H

(* Digit in the loop that multiplies it.                                   *)
LEMMA RaisedIs ==
  ASSUME NEW Base \in Nat
  PROVE  /\ Raised(Base)[0] = 1
         /\ \A k \in Nat : /\ Raised(Base)[k] \in Nat
                           /\ Raised(Base)[k + 1] = (Raised(Base)[k] * Base) % Word
<1> DEFINE step == [n \in Nat |-> [x \in Nat |-> (x * Base) % Word]]
           Def(f) == [k \in Nat |-> IF k = 0 THEN 1 ELSE (f[k - 1] * Base) % Word]
           H == Raised(Base)
<1>1. \A x \in Nat : (x * Base) % Word \in Nat
  BY PrintfAssumption
<1>2. step \in [Nat -> [Nat -> Nat]]
      /\ \A n \in Nat, x \in Nat : step[n][x] = (x * Base) % Word
  BY <1>1
<1> HIDE DEF step
<1>3. PICK f \in [Nat -> Nat] : Unfolds(f, 1, step)
  BY <1>2, Unfold
<1>4. \A n \in Nat : f[n] = IF n = 0 THEN 1 ELSE step[n][f[n - 1]]
  BY <1>3 DEF Unfolds
<1>5. f = Def(f)
  <2>1. \A n \in Nat : n # 0 => n - 1 \in Nat /\ f[n - 1] \in Nat
    OBVIOUS
  <2>2. \A n \in Nat : f[n] = IF n = 0 THEN 1 ELSE (f[n - 1] * Base) % Word
    BY <1>2, <1>4, <2>1
  <2> QED BY <2>2
<1>6. H = Def(H)
  BY <1>5, Zenon DEF Raised
<1> HIDE DEF H
<1>7. H[0] = 1 /\ \A n \in Nat : H[n + 1] = (H[n] * Base) % Word
  <2>1. \A n \in Nat : H[n] = IF n = 0 THEN 1 ELSE (H[n - 1] * Base) % Word
    BY <1>6, Zenon
  <2>2. \A n \in Nat : n + 1 \in Nat /\ n + 1 # 0 /\ (n + 1) - 1 = n
    OBVIOUS
  <2> QED BY <2>1, <2>2
<1>8. \A n \in Nat : H[n] \in Nat
  <2>1. \A n \in Nat : H[n] \in Nat => H[n + 1] \in Nat
    BY <1>1, <1>7
  <2> QED BY <1>7, <2>1, RecursionStays
<1> QED BY <1>7, <1>8 DEF H

(* A number in the loops that divide it.                                   *)
LEMMA DividedIs ==
  ASSUME NEW v \in Nat, NEW Base \in Nat \ {0}
  PROVE  /\ Divided(v, Base)[0] = v
         /\ \A k \in Nat : /\ Divided(v, Base)[k] \in Nat
                           /\ Divided(v, Base)[k + 1] = Divided(v, Base)[k] \div Base
<1> DEFINE step == [n \in Nat |-> [x \in Nat |-> x \div Base]]
           Def(f) == [k \in Nat |-> IF k = 0 THEN v ELSE f[k - 1] \div Base]
           H == Divided(v, Base)
<1>1. \A x \in Nat : x \div Base \in Nat
  BY DivMod
<1>2. step \in [Nat -> [Nat -> Nat]]
      /\ \A n \in Nat, x \in Nat : step[n][x] = x \div Base
  BY <1>1
<1> HIDE DEF step
<1>3. PICK f \in [Nat -> Nat] : Unfolds(f, v, step)
  BY <1>2, Unfold
<1>4. \A n \in Nat : f[n] = IF n = 0 THEN v ELSE step[n][f[n - 1]]
  BY <1>3 DEF Unfolds
<1>5. f = Def(f)
  <2>1. \A n \in Nat : n # 0 => n - 1 \in Nat /\ f[n - 1] \in Nat
    OBVIOUS
  <2>2. \A n \in Nat : f[n] = IF n = 0 THEN v ELSE f[n - 1] \div Base
    BY <1>2, <1>4, <2>1
  <2> QED BY <2>2
<1>6. H = Def(H)
  BY <1>5, Zenon DEF Divided
<1> HIDE DEF H
<1>7. H[0] = v /\ \A n \in Nat : H[n + 1] = H[n] \div Base
  <2>1. \A n \in Nat : H[n] = IF n = 0 THEN v ELSE H[n - 1] \div Base
    BY <1>6, Zenon
  <2>2. \A n \in Nat : n + 1 \in Nat /\ n + 1 # 0 /\ (n + 1) - 1 = n
    OBVIOUS
  <2> QED BY <2>1, <2>2
<1>8. \A n \in Nat : H[n] \in Nat
  <2>1. \A n \in Nat : H[n] \in Nat => H[n + 1] \in Nat
    BY <1>1, <1>7
  <2> QED BY <1>7, <2>1, RecursionStays
<1> QED BY <1>7, <1>8 DEF H

(* What is left of v in the loop that stores its digits.                   *)
LEMMA RestIs ==
  ASSUME NEW v \in Nat, NEW d \in Nat, NEW Base \in Nat \ {0}
  PROVE  /\ Rest(v, d, Base)[0] = v
         /\ \A k \in Nat : /\ Rest(v, d, Base)[k] \in Nat
                           /\ Divided(d, Base)[k] # 0 =>
                                Rest(v, d, Base)[k + 1]
                                  = Rest(v, d, Base)[k] % Divided(d, Base)[k]
<1> DEFINE D == Divided(d, Base)
           next(n, x) == IF D[n - 1] = 0 THEN x ELSE x % D[n - 1]
           step == [n \in Nat |-> [x \in Nat |-> IF n = 0 THEN x ELSE next(n, x)]]
           Def(f) == [k \in Nat |-> IF k = 0 THEN v
                                    ELSE IF Divided(d, Base)[k - 1] = 0 THEN f[k - 1]
                                    ELSE f[k - 1] % Divided(d, Base)[k - 1]]
           H == Rest(v, d, Base)
<1>1. \A k \in Nat : D[k] \in Nat
  BY DividedIs
<1>2. \A n \in Nat : n # 0 => n - 1 \in Nat
  OBVIOUS
<1> HIDE DEF D
<1>3. \A n \in Nat, x \in Nat : n # 0 => next(n, x) \in Nat
  <2> SUFFICES ASSUME NEW n \in Nat, NEW x \in Nat, n # 0 PROVE next(n, x) \in Nat
    OBVIOUS
  <2>1. D[n - 1] \in Nat
    BY <1>1, <1>2
  <2> QED BY <2>1
<1>4. step \in [Nat -> [Nat -> Nat]]
      /\ \A n \in Nat, x \in Nat : n # 0 => step[n][x] = next(n, x)
  <2>1. \A n \in Nat, x \in Nat : (IF n = 0 THEN x ELSE next(n, x)) \in Nat
    BY <1>3
  <2> HIDE DEF next
  <2> QED BY <2>1
<1> HIDE DEF step
<1>5. PICK f \in [Nat -> Nat] : Unfolds(f, v, step)
  BY <1>4, Unfold
<1>6. \A n \in Nat : f[n] = IF n = 0 THEN v ELSE step[n][f[n - 1]]
  BY <1>5 DEF Unfolds
<1>7. f = Def(f)
  <2>1. ASSUME NEW n \in Nat PROVE f[n] = Def(f)[n]
    <3>1. CASE n = 0
      BY <1>6, <3>1
    <3>2. CASE n # 0
      <4>1. f[n - 1] \in Nat
        BY <1>2, <3>2
      <4>2. f[n] = next(n, f[n - 1])
        BY <1>4, <1>6, <3>2, <4>1
      <4> QED BY <3>2, <4>2 DEF D
    <3> QED BY <3>1, <3>2
  <2> QED BY <2>1
<1>8. H = Def(H)
  BY <1>7, Zenon DEF Rest
<1> HIDE DEF H
<1>9. H[0] = v /\ \A n \in Nat : H[n + 1] = IF D[n] = 0 THEN H[n] ELSE H[n] % D[n]
  <2>1. \A n \in Nat : H[n] = IF n = 0 THEN v ELSE IF D[n - 1] = 0 THEN H[n - 1]
                                                 ELSE H[n - 1] % D[n - 1]
    BY <1>8, Zenon DEF D
  <2>2. \A n \in Nat : n + 1 \in Nat /\ n + 1 # 0 /\ (n + 1) - 1 = n
    OBVIOUS
  <2> QED BY <2>1, <2>2
<1>10. \A n \in Nat : H[n] \in Nat
  <2>1. \A n \in Nat : H[n] \in Nat => H[n + 1] \in Nat
    BY <1>1, <1>9
  <2> QED BY <1>9, <2>1, RecursionStays
<1> QED BY <1>9, <1>10 DEF H, D

Bases == {10, 16}

(* Powers grow.                                                            *)
LEMMA PowerGrows ==
  ASSUME NEW Base \in Bases
  PROVE  \A k \in Nat : Power(Base)[k] \in Nat /\ Power(Base)[k] >= k + 1
<1> DEFINE H == Power(Base)
           U == {k \in Nat : H[k] >= k + 1}
<1>0. Base \in Nat /\ Base >= 10
  BY DEF Bases
<1>1. H[0] = 1 /\ \A k \in Nat : H[k] \in Nat /\ H[k + 1] = Base * H[k]
  BY <1>0, PowerIs
<1> HIDE DEF H
<1>2. 0 \in U
  BY <1>1
<1>3. ASSUME NEW k \in U PROVE k + 1 \in U
  <2>1. k \in Nat /\ H[k] >= k + 1 /\ H[k] \in Nat
    BY <1>1
  <2>2. H[k + 1] = 10 * H[k] \/ H[k + 1] = 16 * H[k]
    BY <1>1, <2>1 DEF Bases
  <2> QED BY <2>1, <2>2
<1>4. U = Nat
  <2> HIDE DEF U
  <2> QED BY <1>2, <1>3, Induct DEF U
<1> QED BY <1>1, <1>4 DEF H

(* A larger exponent gives no smaller power.                               *)
LEMMA PowerMonotone ==
  ASSUME NEW Base \in Bases, NEW j \in Nat, NEW k \in Nat, j <= k
  PROVE  Power(Base)[j] <= Power(Base)[k]
<1> DEFINE H == Power(Base)
           U == {m \in Nat : H[j] <= H[j + m]}
<1>0. Base \in Nat
  BY DEF Bases
<1>1. \A m \in Nat : H[m] \in Nat /\ H[m + 1] = Base * H[m]
  BY <1>0, PowerIs
<1> HIDE DEF H
<1>2. 0 \in U
  BY <1>1
<1>3. ASSUME NEW m \in U PROVE m + 1 \in U
  <2>1. m \in Nat /\ j + m \in Nat /\ (j + m) + 1 = j + (m + 1) /\ H[j] <= H[j + m]
    OBVIOUS
  <2>2. H[j + m] \in Nat /\ H[j] \in Nat
    BY <1>1, <2>1
  <2>3. H[j + (m + 1)] = 10 * H[j + m] \/ H[j + (m + 1)] = 16 * H[j + m]
    BY <1>1, <2>1 DEF Bases
  <2> QED BY <2>1, <2>2, <2>3
<1>4. U = Nat
  <2> HIDE DEF U
  <2> QED BY <1>2, <1>3, Induct DEF U
<1>5. k - j \in Nat /\ j + (k - j) = k
  OBVIOUS
<1> QED BY <1>4, <1>5 DEF H

(* A number that can be printed with a precision.                          *)
Fits(v, Base, NumDigits) ==
  /\ v \in Nat /\ v < Word /\ Base \in Bases /\ NumDigits \in Nat
  /\ NumDigits > 0 => Power(Base)[NumDigits - 1] < Word

Enough(k, v, Base, NumDigits) == v < Power(Base)[k] /\ k >= NumDigits

(* n digits are enough and no fewer.                                       *)
IsCount(n, v, Base, NumDigits) ==
  /\ n \in 1..Word /\ Enough(n, v, Base, NumDigits)
  /\ \A m \in 1..n - 1 : ~Enough(m, v, Base, NumDigits)

(* There is such a number of digits,                                       *)
LEMMA CountExists ==
  ASSUME NEW v, NEW Base, NEW NumDigits, Fits(v, Base, NumDigits)
  PROVE  \E n : IsCount(n, v, Base, NumDigits)
<1> DEFINE P == Power(Base)
           U == {k \in Nat : k >= 1 /\ Enough(k, v, Base, NumDigits)}
<1>1. v \in Nat /\ v < Word /\ NumDigits \in Nat /\ Base \in Bases /\ Word \in Nat \ {0}
  BY PrintfAssumption DEF Fits
<1>2. \A k \in Nat : P[k] \in Nat /\ P[k] >= k + 1
  BY <1>1, PowerGrows
<1>3. NumDigits <= Word
  <2>1. CASE NumDigits = 0
    BY <1>1, <2>1
  <2>2. CASE NumDigits > 0
    <3>1. NumDigits - 1 \in Nat /\ P[NumDigits - 1] < Word
      BY <1>1, <2>2 DEF Fits
    <3>2. P[NumDigits - 1] \in Nat /\ P[NumDigits - 1] >= (NumDigits - 1) + 1
      BY <1>2, <3>1
    <3> QED BY <1>1, <3>1, <3>2
  <2> QED BY <1>1, <2>1, <2>2
<1>4. P[Word] \in Nat /\ P[Word] >= Word + 1
  BY <1>1, <1>2
<1>5. Enough(Word, v, Base, NumDigits)
  BY <1>1, <1>3, <1>4 DEF Enough
<1>6. Word \in U /\ U \in SUBSET Nat
  BY <1>1, <1>5
<1> HIDE DEF U
<1>7. PICK n \in U : \A m \in U : n <= m
  BY <1>6, NatMin
<1>8. n \in 1..Word
  BY <1>1, <1>6, <1>7 DEF U
<1>9. ASSUME NEW m \in 1..n - 1 PROVE ~Enough(m, v, Base, NumDigits)
  <2>1. m \in Nat /\ m >= 1 /\ ~(n <= m)
    BY <1>8
  <2> QED BY <1>7, <2>1 DEF U
<1>10. IsCount(n, v, Base, NumDigits)
  BY <1>7, <1>8, <1>9 DEF IsCount, U
<1> QED BY <1>10

(* and only one.                                                           *)
LEMMA CountUnique ==
  ASSUME NEW v, NEW Base, NEW NumDigits, NEW n, NEW m,
         IsCount(n, v, Base, NumDigits), IsCount(m, v, Base, NumDigits)
  PROVE  n = m
<1>0. Word \in Nat
  BY PrintfAssumption
<1>1. n \in 1..Word /\ m \in 1..Word
  BY DEF IsCount
<1>2. ~(n < m)
  BY <1>0, <1>1 DEF IsCount
<1>3. ~(m < n)
  BY <1>0, <1>1 DEF IsCount
<1> QED BY <1>0, <1>1, <1>2, <1>3

(* The reference counts digits in this way.                                *)
LEMMA CountChosen ==
  ASSUME NEW v, NEW Base, NEW NumDigits, NEW n, IsCount(n, v, Base, NumDigits)
  PROVE  n = CHOOSE k \in 1..Word :
                 /\ v < Power(Base)[k] /\ k >= NumDigits
                 /\ \A m \in 1..k - 1 : ~(v < Power(Base)[m] /\ m >= NumDigits)
<1> DEFINE Is(k) == /\ v < Power(Base)[k] /\ k >= NumDigits
                    /\ \A m \in 1..k - 1 : ~(v < Power(Base)[m] /\ m >= NumDigits)
           c == CHOOSE k \in 1..Word : Is(k)
<1>1. \A k \in 1..Word : Is(k) <=> IsCount(k, v, Base, NumDigits)
  BY Zenon DEF IsCount, Enough
<1> HIDE DEF Is
<1>2. n \in 1..Word /\ Is(n)
  BY <1>1 DEF IsCount
<1>3. c \in 1..Word /\ Is(c)
  BY <1>2, Zenon
<1> HIDE DEF c
<1>4. IsCount(c, v, Base, NumDigits)
  BY <1>1, <1>3
<1>5. n = c
  BY <1>4, CountUnique
<1> QED BY <1>5 DEF c, Is

(* The largest power needed is a number of the machine.                    *)
LEMMA TopPower ==
  ASSUME NEW v, NEW Base, NEW NumDigits, NEW n,
         Fits(v, Base, NumDigits), IsCount(n, v, Base, NumDigits)
  PROVE  n - 1 \in Nat /\ Power(Base)[n - 1] < Word
<1>0. Word \in Nat /\ Word = Power(16)[PtrDigits] /\ PtrDigits \in Nat \ {0}
  BY PrintfAssumption
<1>1. n \in Nat /\ n >= 1 /\ n <= Word /\ v \in Nat /\ v < Word /\ NumDigits \in Nat
      /\ Base \in Bases
  BY <1>0 DEF IsCount, Fits
<1>2. n - 1 \in Nat /\ Power(Base)[n - 1] \in Nat
  BY <1>1, PowerGrows
<1>3. CASE n = 1
  <2>1. Power(Base)[0] = 1
    BY <1>1, PowerIs DEF Bases
  <2>2. Word >= PtrDigits + 1
    BY <1>0, PowerGrows DEF Bases
  <2>3. Word > 1 /\ n - 1 = 0
    BY <1>0, <1>3, <2>2
  <2> QED BY <1>2, <2>1, <2>3
<1>4. CASE n > 1
  <2>1. n - 1 \in 1..n - 1
    BY <1>1, <1>4
  <2>2. ~(v < Power(Base)[n - 1] /\ n - 1 >= NumDigits)
    BY <2>1 DEF IsCount, Enough
  <2>3. CASE ~(v < Power(Base)[n - 1])
    BY <1>0, <1>1, <1>2, <2>3
  <2>4. CASE ~(n - 1 >= NumDigits)
    <3>1. n >= NumDigits
      BY DEF IsCount, Enough
    <3>2. n = NumDigits /\ NumDigits > 0
      BY <1>1, <2>4, <3>1
    <3> QED BY <1>2, <3>2 DEF Fits
  <2> QED BY <2>2, <2>3, <2>4
<1> QED BY <1>1, <1>3, <1>4, <1>2

(* Until then Digit is that power, without overflow.                       *)
LEMMA RaisedRight ==
  ASSUME NEW Base \in Bases, NEW t \in Nat, Power(Base)[t] < Word
  PROVE  \A k \in 0..t : Raised(Base)[k] = Power(Base)[k]
<1> DEFINE P == Power(Base)
           R == Raised(Base)
           U == {k \in Nat : k <= t => R[k] = P[k]}
<1>0. Base \in Nat /\ Word \in Nat \ {0}
  BY PrintfAssumption DEF Bases
<1>1. /\ P[0] = 1 /\ R[0] = 1
      /\ \A k \in Nat : P[k] \in Nat /\ P[k + 1] = Base * P[k]
      /\ \A k \in Nat : R[k] \in Nat /\ R[k + 1] = (R[k] * Base) % Word
  BY <1>0, PowerIs, RaisedIs
<1>2. \A k \in 0..t : P[k] < Word
  <2>1. \A k \in 0..t : k \in Nat /\ k <= t
    OBVIOUS
  <2>2. \A k \in 0..t : P[k] <= P[t]
    BY <2>1, PowerMonotone
  <2> QED BY <1>0, <1>1, <2>1, <2>2
<1> HIDE DEF P, R
<1>3. 0 \in U
  BY <1>1
<1>4. ASSUME NEW k \in U PROVE k + 1 \in U
  <2>1. k \in Nat
    OBVIOUS
  <2>2. CASE k + 1 <= t
    <3>1. k + 1 \in 0..t /\ k <= t
      BY <2>1, <2>2
    <3>2. R[k + 1] = (P[k] * Base) % Word
      BY <1>1, <2>1, <3>1
    <3>3. P[k] * Base = P[k + 1] /\ P[k + 1] \in Nat /\ P[k + 1] < Word
      BY <1>0, <1>1, <1>2, <2>1, <3>1
    <3>4. P[k + 1] % Word = P[k + 1]
      BY <1>0, <3>3
    <3> QED BY <2>1, <3>2, <3>3, <3>4
  <2> QED BY <2>1, <2>2
<1>5. U = Nat
  <2> HIDE DEF U
  <2> QED BY <1>3, <1>4, Induct DEF U
<1> QED BY <1>5 DEF P, R

(* Dividing k times is dividing by the k-th power.                         *)
LEMMA DividedRight ==
  ASSUME NEW v \in Nat, NEW Base \in Bases
  PROVE  \A k \in Nat : Divided(v, Base)[k] = v \div Power(Base)[k]
<1> DEFINE P == Power(Base)
           D == Divided(v, Base)
           U == {k \in Nat : D[k] = v \div P[k]}
<1>0. Base \in Nat \ {0}
  BY DEF Bases
<1>1. P[0] = 1 /\ \A k \in Nat : P[k + 1] = Base * P[k]
  BY <1>0, PowerIs
<1>2. \A k \in Nat : P[k] \in Nat \ {0}
  <2>1. \A k \in Nat : P[k] \in Nat /\ P[k] >= k + 1
    BY PowerGrows
  <2> QED BY <2>1
<1>3. D[0] = v /\ \A k \in Nat : D[k + 1] = D[k] \div Base
  BY <1>0, DividedIs
<1> HIDE DEF P, D
<1>4. 0 \in U
  BY <1>1, <1>3
<1>5. ASSUME NEW k \in U PROVE k + 1 \in U
  <2>1. k \in Nat /\ D[k] = v \div P[k] /\ P[k] \in Nat \ {0}
    BY <1>2
  <2>2. (v \div P[k]) \div Base = v \div (Base * P[k])
    BY <1>0, <2>1, DivDiv
  <2> QED BY <1>1, <1>3, <2>1, <2>2
<1>6. U = Nat
  <2> HIDE DEF U
  <2> QED BY <1>4, <1>5, Induct DEF U
<1> QED BY <1>6 DEF P, D

(* A quotient below Base: one digit is left.                               *)
LEMMA OneDigit ==
  ASSUME NEW v \in Nat, NEW Base \in Bases, NEW k \in Nat
  PROVE  v \div Power(Base)[k] < Base <=> v < Power(Base)[k + 1]
<1>1. Power(Base)[k] \in Nat /\ Power(Base)[k] >= k + 1
  BY PowerGrows
<1>2. Power(Base)[k] \in Nat \ {0}
  BY <1>1
<1>3. Base \in Nat /\ Power(Base)[k + 1] = Base * Power(Base)[k]
  BY PowerIs DEF Bases
<1> QED BY <1>2, <1>3, DivSmall

(* The width that the code computes.                                       *)
LEMMA WidthRight ==
  ASSUME NEW v, NEW Base, NEW NumDigits, NEW n,
         Fits(v, Base, NumDigits), IsCount(n, v, Base, NumDigits)
  PROVE  WidthOf(v, Base, NumDigits) = n
<1> DEFINE P == Power(Base)
           Small(k) == Divided(v, Base)[k] < Base
           Is(k) == Small(k) /\ \A j \in 0..k - 1 : ~Small(j)
           U == {k \in Nat : Small(k)}
           c == CHOOSE k \in 0..v : Is(k)
           w == 1 + c
           m == IF NumDigits > w THEN NumDigits ELSE w
<1>1. v \in Nat /\ v < Word /\ NumDigits \in Nat /\ Base \in Bases /\ Word \in Nat
  BY PrintfAssumption DEF Fits
<1>2. \A k \in Nat : P[k] \in Nat /\ P[k] >= k + 1
  BY <1>1, PowerGrows
<1>3. \A k \in Nat : Small(k) <=> v < P[k + 1]
  <2>1. \A k \in Nat : Divided(v, Base)[k] = v \div P[k]
    BY <1>1, DividedRight
  <2>2. \A k \in Nat : v \div P[k] < Base <=> v < P[k + 1]
    BY <1>1, OneDigit
  <2> QED BY <2>1, <2>2
<1> HIDE DEF P, Small
<1>4. \E k \in 0..v : Is(k)
  <2>1. v \in U
    <3>1. v + 1 \in Nat /\ P[v + 1] \in Nat /\ P[v + 1] >= (v + 1) + 1
      BY <1>1, <1>2
    <3> QED BY <1>1, <1>3, <3>1
  <2>2. PICK k \in U : \A j \in U : k <= j
    <3>1. U \in SUBSET Nat
      OBVIOUS
    <3> HIDE DEF U
    <3> QED BY <2>1, <3>1, NatMin
  <2>3. k \in 0..v /\ Small(k)
    BY <1>1, <2>1, <2>2
  <2>4. \A j \in 0..k - 1 : ~Small(j)
    BY <2>2, <2>3
  <2> QED BY <2>3, <2>4
<1>5. c \in 0..v /\ Is(c)
  BY <1>4, Zenon
<1>6. WidthOf(v, Base, NumDigits) = m
  BY DEF WidthOf, Small
<1> HIDE DEF c
<1>7. c \in Nat /\ w \in Nat /\ w = c + 1 /\ c = w - 1 /\ w >= 1
  BY <1>1, <1>5
<1>8. v < P[w] /\ \A j \in 1..w - 1 : ~(v < P[j])
  <2>1. v < P[w]
    BY <1>3, <1>5, <1>7
  <2>2. ASSUME NEW j \in 1..w - 1 PROVE ~(v < P[j])
    <3>1. j - 1 \in 0..c - 1 /\ j - 1 \in Nat /\ (j - 1) + 1 = j
      BY <1>7
    <3>2. ~Small(j - 1)
      BY <1>5, <3>1
    <3> QED BY <1>3, <3>1, <3>2
  <2> QED BY <2>1, <2>2
<1> HIDE DEF w
<1>9. m \in Nat /\ m >= 1 /\ m >= w /\ m >= NumDigits
  BY <1>1, <1>7
<1>10. P[w] <= P[m]
  BY <1>1, <1>7, <1>9, PowerMonotone DEF P
<1>11. P[w] \in Nat /\ P[m] \in Nat
  BY <1>2, <1>7, <1>9
<1>12. Enough(m, v, Base, NumDigits)
  BY <1>1, <1>8, <1>9, <1>10, <1>11 DEF Enough, P
<1>13. ASSUME NEW j \in 1..m - 1 PROVE ~Enough(j, v, Base, NumDigits)
  <2>1. CASE NumDigits > w
    BY <1>1, <1>9, <2>1 DEF Enough
  <2>2. CASE ~(NumDigits > w)
    <3>1. j \in 1..w - 1
      BY <1>1, <1>7, <1>9, <2>2
    <3> QED BY <1>8, <3>1 DEF Enough, P
  <2> QED BY <2>1, <2>2
<1> HIDE DEF m
<1>14. n \in Nat /\ n >= 1 /\ n <= Word
  BY <1>1 DEF IsCount
<1>15. m <= n
  <2> SUFFICES ASSUME m > n PROVE FALSE
    BY <1>9, <1>14
  <2>1. n \in 1..m - 1
    BY <1>9, <1>14
  <2> QED BY <1>13, <2>1 DEF IsCount
<1>16. m \in 1..Word
  BY <1>1, <1>9, <1>14, <1>15
<1>17. IsCount(m, v, Base, NumDigits)
  BY <1>12, <1>13, <1>16 DEF IsCount
<1>18. n = m
  BY <1>17, CountUnique
<1> QED BY <1>6, <1>18

(* The rounds that the code makes.                                         *)
LEMMA RoundsRight ==
  ASSUME NEW v, NEW Base, NEW NumDigits, NEW n,
         Fits(v, Base, NumDigits), IsCount(n, v, Base, NumDigits)
  PROVE  Rounds(v, Base, NumDigits) = n - 1
<1> DEFINE P == Power(Base)
           R == Raised(Base)
           More(k) == v \div R[k] >= Base \/ NumDigits - k > 1
           Is(k) == ~More(k) /\ \A j \in 0..k - 1 : More(j)
           t == n - 1
           c == CHOOSE k \in 0..Word : Is(k)
<1>1. v \in Nat /\ v < Word /\ NumDigits \in Nat /\ Base \in Bases /\ Word \in Nat
  BY PrintfAssumption DEF Fits
<1>2. n \in Nat /\ n >= 1 /\ n <= Word
  BY <1>1 DEF IsCount
<1>3. t \in Nat /\ P[t] < Word
  BY TopPower
<1>4. \A k \in 0..t : R[k] = P[k]
  BY <1>1, <1>3, RaisedRight
<1>5. ASSUME NEW k \in 0..t PROVE ~More(k) <=> Enough(k + 1, v, Base, NumDigits)
  <2>1. k \in Nat
    BY <1>3
  <2>2. v \div P[k] < Base <=> v < P[k + 1]
    BY <1>1, <2>1, OneDigit
  <2>3. v \div P[k] \in Nat /\ Base \in Nat
    <3>1. P[k] \in Nat /\ P[k] >= k + 1
      BY <1>1, <2>1, PowerGrows
    <3>2. P[k] \in Nat \ {0}
      BY <2>1, <3>1
    <3>3. v \div P[k] \in Nat
      BY <1>1, <3>2, DivMod
    <3>4. Base \in Nat
      BY <1>1 DEF Bases
    <3> QED BY <3>3, <3>4
  <2>4. R[k] = P[k]
    BY <1>4
  <2>5. NumDigits - k > 1 <=> ~(k + 1 >= NumDigits)
    BY <1>1, <2>1
  <2> HIDE DEF P, R
  <2>6. v \div R[k] >= Base <=> ~(v < P[k + 1])
    BY <2>2, <2>3, <2>4
  <2> QED BY <2>5, <2>6 DEF Enough, P
<1> HIDE DEF More
<1>6. ~More(t)
  <2>1. t \in 0..t /\ t + 1 = n
    BY <1>2, <1>3
  <2> QED BY <1>5, <2>1 DEF IsCount
<1>7. ASSUME NEW j \in 0..t - 1 PROVE More(j)
  <2>1. j \in 0..t /\ j + 1 \in 1..n - 1
    BY <1>2, <1>3
  <2> QED BY <1>5, <2>1 DEF IsCount
<1>8. t \in 0..Word /\ Is(t)
  BY <1>1, <1>2, <1>3, <1>6, <1>7
<1>9. c \in 0..Word /\ Is(c)
  BY <1>8, Zenon
<1>10. Rounds(v, Base, NumDigits) = c
  BY DEF Rounds, More
<1> HIDE DEF c
<1>11. c \in Nat
  BY <1>1, <1>9
<1>12. ~(c < t)
  BY <1>3, <1>7, <1>9, <1>11
<1>13. ~(t < c)
  BY <1>3, <1>6, <1>9, <1>11
<1>14. c = t
  BY <1>3, <1>11, <1>12, <1>13
<1> QED BY <1>10, <1>14

(* Digit in the loop that stores digits: from a power down to 1, then 0.   *)
LEMMA PowersDown ==
  ASSUME NEW Base \in Bases, NEW t \in Nat
  PROVE  /\ \A k \in 0..t : Divided(Power(Base)[t], Base)[k] = Power(Base)[t - k]
         /\ Divided(Power(Base)[t], Base)[t + 1] = 0
<1> DEFINE P == Power(Base)
           D == Divided(Power(Base)[t], Base)
           U == {k \in Nat : k <= t => D[k] = P[t - k]}
<1>0. Base \in Nat \ {0}
  BY DEF Bases
<1>1. P[0] = 1 /\ \A k \in Nat : P[k] \in Nat /\ P[k + 1] = Base * P[k]
  BY <1>0, PowerIs
<1>2. D[0] = P[t] /\ \A k \in Nat : D[k + 1] = D[k] \div Base
  <2>1. Power(Base)[t] \in Nat
    BY <1>1
  <2> QED BY <1>0, <2>1, DividedIs
<1>3. \A x \in Nat : (Base * x) \div Base = x
  BY DEF Bases
<1> HIDE DEF P, D
<1>4. 0 \in U
  BY <1>2
<1>5. ASSUME NEW k \in U PROVE k + 1 \in U
  <2>1. k \in Nat
    OBVIOUS
  <2>2. CASE k + 1 <= t
    <3>1. t - (k + 1) \in Nat /\ (t - (k + 1)) + 1 = t - k /\ k <= t
      BY <2>1, <2>2
    <3>2. D[k + 1] = P[t - k] \div Base
      BY <1>2, <2>1, <3>1
    <3>3. P[t - k] = Base * P[t - (k + 1)] /\ P[t - (k + 1)] \in Nat
      BY <1>1, <3>1
    <3> QED BY <1>3, <2>1, <3>2, <3>3
  <2> QED BY <2>1, <2>2
<1>6. U = Nat
  <2> HIDE DEF U
  <2> QED BY <1>4, <1>5, Induct DEF U
<1>7. \A k \in 0..t : D[k] = P[t - k]
  BY <1>6
<1>8. D[t + 1] = 0
  <2>1. D[t] = 1
    <3>1. t \in 0..t /\ t - t = 0
      OBVIOUS
    <3> QED BY <1>1, <1>7, <3>1
  <2>2. 1 \div Base = 0
    BY DEF Bases
  <2> QED BY <1>2, <2>1, <2>2
<1> QED BY <1>7, <1>8 DEF P, D

(* What is left of v there.                                                *)
LEMMA RestRight ==
  ASSUME NEW v \in Nat, NEW Base \in Bases, NEW t \in Nat, v < Power(Base)[t + 1]
  PROVE  \A k \in 0..t : Rest(v, Power(Base)[t], Base)[k] = v % Power(Base)[(t - k) + 1]
<1> DEFINE P == Power(Base)
           D == Divided(Power(Base)[t], Base)
           R == Rest(v, Power(Base)[t], Base)
           U == {k \in Nat : k <= t => R[k] = v % P[(t - k) + 1]}
<1>0. Base \in Nat \ {0}
  BY DEF Bases
<1>1. \A k \in Nat : P[k] \in Nat \ {0}
  <2>1. \A k \in Nat : P[k] \in Nat /\ P[k] >= k + 1
    BY PowerGrows
  <2> QED BY <2>1
<1>2. \A k \in Nat : P[k + 1] = Base * P[k]
  BY <1>0, PowerIs
<1>3. R[0] = v /\ \A k \in Nat : D[k] # 0 => R[k + 1] = R[k] % D[k]
  <2>1. Power(Base)[t] \in Nat
    BY <1>1
  <2> QED BY <1>0, <2>1, RestIs
<1>4. \A k \in 0..t : D[k] = P[t - k]
  BY PowersDown
<1> HIDE DEF P, D, R
<1>5. 0 \in U
  <2>1. v % P[t + 1] = v
    BY <1>1 DEF P
  <2> QED BY <1>3, <2>1
<1>6. ASSUME NEW k \in U PROVE k + 1 \in U
  <2>1. k \in Nat
    OBVIOUS
  <2>2. CASE k + 1 <= t
    <3>1. /\ k <= t /\ k \in 0..t /\ t - k \in Nat
          /\ (t - (k + 1)) + 1 = t - k
      BY <2>1, <2>2
    <3>2. R[k] = v % P[(t - k) + 1] /\ D[k] = P[t - k] /\ P[t - k] \in Nat \ {0}
      BY <1>1, <1>4, <3>1
    <3>3. R[k + 1] = (v % P[(t - k) + 1]) % P[t - k]
      BY <1>3, <2>1, <3>2
    <3>4. P[(t - k) + 1] = Base * P[t - k]
      BY <1>2, <3>1
    <3>5. (v % (Base * P[t - k])) % P[t - k] = v % P[t - k]
      BY <1>0, <3>2, DivDiv
    <3> QED BY <2>1, <3>1, <3>3, <3>4, <3>5
  <2> QED BY <2>1, <2>2
<1>7. U = Nat
  <2> HIDE DEF U
  <2> QED BY <1>5, <1>6, Induct DEF U
<1> QED BY <1>7 DEF P, R

(* The digits the code stores are those of the number.                     *)
LEMMA DigitsRight ==
  ASSUME NEW v, NEW Base, NEW NumDigits, NEW n,
         Fits(v, Base, NumDigits), IsCount(n, v, Base, NumDigits)
  PROVE  DigitsOf(v, Base, NumDigits) = [i \in 1..n |-> DigitAt(v, Base, n - i)]
<1> DEFINE P == Power(Base)
           t == n - 1
           d == Raised(Base)[Rounds(v, Base, NumDigits)]
           Digit == Divided(d, Base)
           Ends(k) == Digit[k + 1] = 0 /\ \A j \in 1..k : Digit[j] # 0
           last == CHOOSE k \in 0..Word : Ends(k)
           Char(k) == Hex[Rest(v, d, Base)[k - 1] \div Digit[k - 1] + 1]
<1>1. v \in Nat /\ v < Word /\ Base \in Bases /\ Word \in Nat /\ Base \in Nat \ {0}
  BY PrintfAssumption DEF Fits, Bases
<1>2. n \in Nat /\ n >= 1 /\ n <= Word /\ v < P[n]
  BY <1>1 DEF IsCount, Enough
<1>3. t \in Nat /\ P[t] < Word /\ t \in 0..t /\ t + 1 = n
  BY <1>2, TopPower
<1>4. d = P[t]
  <2>1. \A k \in 0..t : Raised(Base)[k] = P[k]
    BY <1>1, <1>3, RaisedRight
  <2>2. Rounds(v, Base, NumDigits) = t
    BY RoundsRight
  <2> QED BY <1>3, <2>1, <2>2
<1>5. \A k \in Nat : P[k] \in Nat \ {0}
  <2>1. \A k \in Nat : P[k] \in Nat /\ P[k] >= k + 1
    BY <1>1, PowerGrows
  <2> QED BY <2>1
<1>6. /\ \A k \in 0..t : Digit[k] = P[t - k]
      /\ Digit[t + 1] = 0
  BY <1>1, <1>3, <1>4, PowersDown
<1>7. \A k \in 0..t : Rest(v, d, Base)[k] = v % P[(t - k) + 1]
  BY <1>1, <1>2, <1>3, <1>4, RestRight
<1>8. DigitsOf(v, Base, NumDigits) = [k \in 1..last + 1 |-> Char(k)]
  BY DEF DigitsOf
<1> HIDE DEF Digit, d
<1>9. \A k \in 0..t : Digit[k] # 0
  <2>1. \A k \in 0..t : t - k \in Nat
    BY <1>3
  <2> QED BY <1>5, <1>6, <2>1
<1>10. last = t
  <2>1. Ends(t)
    <3>1. \A j \in 1..t : j \in 0..t
      BY <1>3
    <3> QED BY <1>6, <1>9, <3>1
  <2>2. t \in 0..Word
    BY <1>1, <1>2, <1>3
  <2>3. last \in 0..Word /\ Ends(last)
    <3> HIDE DEF Ends
    <3> QED BY <2>1, <2>2, Zenon
  <2> HIDE DEF last
  <2>4. last \in Nat
    BY <1>1, <2>3
  <2>5. ~(last < t)
    <3> SUFFICES ASSUME last < t PROVE FALSE
      OBVIOUS
    <3>1. last + 1 \in 0..t
      BY <1>3, <2>4
    <3> QED BY <1>9, <2>3, <3>1
  <2>6. ~(t < last)
    <3> SUFFICES ASSUME t < last PROVE FALSE
      OBVIOUS
    <3>1. t + 1 \in 1..last
      BY <1>3, <2>4
    <3> QED BY <1>6, <2>3, <3>1
  <2> QED BY <1>3, <2>4, <2>5, <2>6
<1>11. ASSUME NEW i \in 1..n PROVE Char(i) = DigitAt(v, Base, n - i)
  <2>1. i - 1 \in 0..t /\ t - (i - 1) = n - i /\ n - i \in Nat
    BY <1>2, <1>3
  <2>2. Rest(v, d, Base)[i - 1] = v % P[(n - i) + 1] /\ Digit[i - 1] = P[n - i]
    BY <1>6, <1>7, <2>1
  <2>3. P[(n - i) + 1] = Base * P[n - i]
    BY <1>1, <2>1, PowerIs
  <2>4. P[n - i] \in Nat \ {0}
    BY <1>5, <2>1
  <2> HIDE DEF P
  <2>5. (v % (Base * P[n - i])) \div P[n - i] = (v \div P[n - i]) % Base
    BY <1>1, <2>4, DivDiv
  <2>6. Char(i) = Hex[((v \div P[n - i]) % Base) + 1]
    BY <2>2, <2>3, <2>5
  <2> QED BY <2>6 DEF DigitAt, P
<1> HIDE DEF Char, last
<1>12. last + 1 = n
  BY <1>3, <1>10
<1> QED BY <1>8, <1>11, <1>12

(* The characters that conversions add.                                    *)
LEMMA Alphabet ==
  {Hex[d] : d \in 1..16} \subseteq Characters /\ {" ", "-", "+", "%"} \subseteq Characters
<1>1. ASSUME NEW x \in {Hex[d] : d \in 1..16} PROVE x \in Characters
  BY DEF Characters
<1>2. ASSUME NEW x \in {" ", "-", "+", "%"} PROVE x \in Characters
  BY DEF Characters
<1> QED BY <1>1, <1>2

(* A digit is a character.                                                 *)
LEMMA DigitAtType ==
  ASSUME NEW v \in Nat, NEW Base \in Bases, NEW i \in Nat
  PROVE  DigitAt(v, Base, i) \in Characters
<1>1. Power(Base)[i] \in Nat /\ Power(Base)[i] >= i + 1
  BY PowerGrows
<1>2. Power(Base)[i] \in Nat \ {0}
  BY <1>1
<1>3. v \div Power(Base)[i] \in Nat
  BY <1>2, DivMod
<1> DEFINE q == v \div Power(Base)[i]
<1> HIDE DEF q
<1>4. q \in Nat
  BY <1>3 DEF q
<1>5. (q % Base) + 1 \in 1..16
  BY <1>4 DEF Bases
<1>6. Hex[(q % Base) + 1] \in {Hex[d] : d \in 1..16}
  BY <1>5
<1> QED BY <1>6, Alphabet DEF DigitAt, q

(* The digits of a number are characters.                                  *)
LEMMA DigitsType ==
  ASSUME NEW v \in Nat, NEW Base \in Bases, NEW n \in Nat
  PROVE  [i \in 1..n |-> DigitAt(v, Base, n - i)] \in Seq(Characters)
<1>1. \A i \in 1..n : n - i \in Nat
  OBVIOUS
<1>2. \A i \in 1..n : DigitAt(v, Base, n - i) \in Characters
  BY <1>1, DigitAtType
<1>3. [i \in 1..n |-> DigitAt(v, Base, n - i)] \in [1..n -> Characters]
  BY <1>2
<1> QED BY <1>3, SeqDef

-----------------------------------------------------------------------------
(* Signs and padding.                                                      *)
Pieces == [head : Seq(Characters), digits : Seq(Characters), tail : Seq(Characters)]

(* A job stores just the characters that a reference asks for.             *)
JobOk(j, reference) == j \in Pieces /\ reference = j.head \o j.digits \o j.tail

(* Padding is made of characters.                                          *)
LEMMA RepIs ==
  ASSUME NEW c \in Characters, NEW n \in Nat
  PROVE  Rep(c, n) \in Seq(Characters) /\ (n = 0 => Rep(c, n) = <<>>)
<1>1. Rep(c, n) \in [1..n -> Characters]
  BY DEF Rep
<1>2. Rep(c, n) \in Seq(Characters)
  BY <1>1, SeqDef
<1>3. ASSUME n = 0 PROVE Rep(c, n) = <<>>
  <2>1. Len(Rep(c, n)) = 0
    BY <1>1, <1>2, <1>3
  <2> QED BY <1>2, <2>1, EmptySeq
<1> QED BY <1>2, <1>3

(* The characters that number conversions add of their own.                *)
LEMMA Signs ==
  " " \in Characters /\ "0" \in Characters /\ "-" \in Characters /\ "+" \in Characters
<1>1. Hex[1] = "0" /\ 1 \in 1..16
  BY DEF Hex
<1>2. Hex[1] \in {Hex[d] : d \in 1..16}
  BY <1>1
<1> QED BY <1>1, <1>2, Alphabet

(* A character by itself.                                                  *)
LEMMA OneSeq ==
  ASSUME NEW S, NEW c \in S
  PROVE  <<c>> \in Seq(S) /\ Len(<<c>>) = 1 /\ <<c>> # <<>>
OBVIOUS

(* What the reference makes of sign, digits and padding.                   *)
Padded(sign, digits, pad, Flags, NumDigits) ==
  IF "-" \in Flags THEN sign \o digits \o Rep(" ", pad)
  ELSE IF "0" \in Flags /\ NumDigits = 0 THEN sign \o Rep("0", pad) \o digits
  ELSE Rep(" ", pad) \o sign \o digits

Digits(v, Base, n) == [i \in 1..n |-> DigitAt(v, Base, n - i)]

RefOf(sign, pad, n, v, Base, cv) ==
  /\ IsCount(n, v, Base, cv.NumDigits)
  /\ pad = IF cv.FieldWidth > n + Len(sign) THEN cv.FieldWidth - (n + Len(sign)) ELSE 0

(* The reference of a number.                                              *)
LEMMA RefIs ==
  ASSUME NEW v, NEW cv, NEW Base, NEW n, NEW sign, NEW pad,
         RefOf(sign, pad, n, v, Base, cv)
  PROVE  RefNumber(sign, v, Base, cv)
           = Padded(sign, Digits(v, Base, n), pad, cv.Flags, cv.NumDigits)
<1> DEFINE c == CHOOSE k \in 1..Word :
                 /\ v < Power(Base)[k] /\ k >= cv.NumDigits
                 /\ \A m \in 1..k - 1 : ~(v < Power(Base)[m] /\ m >= cv.NumDigits)
<1>1. n = c
  BY CountChosen DEF RefOf
<1>2. RefNumber(sign, v, Base, cv)
           = Padded(sign, Digits(v, Base, c),
                    IF cv.FieldWidth > c + Len(sign)
                      THEN cv.FieldWidth - (c + Len(sign)) ELSE 0,
                    cv.Flags, cv.NumDigits)
  BY Zenon DEF RefNumber, Padded, Digits
<1> HIDE DEF c
<1> QED BY <1>1, <1>2 DEF RefOf

(* The sign is at most one character.                                      *)
LEMMA SignType ==
  ASSUME NEW v, NEW Flags
  PROVE  /\ SignOf(v, Flags) \in Seq(Characters)
         /\ Len(SignOf(v, Flags))
              = IF SignOf(v, Flags) = <<>> THEN 0 ELSE 1
<1>1. /\ <<"-">> \in Seq(Characters) /\ Len(<<"-">>) = 1 /\ <<"-">> # <<>>
      /\ <<"+">> \in Seq(Characters) /\ Len(<<"+">>) = 1 /\ <<"+">> # <<>>
  BY Signs, OneSeq
<1>2. <<>> \in Seq(Characters) /\ Len(<<>>) = 0
  OBVIOUS
<1> DEFINE s == SignOf(v, Flags)
<1>3. s = <<"-">> \/ s = <<"+">> \/ s = <<>>
  BY Zenon DEF SignOf
<1> HIDE DEF s
<1>4. s \in Seq(Characters) /\ Len(s) = IF s = <<>> THEN 0 ELSE 1
  <2>1. CASE s = <<"-">>
    BY <1>1, <2>1
  <2>2. CASE s = <<"+">>
    BY <1>1, <2>2
  <2>3. CASE s = <<>>
    BY <1>2, <2>3
  <2> QED BY <1>3, <2>1, <2>2, <2>3
<1> QED BY <1>4 DEF s

Unsigned(u, digits, pad, Flags, NumDigits) ==
  /\ digits \in Seq(Characters) /\ pad \in Nat
  /\ u = [head |-> IF "-" \in Flags THEN <<>>
                   ELSE Rep(IF "0" \in Flags /\ NumDigits = 0 THEN "0" ELSE " ", pad),
          digits |-> digits,
          tail |-> IF "-" \in Flags THEN Rep(" ", pad) ELSE <<>>]

(* _PrintUnsigned(), for a number that needs n digits.                     *)
LEMMA UnsignedIs ==
  ASSUME NEW v, NEW Base, NEW NumDigits, NEW n, NEW FieldWidth \in Nat, NEW Flags,
         Fits(v, Base, NumDigits), IsCount(n, v, Base, NumDigits)
  PROVE  Unsigned(PrintUnsigned(v, Base, NumDigits, FieldWidth, Flags),
                  Digits(v, Base, n), Pads(FieldWidth, n), Flags, NumDigits)
<1>1. WidthOf(v, Base, NumDigits) = n
  BY WidthRight
<1>2. DigitsOf(v, Base, NumDigits) = Digits(v, Base, n)
  BY DigitsRight DEF Digits
<1>3. n \in Nat /\ v \in Nat /\ Base \in Bases
  BY PrintfAssumption DEF IsCount, Fits
<1>4. Digits(v, Base, n) \in Seq(Characters)
  BY <1>3, DigitsType DEF Digits
<1>5. Pads(FieldWidth, n) \in Nat
  BY <1>3 DEF Pads
<1> QED BY <1>1, <1>2, <1>4, <1>5, Zenon DEF PrintUnsigned, Unsigned

(* Nothing in front or behind.                                             *)
LEMMA Empties ==
  ASSUME NEW q \in Seq(Characters)
  PROVE  <<>> \o q = q /\ q \o <<>> = q
BY ConcatEmptySeq

(* %u, %x and %X.                                                          *)
LEMMA UnsignedRight ==
  ASSUME NEW v, NEW Base, NEW cv, cv.FieldWidth \in Nat, Fits(v, Base, cv.NumDigits)
  PROVE  JobOk(PrintUnsigned(v, Base, cv.NumDigits, cv.FieldWidth, cv.Flags),
               RefNumber(<<>>, v, Base, cv))
<1>1. PICK n : IsCount(n, v, Base, cv.NumDigits)
  BY CountExists
<1> DEFINE NumDigits == cv.NumDigits
           Flags == cv.Flags
           fw == cv.FieldWidth
           digits == Digits(v, Base, n)
           pad == Pads(fw, n)
           c == IF "0" \in Flags /\ NumDigits = 0 THEN "0" ELSE " "
           u == PrintUnsigned(v, Base, NumDigits, fw, Flags)
           ref == RefNumber(<<>>, v, Base, cv)
<1>a. Unsigned(u, digits, pad, Flags, NumDigits)
  BY <1>1, UnsignedIs
<1>2. /\ digits \in Seq(Characters) /\ pad \in Nat
      /\ u = [head |-> IF "-" \in Flags THEN <<>> ELSE Rep(c, pad),
              digits |-> digits,
              tail |-> IF "-" \in Flags THEN Rep(" ", pad) ELSE <<>>]
  BY <1>a, Zenon DEF Unsigned
<1>3. ref = Padded(<<>>, digits, pad, Flags, NumDigits)
  <2>2. n \in Nat
    BY <1>1, PrintfAssumption DEF IsCount
  <2>3. pad = IF fw > n + Len(<<>>) THEN fw - (n + Len(<<>>)) ELSE 0
    BY <2>2 DEF Pads
  <2> HIDE DEF pad
  <2>4. RefOf(<<>>, pad, n, v, Base, cv)
    BY <1>1, <2>3 DEF RefOf
  <2> QED BY <2>4, RefIs
<1>4. c \in Characters /\ " " \in Characters
  BY Signs
<1> HIDE DEF NumDigits, Flags, fw, digits, pad, u, ref
<1>5. /\ Rep(c, pad) \in Seq(Characters) /\ Rep(" ", pad) \in Seq(Characters)
      /\ <<>> \in Seq(Characters)
  BY <1>2, <1>4, RepIs
<1>6. u \in Pieces
  BY <1>2, <1>5 DEF Pieces
<1>7. ref = u.head \o u.digits \o u.tail
  <2>1. CASE "-" \in Flags
    <3>1. u.head = <<>> /\ u.digits = digits /\ u.tail = Rep(" ", pad)
      BY <1>2, <2>1
    <3>2. ref = <<>> \o digits \o Rep(" ", pad)
      BY <1>3, <2>1 DEF Padded
    <3> QED BY <3>1, <3>2
  <2>2. CASE "-" \notin Flags
    <3>1. u.head = Rep(c, pad) /\ u.digits = digits /\ u.tail = <<>>
      BY <1>2, <2>2
    <3>2. ref = Rep(c, pad) \o digits
      <4>1. ref = <<>> \o Rep(c, pad) \o digits \/ ref = Rep(c, pad) \o <<>> \o digits
        BY <1>3, <2>2, Zenon DEF Padded
      <4> HIDE DEF c
      <4>2. <<>> \o Rep(c, pad) = Rep(c, pad) /\ Rep(c, pad) \o <<>> = Rep(c, pad)
        BY <1>5, Empties
      <4> QED BY <4>1, <4>2
    <3> HIDE DEF c
    <3>3. Rep(c, pad) \o digits \in Seq(Characters)
      BY <1>2, <1>5, ConcatProperties
    <3>4. (Rep(c, pad) \o digits) \o <<>> = Rep(c, pad) \o digits
      BY <3>3, Empties
    <3> QED BY <3>1, <3>2, <3>4
  <2> QED BY <2>1, <2>2
<1> QED BY <1>6, <1>7 DEF JobOk, u, ref, NumDigits, Flags, fw

(* %d.                                                                     *)
LEMMA IntRight ==
  ASSUME NEW v \in Int, NEW a, a = (IF v < 0 THEN -v ELSE v), NEW Base, NEW cv,
         cv.FieldWidth \in Nat, Fits(a, Base, cv.NumDigits)
  PROVE  JobOk(PrintInt(v, Base, cv.NumDigits, cv.FieldWidth, cv.Flags),
               RefNumber(SignOf(v, cv.Flags), a, Base, cv))
<1>1. PICK n : IsCount(n, a, Base, cv.NumDigits)
  BY CountExists
<1> DEFINE NumDigits == cv.NumDigits
           Flags == cv.Flags
           FieldWidth == cv.FieldWidth
           Number == IF v < 0 THEN (-v) % Word ELSE v
           Width == WidthOf(Number, Base, NumDigits)
           sign == IF v < 0 THEN <<"-">> ELSE IF "+" \in Flags THEN <<"+">> ELSE <<>>
           fw1 == IF FieldWidth > 0 /\ sign # <<>> THEN FieldWidth - 1 ELSE FieldWidth
           spaces == ("0" \notin Flags \/ NumDigits # 0) /\ "-" \notin Flags
           fw2 == IF spaces THEN PadsLeave(fw1, Width) ELSE fw1
           zeros == "0" \in Flags /\ "-" \notin Flags /\ NumDigits = 0
           fw3 == IF zeros THEN PadsLeave(fw2, Width) ELSE fw2
           u == PrintUnsigned(Number, Base, NumDigits, fw3, Flags)
           front == (IF spaces THEN Rep(" ", Pads(fw1, Width)) ELSE <<>>)
                      \o sign
                      \o (IF zeros THEN Rep("0", Pads(fw2, Width)) ELSE <<>>)
           j == PrintInt(v, Base, NumDigits, FieldWidth, Flags)
           ref == RefNumber(SignOf(v, cv.Flags), a, Base, cv)
           digits == Digits(a, Base, n)
           pad == Pads(fw1, n)
<1>2. j = [u EXCEPT !.head = front \o u.head]
  BY Zenon DEF PrintInt
<1>3. /\ a \in Nat /\ a < Word /\ Word \in Nat \ {0} /\ NumDigits \in Nat
      /\ n \in Nat /\ n >= 1
  BY <1>1, PrintfAssumption DEF Fits, IsCount
<1>4. Number = a
  <2>1. a % Word = a
    BY <1>3
  <2> QED BY <2>1
<1>5. Width = n
  BY <1>1, <1>4, WidthRight
<1>6. sign = SignOf(v, Flags)
  BY Zenon DEF SignOf
<1>7. sign \in Seq(Characters) /\ Len(sign) = IF sign = <<>> THEN 0 ELSE 1
  BY <1>6, SignType
<1> HIDE DEF sign
<1>8. fw1 \in Nat /\ pad \in Nat
  BY <1>3 DEF Pads
<1>9. pad = IF FieldWidth > n + Len(sign) THEN FieldWidth - (n + Len(sign)) ELSE 0
  BY <1>3, <1>7, <1>8 DEF Pads
<1>10. ref = Padded(sign, digits, pad, Flags, NumDigits)
  <2> HIDE DEF pad
  <2>1. RefOf(sign, pad, n, a, Base, cv)
    BY <1>1, <1>9 DEF RefOf
  <2>2. ref = RefNumber(sign, a, Base, cv)
    BY <1>6
  <2> QED BY <2>1, <2>2, RefIs
<1> HIDE DEF fw1
<1>11. PadsLeave(fw1, n) \in Nat /\ Pads(PadsLeave(fw1, n), n) = 0
  BY <1>3, <1>8 DEF PadsLeave, Pads
<1> HIDE DEF Width, Number, j, ref
<1>12. /\ ~(spaces /\ zeros) /\ ("-" \in Flags <=> ~spaces /\ ~zeros)
       /\ zeros <=> "-" \notin Flags /\ "0" \in Flags /\ NumDigits = 0
  OBVIOUS
<1> HIDE DEF spaces, zeros
<1>13. /\ fw3 \in Nat
       /\ Pads(fw3, n) = IF spaces \/ zeros THEN 0 ELSE pad
       /\ zeros => fw2 = fw1
  BY <1>3, <1>5, <1>8, <1>11, <1>12
<1> HIDE DEF fw3, fw2, pad
<1>14. Unsigned(u, digits, Pads(fw3, n), Flags, NumDigits)
  BY <1>1, <1>4, <1>13, UnsignedIs
<1> HIDE DEF u, digits
<1>15. /\ digits \in Seq(Characters) /\ Rep(" ", pad) \in Seq(Characters)
       /\ Rep("0", pad) \in Seq(Characters) /\ <<>> \in Seq(Characters)
       /\ Rep(" ", 0) = <<>> /\ Rep("0", 0) = <<>>
  <2>1. digits \in Seq(Characters)
    BY <1>14 DEF Unsigned
  <2> QED BY <1>8, <2>1, Signs, RepIs
<1>16. u \in Pieces /\ u.digits = digits
       /\ u.head = <<>>
       /\ u.tail = IF "-" \in Flags THEN Rep(" ", pad) ELSE <<>>
  <2>1. CASE "-" \in Flags
    <3>1. u = [head |-> <<>>, digits |-> digits, tail |-> Rep(" ", pad)]
      BY <1>12, <1>13, <1>14, <2>1 DEF Unsigned
    <3> QED BY <1>15, <2>1, <3>1 DEF Pieces
  <2>2. CASE "-" \notin Flags
    <3>1. Pads(fw3, n) = 0
      BY <1>12, <1>13, <2>2
    <3>2. \/ u = [head |-> Rep(" ", 0), digits |-> digits, tail |-> <<>>]
          \/ u = [head |-> Rep("0", 0), digits |-> digits, tail |-> <<>>]
      BY <1>14, <2>2, <3>1, Zenon DEF Unsigned
    <3>3. u = [head |-> <<>>, digits |-> digits, tail |-> <<>>]
      BY <1>15, <3>2
    <3> QED BY <1>15, <2>2, <3>3 DEF Pieces
  <2> QED BY <2>1, <2>2
<1>17. /\ "-" \in Flags => front = sign
       /\ spaces => front = Rep(" ", pad) \o sign
       /\ zeros => front = sign \o Rep("0", pad)
  <2>1. CASE "-" \in Flags
    <3>1. front = <<>> \o sign \o <<>> /\ ~spaces /\ ~zeros
      BY <1>12, <2>1
    <3>2. <<>> \o sign = sign /\ sign \o <<>> = sign
      BY <1>7, Empties
    <3> QED BY <3>1, <3>2
  <2>2. CASE spaces
    <3>1. front = Rep(" ", pad) \o sign \o <<>> /\ ~zeros /\ "-" \notin Flags
      BY <1>5, <1>12, <2>2 DEF pad
    <3>2. Rep(" ", pad) \o sign \in Seq(Characters)
      BY <1>7, <1>15, ConcatProperties
    <3>3. Rep(" ", pad) \o sign \o <<>> = Rep(" ", pad) \o sign
      BY <3>2, Empties
    <3> QED BY <3>1, <3>3
  <2>3. CASE zeros
    <3>1. front = <<>> \o sign \o Rep("0", pad) /\ ~spaces /\ "-" \notin Flags
      BY <1>5, <1>12, <1>13, <2>3 DEF pad
    <3>2. <<>> \o sign = sign
      BY <1>7, Empties
    <3> QED BY <3>1, <3>2
  <2> QED BY <1>12, <2>1, <2>2, <2>3
<1> HIDE DEF front
<1>18. front \in Seq(Characters)
  <2>1. /\ Rep(" ", pad) \o sign \in Seq(Characters)
        /\ sign \o Rep("0", pad) \in Seq(Characters)
    BY <1>7, <1>15, ConcatProperties
  <2> QED BY <1>7, <1>12, <1>17, <2>1
<1>19. front \o u.head = front
  BY <1>16, <1>18, Empties
<1>20. j \in Pieces /\ j.head = front /\ j.digits = digits /\ j.tail = u.tail
  BY <1>2, <1>16, <1>18, <1>19 DEF Pieces
<1>21. ref = j.head \o j.digits \o j.tail
  <2>1. CASE "-" \in Flags
    <3>1. ref = sign \o digits \o Rep(" ", pad)
      BY <1>10, <2>1 DEF Padded
    <3> QED BY <1>16, <1>17, <1>20, <2>1, <3>1
  <2>2. CASE "-" \notin Flags
    <3>1. front \o digits \in Seq(Characters)
      BY <1>15, <1>18, ConcatProperties
    <3>2. (front \o digits) \o <<>> = front \o digits
      BY <3>1, Empties
    <3>3. ref = front \o digits
      <4>1. CASE zeros
        <5>1. ref = sign \o Rep("0", pad) \o digits
          BY <1>10, <1>12, <2>2, <4>1 DEF Padded
        <5> QED BY <1>17, <4>1, <5>1
      <4>2. CASE ~zeros
        <5>1. ref = Rep(" ", pad) \o sign \o digits
          BY <1>10, <1>12, <2>2, <4>2 DEF Padded
        <5> QED BY <1>12, <1>17, <2>2, <4>2, <5>1
      <4> QED BY <4>1, <4>2
    <3> QED BY <1>16, <1>20, <2>2, <3>2, <3>3
  <2> QED BY <2>1, <2>2
<1> QED BY <1>20, <1>21 DEF JobOk, j, ref

(* %p.                                                                     *)
LEMMA PointerRight ==
  ASSUME NEW v \in Nat, v < Word
  PROVE  JobOk(PrintUnsigned(v, 16, PtrDigits, PtrDigits, {}), RefPointer(v))
<1> DEFINE n == PtrDigits
           P == Power(16)
<1>1. /\ Word \in Nat \ {0} /\ n \in Nat \ {0} /\ Word = P[n]
      /\ n - 1 \in Nat /\ (n - 1) + 1 = n
  BY PrintfAssumption
<1>2. P[n] = 16 * P[n - 1] /\ P[n - 1] \in Nat
  BY <1>1, PowerIs
<1>3. P[n] >= n + 1 /\ P[n] \in Nat
  BY <1>1, PowerGrows DEF Bases
<1>4. Fits(v, 16, n)
  BY <1>1, <1>2, <1>3 DEF Fits, Bases
<1>5. IsCount(n, v, 16, n)
  <2>1. n \in 1..Word
    BY <1>1, <1>3
  <2>2. Enough(n, v, 16, n)
    BY <1>1 DEF Enough
  <2>3. \A m \in 1..n - 1 : ~Enough(m, v, 16, n)
    BY <1>1 DEF Enough
  <2> QED BY <2>1, <2>2, <2>3 DEF IsCount
<1> DEFINE u == PrintUnsigned(v, 16, n, n, {})
           digits == Digits(v, 16, n)
<1>6. Unsigned(u, digits, Pads(n, n), {}, n)
  BY <1>1, <1>4, <1>5, UnsignedIs
<1>7. Pads(n, n) = 0
  BY <1>1 DEF Pads
<1>8. RefPointer(v) = digits
  BY DEF RefPointer, Digits
<1> HIDE DEF u, digits
<1>9. Rep(" ", 0) = <<>> /\ <<>> \in Seq(Characters)
  BY Signs, RepIs
<1>10. digits \in Seq(Characters)
       /\ u = [head |-> <<>>, digits |-> digits, tail |-> <<>>]
  <2>1. "-" \notin {} /\ "0" \notin {}
    OBVIOUS
  <2>2. digits \in Seq(Characters)
        /\ u = [head |-> Rep(" ", 0), digits |-> digits, tail |-> <<>>]
    BY <1>6, <1>7, <2>1, Zenon DEF Unsigned
  <2> QED BY <1>9, <2>2
<1>11. <<>> \o digits \o <<>> = digits
  <2>1. <<>> \o digits = digits /\ digits \o <<>> = digits
    BY <1>10, Empties
  <2> QED BY <2>1
<1>12. JobOk(u, digits)
  BY <1>9, <1>10, <1>11 DEF JobOk, Pieces
<1> QED BY <1>8, <1>12 DEF u

(* What is printed of a number.                                            *)
LEMMA NumberRight ==
  ASSUME NEW cv, NEW v \in Ints, cv.spec \in NumberSpecs,
         cv.FieldWidth \in Nat, cv.NumDigits \in Nat,
         cv.NumDigits > 0 => Power(BaseOf(cv))[cv.NumDigits - 1] < Word
  PROVE  JobOk(NumberJob(cv, v), NumberRef(cv, v))
<1>1. v \in Int /\ -Word <= 2 * v /\ 2 * v < Word /\ Word \in Nat \ {0}
  BY PrintfAssumption
<1>2. BaseOf(cv) \in Bases
  BY DEF BaseOf, Bases
<1>3. v % Word \in Nat /\ v % Word < Word
  BY <1>1
<1>4. CASE cv.spec = "d"
  <2> DEFINE a == IF v < 0 THEN -v ELSE v
  <2>1. a \in Nat /\ a < Word
    BY <1>1
  <2>2. Fits(a, BaseOf(cv), cv.NumDigits)
    BY <1>2, <2>1 DEF Fits
  <2>3. JobOk(PrintInt(v, BaseOf(cv), cv.NumDigits, cv.FieldWidth, cv.Flags),
              RefNumber(SignOf(v, cv.Flags), a, BaseOf(cv), cv))
    <3> HIDE DEF a
    <3>1. a = IF v < 0 THEN -v ELSE v
      BY DEF a
    <3> QED BY <1>1, <2>2, <3>1, IntRight
  <2> QED BY <1>4, <2>3 DEF NumberJob, NumberRef
<1>5. CASE cv.spec = "p"
  <2>1. JobOk(PrintUnsigned(v % Word, 16, PtrDigits, PtrDigits, {}), RefPointer(v % Word))
    BY <1>3, PointerRight
  <2>2. BaseOf(cv) = 16 /\ cv.spec # "d"
    BY <1>5 DEF BaseOf
  <2> QED BY <1>5, <2>1, <2>2 DEF NumberJob, NumberRef
<1>6. CASE cv.spec \notin {"d", "p"}
  <2>1. Fits(v % Word, BaseOf(cv), cv.NumDigits)
    BY <1>2, <1>3 DEF Fits
  <2>2. JobOk(PrintUnsigned(v % Word, BaseOf(cv), cv.NumDigits, cv.FieldWidth, cv.Flags),
              RefNumber(<<>>, v % Word, BaseOf(cv), cv))
    BY <2>1, UnsignedRight
  <2>3. cv.spec # "d" /\ cv.spec # "p"
    BY <1>6
  <2> QED BY <2>2, <2>3, Zenon DEF NumberJob, NumberRef
<1> QED BY <1>4, <1>5, <1>6

-----------------------------------------------------------------------------
(* The conversion specification.                                           *)

(* A format, whose last character ends every search.                       *)
LEMMA SkipStays ==
  ASSUME NEW f, Len(f) \in Nat, NEW i \in Nat, i <= Len(f), NEW S, f[Len(f)] \notin S
  PROVE  Skip(f, i, S) \in i..Len(f)
<1> DEFINE Is(j) == f[j] \notin S /\ \A k \in i..j - 1 : f[k] \in S
           U == {j \in Nat : i <= j /\ j <= Len(f) /\ f[j] \notin S}
<1>1. Len(f) \in U /\ U \in SUBSET Nat
  OBVIOUS
<1>2. PICK j \in U : \A k \in U : j <= k
  <2> HIDE DEF U
  <2> QED BY <1>1, NatMin
<1>3. j \in i..Len(f) /\ f[j] \notin S
  BY <1>2
<1>4. ASSUME NEW k \in i..j - 1 PROVE f[k] \in S
  <2>1. k \in Nat /\ i <= k /\ k <= Len(f) /\ ~(j <= k)
    BY <1>3
  <2> QED BY <1>2, <2>1
<1>5. Is(j)
  BY <1>3, <1>4
<1> HIDE DEF Is
<1>6. (CHOOSE k \in i..Len(f) : Is(k)) \in i..Len(f)
  BY <1>3, <1>5, Zenon
<1> QED BY <1>6 DEF Skip, Is

(* A number in a format.                                                   *)
LEMMA NumberAtType ==
  ASSUME NEW f, NEW i \in Nat, NEW j \in Nat, i <= j
  PROVE  NumberAt(f, i, j) \in Nat
<1> DEFINE V(k) == DigitValue(f[i + k - 1])
           step == [n \in Nat |-> [x \in Nat |-> 10 * x + V(n)]]
           Def(g) == [k \in Nat |-> IF k = 0 THEN 0
                                    ELSE 10 * g[k - 1] + DigitValue(f[i + k - 1])]
           H == CHOOSE g : g = Def(g)
<1>1. \A k : V(k) \in Nat
  <2>1. ASSUME NEW c PROVE DigitValue(c) \in Nat
    <3>1. CASE c \in DigitChars
      <4>1. PICK d \in 1..10 : c = Hex[d]
        BY <3>1 DEF DigitChars
      <4>2. d - 1 \in 0..9 /\ (d - 1) + 1 = d
        OBVIOUS
      <4>3. \E e \in 0..9 : Hex[e + 1] = c
        BY <4>1, <4>2
      <4>4. (CHOOSE e \in 0..9 : Hex[e + 1] = c) \in 0..9
        BY <4>3, Zenon
      <4>5. DigitValue(c) = CHOOSE e \in 0..9 : Hex[e + 1] = c
        BY <3>1, Zenon DEF DigitValue
      <4>6. DigitValue(c) \in 0..9
        BY <4>4, <4>5, Zenon
      <4> QED BY <4>6
    <3>2. CASE c \notin DigitChars
      <4>1. DigitValue(c) = 0
        BY <3>2, Zenon DEF DigitValue
      <4> QED BY <4>1
    <3> QED BY <3>1, <3>2
  <2> QED BY <2>1
<1> HIDE DEF V
<1>2. step \in [Nat -> [Nat -> Nat]]
      /\ \A n \in Nat, x \in Nat : step[n][x] = 10 * x + V(n)
  BY <1>1
<1> HIDE DEF step
<1>3. PICK g \in [Nat -> Nat] : Unfolds(g, 0, step)
  BY <1>2, Unfold
<1>4. \A n \in Nat : g[n] = IF n = 0 THEN 0 ELSE step[n][g[n - 1]]
  BY <1>3 DEF Unfolds
<1>5. g = Def(g)
  <2>1. \A n \in Nat : n # 0 => n - 1 \in Nat /\ g[n - 1] \in Nat
    OBVIOUS
  <2>2. \A n \in Nat : g[n] = IF n = 0 THEN 0 ELSE 10 * g[n - 1] + V(n)
    BY <1>2, <1>4, <2>1
  <2> QED BY <2>2 DEF V
<1>6. H = Def(H)
  BY <1>5, Zenon
<1>7. NumberAt(f, i, j) = H[j - i]
  BY Zenon DEF NumberAt
<1> HIDE DEF H
<1>8. H[0] = 0 /\ \A n \in Nat : H[n + 1] = 10 * H[n] + V(n + 1)
  <2>1. \A n \in Nat : H[n] = IF n = 0 THEN 0 ELSE 10 * H[n - 1] + V(n)
    BY <1>6, Zenon DEF V
  <2>2. \A n \in Nat : n + 1 \in Nat /\ n + 1 # 0 /\ (n + 1) - 1 = n
    OBVIOUS
  <2> QED BY <2>1, <2>2
<1>9. \A n \in Nat : H[n] \in Nat
  <2>1. \A n \in Nat : H[n] \in Nat => H[n + 1] \in Nat
    BY <1>1, <1>8
  <2> QED BY <1>8, <2>1, RecursionStays
<1> QED BY <1>7, <1>9

(* Field width and precision.                                              *)
LEMMA ConversionType ==
  ASSUME NEW f, Len(f) \in Nat, f[Len(f)] = "NUL", NEW i \in Nat, i <= Len(f)
  PROVE  Conversion(f, i).FieldWidth \in Nat /\ Conversion(f, i).NumDigits \in Nat
<1> DEFINE width == Skip(f, i, {"-", "0", "+", "#"})
           dot == Skip(f, width, DigitChars)
           len == IF f[dot] = "." THEN Skip(f, dot + 1, DigitChars) ELSE dot
<1>1. f[Len(f)] \notin {"-", "0", "+", "#"} /\ f[Len(f)] \notin DigitChars
  <2>1. "NUL" \notin DigitChars
    <3>1. \A d \in 1..10 : Hex[d] # "NUL"
      BY DEF Hex
    <3> QED BY <3>1 DEF DigitChars
  <2> QED BY <2>1
<1>2. width \in Nat /\ i <= width /\ width <= Len(f)
  <2>1. width \in i..Len(f)
    BY <1>1, SkipStays
  <2> HIDE DEF width
  <2> QED BY <2>1
<1> HIDE DEF width
<1>3. dot \in Nat /\ width <= dot /\ dot <= Len(f)
  <2>1. dot \in width..Len(f)
    BY <1>1, <1>2, SkipStays
  <2> HIDE DEF dot
  <2> QED BY <1>2, <2>1
<1> HIDE DEF dot
<1>4. f[dot] = "." => dot + 1 <= Len(f)
  <2> SUFFICES ASSUME f[dot] = "." PROVE dot + 1 <= Len(f)
    OBVIOUS
  <2>1. dot # Len(f)
    OBVIOUS
  <2> QED BY <1>3, <2>1
<1>5. len = dot \/ (len \in Nat /\ dot + 1 <= len)
  <2>1. CASE f[dot] = "."
    <3>1. Skip(f, dot + 1, DigitChars) \in dot + 1..Len(f)
      BY <1>1, <1>3, <1>4, <2>1, SkipStays
    <3> QED BY <1>3, <2>1, <3>1
  <2>2. CASE f[dot] # "."
    BY <2>2
  <2> QED BY <2>1, <2>2
<1>6. NumberAt(f, width, dot) \in Nat
  BY <1>2, <1>3, NumberAtType
<1>7. Conversion(f, i).FieldWidth = NumberAt(f, width, dot)
      /\ Conversion(f, i).NumDigits = IF dot = len THEN 0 ELSE NumberAt(f, dot + 1, len)
  BY DEF Conversion, width, dot
<1> HIDE DEF len
<1>8. dot # len => NumberAt(f, dot + 1, len) \in Nat
  BY <1>3, <1>5, NumberAtType
<1> QED BY <1>6, <1>7, <1>8

-----------------------------------------------------------------------------
(* _StoreChar().                                                           *)

(* What a write may return.                                                *)
LEMMA ResultsAre ==
  ASSUME mode \in {"SKIP", "TRIM", "BLOCK"}, NEW n \in Nat, NEW r \in WriteResults(n)
  PROVE  r \in 0..n /\ (mode = "BLOCK" => r = n) /\ (mode # "TRIM" => r = 0 \/ r = n)
<1>1. CASE mode = "BLOCK"
  BY <1>1 DEF WriteResults
<1>2. CASE mode = "SKIP"
  BY <1>2 DEF WriteResults
<1>3. CASE mode = "TRIM"
  BY <1>3 DEF WriteResults
<1> QED BY <1>1, <1>2, <1>3

(* Nothing has failed and there is room for one character at least.        *)
Room ==
  /\ mode \in {"SKIP", "TRIM", "BLOCK"}
  /\ acBuffer \in Seq(Characters) /\ stored \in Seq(Characters)
  /\ ReturnValue \in Nat /\ Len(acBuffer) < BufferSize /\ Len(acBuffer) <= ReturnValue

(* The character is taken; or it is and then the buffer is not written; or *)
(* the full buffer is tried again.                                         *)
Kept(c) ==
  /\ ReturnValue' \in Nat /\ Len(acBuffer') < BufferSize /\ Len(acBuffer') <= ReturnValue'
  /\ stored' \o acBuffer' = Append(stored \o acBuffer, c)

Failed(c) ==
  /\ ReturnValue' = -1 /\ Len(acBuffer') = BufferSize /\ mode # "BLOCK"
  /\ mode # "TRIM" => stored' \o acBuffer' = Append(stored \o acBuffer, c)

Retried ==
  /\ ReturnValue' = -1 /\ Len(acBuffer') <= BufferSize
  /\ mode # "TRIM" => stored' \o acBuffer' = stored \o acBuffer

(* Something goes behind what is stored already.                           *)
Grown == \E x \in Seq(Characters) : stored' = stored \o x

StoreTypes == acBuffer' \in Seq(Characters) /\ stored' \in Seq(Characters)

(* Whatever characters are written go behind the stored ones.              *)
LEMMA GrownBy ==
  ASSUME stored \in Seq(Characters), NEW x \in Seq(Characters), stored' = stored \o x
  PROVE  Grown /\ stored' \in Seq(Characters)
BY ConcatProperties DEF Grown

(* _StoreChar() while nothing has failed: the character is kept in order,  *)
(* or the error is noted with the buffer full.                             *)
LEMMA StoreRoom ==
  ASSUME Room, NEW c \in Characters, StoreChar(c)
  PROVE  StoreTypes /\ Grown /\ (Kept(c) \/ Failed(c))
<1> DEFINE full == Append(acBuffer, c)
<1>1. /\ mode \in {"SKIP", "TRIM", "BLOCK"}
      /\ acBuffer \in Seq(Characters) /\ stored \in Seq(Characters)
      /\ ReturnValue \in Nat /\ Len(acBuffer) < BufferSize /\ Len(acBuffer) <= ReturnValue
      /\ Len(acBuffer) \in Nat /\ BufferSize \in Nat \ {0}
  BY PrintfAssumption DEF Room
<1>2. full \in Seq(Characters) /\ Len(full) = Len(acBuffer) + 1
  BY <1>1, AppendProperties
<1>3. stored \o full = Append(stored \o acBuffer, c)
  BY <1>1, AppendBehind
<1>4. IF Len(full) < BufferSize
        THEN acBuffer' = full /\ ReturnValue' = ReturnValue + 1 /\ UNCHANGED stored
        ELSE \E r \in WriteResults(BufferSize) :
              /\ stored' = stored \o SubSeq(full, 1, r)
              /\ acBuffer' = IF r = BufferSize THEN <<>> ELSE full
              /\ ReturnValue' = IF r = BufferSize THEN ReturnValue + 1 ELSE -1
  BY <1>1, Zenon DEF StoreChar
<1> HIDE DEF full
<1>5. CASE Len(full) < BufferSize
  <2>1. acBuffer' = full /\ ReturnValue' = ReturnValue + 1 /\ stored' = stored
    BY <1>4, <1>5
  <2>2. stored' = stored \o <<>> /\ <<>> \in Seq(Characters)
    BY <1>1, <2>1, ConcatEmptySeq
  <2>3. Kept(c)
    BY <1>1, <1>2, <1>3, <1>5, <2>1 DEF Kept
  <2>4. Grown
    BY <1>1, <2>2, GrownBy
  <2> QED BY <1>1, <1>2, <2>1, <2>3, <2>4 DEF StoreTypes
<1>6. CASE ~(Len(full) < BufferSize)
  <2>0. Len(full) = BufferSize
    BY <1>1, <1>2, <1>6
  <2>1. PICK r \in WriteResults(BufferSize) :
              /\ stored' = stored \o SubSeq(full, 1, r)
              /\ acBuffer' = IF r = BufferSize THEN <<>> ELSE full
              /\ ReturnValue' = IF r = BufferSize THEN ReturnValue + 1 ELSE -1
    BY <1>4, <1>6
  <2>2. /\ r \in 0..BufferSize /\ (mode = "BLOCK" => r = BufferSize)
        /\ mode # "TRIM" => r = 0 \/ r = BufferSize
    BY <1>1, ResultsAre
  <2>3. SubSeq(full, 1, r) \in Seq(Characters)
    BY <1>1, <1>2, <2>0, <2>2
  <2>4. Grown /\ stored' \in Seq(Characters)
    BY <1>1, <2>1, <2>3, GrownBy
  <2>5. CASE r = BufferSize
    <3>1. SubSeq(full, 1, r) = full
      BY <1>2, <2>0, <2>5, SubSeqFull
    <3>2. acBuffer' = <<>> /\ ReturnValue' = ReturnValue + 1 /\ stored' = stored \o full
      BY <2>1, <2>5, <3>1
    <3>3. stored' \o acBuffer' = stored'
      BY <2>4, <3>2, ConcatEmptySeq
    <3>4. Kept(c)
      BY <1>1, <1>3, <3>2, <3>3 DEF Kept
    <3>5. acBuffer' \in Seq(Characters)
      BY <3>2
    <3> QED BY <2>4, <3>4, <3>5 DEF StoreTypes
  <2>6. CASE r # BufferSize
    <3>1. acBuffer' = full /\ ReturnValue' = -1 /\ mode # "BLOCK"
      BY <2>1, <2>2, <2>6
    <3>2. ASSUME mode # "TRIM" PROVE stored' = stored
      <4>1. r = 0
        BY <2>2, <2>6, <3>2
      <4>2. SubSeq(full, 1, r) = <<>>
        BY <1>2, <4>1, SubSeqEmpty
      <4> QED BY <1>1, <2>1, <4>2, ConcatEmptySeq
    <3>3. Failed(c)
      BY <1>3, <2>0, <3>1, <3>2 DEF Failed
    <3> QED BY <1>2, <2>4, <3>1, <3>3 DEF StoreTypes
  <2> QED BY <2>5, <2>6
<1> QED BY <1>5, <1>6

(* _StoreChar() behind an error: the full buffer is tried again and the    *)
(* character is dropped.                                                   *)
LEMMA StoreFull ==
  ASSUME mode \in {"SKIP", "TRIM", "BLOCK"},
         acBuffer \in Seq(Characters), stored \in Seq(Characters),
         ReturnValue = -1, Len(acBuffer) = BufferSize, NEW c, StoreChar(c)
  PROVE  StoreTypes /\ Grown /\ Retried
<1>1. Len(acBuffer) \in Nat /\ BufferSize \in Nat \ {0} /\ ~(Len(acBuffer) < BufferSize)
  BY PrintfAssumption
<1>2. PICK r \in WriteResults(BufferSize) :
              /\ stored' = stored \o SubSeq(acBuffer, 1, r)
              /\ acBuffer' = IF r = BufferSize THEN <<>> ELSE acBuffer
              /\ ReturnValue' = IF r = BufferSize THEN ReturnValue ELSE -1
  BY <1>1, Zenon DEF StoreChar
<1>3. r \in 0..BufferSize /\ (mode # "TRIM" => r = 0 \/ r = BufferSize)
  BY <1>1, ResultsAre
<1>4. SubSeq(acBuffer, 1, r) \in Seq(Characters)
  BY <1>1, <1>3
<1>5. Grown /\ stored' \in Seq(Characters)
  BY <1>2, <1>4, GrownBy
<1>6. CASE r = BufferSize
  <2>1. SubSeq(acBuffer, 1, r) = acBuffer
    BY <1>6, SubSeqFull
  <2>2. acBuffer' = <<>> /\ ReturnValue' = -1 /\ stored' = stored \o acBuffer
    BY <1>2, <1>6, <2>1
  <2>3. stored' \o acBuffer' = stored'
    BY <1>5, <2>2, ConcatEmptySeq
  <2>4. acBuffer' \in Seq(Characters) /\ Len(acBuffer') = 0
    BY <2>2
  <2>5. Retried
    BY <1>1, <2>2, <2>3, <2>4 DEF Retried
  <2> QED BY <1>5, <2>4, <2>5 DEF StoreTypes
<1>7. CASE r # BufferSize
  <2>1. acBuffer' = acBuffer /\ ReturnValue' = -1
    BY <1>2, <1>7
  <2>2. ASSUME mode # "TRIM" PROVE stored' = stored
    <3>1. r = 0
      BY <1>3, <1>7, <2>2
    <3>2. SubSeq(acBuffer, 1, r) = <<>>
      BY <3>1, SubSeqEmpty
    <3> QED BY <1>2, <3>2, ConcatEmptySeq
  <2>3. Retried
    BY <1>1, <2>1, <2>2 DEF Retried
  <2> QED BY <1>5, <2>1, <2>3 DEF StoreTypes
<1> QED BY <1>6, <1>7

-----------------------------------------------------------------------------
(* A call of SEGGER_RTT_printf().                                          *)

(* The loop is at one of the places where the format can be read on.       *)
Reading ==
  ~Idle => /\ sFormat \in Formats
           /\ \E P \in SUBSET (1..Len(sFormat)) : Reads(sFormat, P) /\ pos \in P

BlockedAll == mode = "BLOCK" /\ Idle => stored = text

PrintInv == TypeOK /\ BufferInv /\ NothingLost /\ LossIsTail /\ Reading /\ BlockedAll

(* What the buffer, the conversion and the result must have in common      *)
(* while a call is under way.                                              *)
Under(buffer, up, txt, j, result) ==
  /\ buffer \in Seq(Characters) /\ up \in Seq(Characters) /\ txt \in Seq(Characters)
  /\ j \in Pieces /\ result \in Nat \cup {-1} /\ Len(buffer) <= BufferSize
  /\ result >= 0 => /\ Len(buffer) < BufferSize /\ Len(buffer) <= result
                    /\ up \o buffer \o j.head \o j.digits \o j.tail = txt
  /\ result < 0 => /\ mode # "BLOCK" /\ j.head = <<>> /\ j.digits = <<>>
                   /\ j.tail # <<>> => Len(buffer) = BufferSize
  /\ mode # "TRIM" => IsPrefix(up \o buffer, txt)

(* What makes up the invariant while a call is under way.                  *)
LEMMA UnderKept ==
  ASSUME UNCHANGED mode, mode \in Modes, sFormat' \in Formats, Len(sFormat') \in Nat,
         NEW P \in SUBSET (1..Len(sFormat')), Reads(sFormat', P), pos' \in P,
         Under(acBuffer', stored', text', job', ReturnValue')
  PROVE  PrintInv'
<1>1. pos' \in 1..Len(sFormat')
  OBVIOUS
<1>2. pos' \in 0..Len(sFormat') /\ pos' # 0
  BY <1>1
<1>3. TypeOK'
  BY <1>2 DEF TypeOK, Under
<1>4. BufferInv'
  BY <1>2 DEF BufferInv, Under, Idle, Pieces
<1>5. NothingLost'
  BY DEF NothingLost, Under
<1>6. LossIsTail' /\ BlockedAll'
  BY <1>2 DEF LossIsTail, BlockedAll, Idle
<1>7. Reading'
  BY DEF Reading
<1> QED BY <1>3, <1>4, <1>5, <1>6, <1>7 DEF PrintInv

(* And what holds between two calls.                                       *)
LEMMA IdleKept ==
  ASSUME UNCHANGED mode, mode \in Modes, sFormat' \in Formats \cup {<<"NUL">>},
         Len(sFormat') \in Nat, pos' = 0, job' = NoJob,
         acBuffer' \in Seq(Characters), stored' \in Seq(Characters),
         text' \in Seq(Characters),
         ReturnValue' \in Nat \cup {-1}, Len(acBuffer') <= BufferSize,
         ReturnValue' < 0 => mode # "BLOCK",
         mode # "TRIM" => IsPrefix(stored', text'),
         ReturnValue' >= 0 =>
            IsPrefix(stored', text') /\ Len(text') - Len(stored') < BufferSize,
         mode = "BLOCK" => stored' = text'
  PROVE  PrintInv'
<1>1. pos' \in 0..Len(sFormat') /\ Idle'
  BY DEF Idle
<1>2. TypeOK'
  BY <1>1 DEF TypeOK
<1>3. job' \in Pieces /\ job'.head = <<>> /\ job'.digits = <<>> /\ job'.tail = <<>>
  BY DEF NoJob, Pieces
<1>4. BufferInv'
  BY <1>1, <1>3 DEF BufferInv, Pieces
<1>5. NothingLost' /\ Reading'
  BY <1>1 DEF NothingLost, Reading
<1>6. LossIsTail' /\ BlockedAll'
  BY DEF LossIsTail, BlockedAll
<1> QED BY <1>2, <1>4, <1>5, <1>6 DEF PrintInv

(* What a step of a call starts from.                                      *)
LEMMA UnderWay ==
  ASSUME PrintInv, ~Idle
  PROVE  /\ Under(acBuffer, stored, text, job, ReturnValue)
         /\ mode \in Modes /\ mode \in {"SKIP", "TRIM", "BLOCK"}
         /\ sFormat \in Formats /\ Len(sFormat) \in Nat /\ sFormat[Len(sFormat)] = "NUL"
<1>1. Under(acBuffer, stored, text, job, ReturnValue)
  BY DEF PrintInv, TypeOK, BufferInv, NothingLost, Under, Pieces
<1>2. mode \in Modes /\ mode \in {"SKIP", "TRIM", "BLOCK"} /\ sFormat \in Formats
  BY PrintfAssumption DEF PrintInv, TypeOK, Reading
<1>3. sFormat \in Seq(STRING) /\ sFormat[Len(sFormat)] = "NUL"
  BY <1>2, PrintfAssumption
<1> QED BY <1>1, <1>2, <1>3, LenProperties

(* Brackets.                                                               *)
Joined(S, a, b, c, d) ==
  /\ a \o b \o c \o d = a \o (b \o c \o d)
  /\ b \o c \o d \in Seq(S) /\ a \o b \o c \o d \in Seq(S)
  /\ IsPrefix(a, a \o b \o c \o d)

Regrouped(a, b, c) == (a \o b) \o c = a \o (b \o c)

(* Three sequences one behind the other.                                   *)
LEMMA Regroup ==
  ASSUME NEW S, NEW a \in Seq(S), NEW b \in Seq(S), NEW c \in Seq(S)
  PROVE  Regrouped(a, b, c)
BY ConcatAssociative DEF Regrouped

(* Four sequences one behind the other.                                    *)
LEMMA Join ==
  ASSUME NEW S, NEW a \in Seq(S), NEW b \in Seq(S), NEW c \in Seq(S), NEW d \in Seq(S)
  PROVE  Joined(S, a, b, c, d)
<1> DEFINE e == b \o c
           g == e \o d
<1>1. Regrouped(a, b, c)
  BY Regroup
<1>2. e \in Seq(S)
  BY ConcatProperties
<1> HIDE DEF e
<1>3. Regrouped(a, e, d)
  BY <1>2, Regroup
<1>4. g \in Seq(S)
  BY <1>2, ConcatProperties
<1> HIDE DEF g
<1>5. a \o g \in Seq(S) /\ IsPrefix(a, a \o g)
  BY <1>4, ConcatProperties, PrefixOf
<1>6. (a \o e) \o d = a \o g
  BY <1>3 DEF Regrouped, g
<1>7. (a \o b) \o c = a \o e
  BY <1>1 DEF Regrouped, e
<1>8. a \o b \o c \o d = a \o g
  BY <1>6, <1>7
<1> QED BY <1>4, <1>5, <1>8 DEF Joined, g, e

(* A character of a format or of a string is a character.                  *)
LEMMA Within ==
  ASSUME NEW f \in Formats \cup Strings, NEW i \in 1..Len(f)
  PROVE  f[i] \in Characters
<1> DEFINE R(g) == {g[k] : k \in 1..Len(g)}
           A == UNION {R(g) : g \in Formats \cup Strings}
<1>1. f[i] \in R(f)
  OBVIOUS
<1>2. f[i] \in A
  <2> HIDE DEF R
  <2> QED BY <1>1
<1>3. A \subseteq Characters
  <2>1. Characters = A \cup Chars \cup {Hex[d] : d \in 1..16} \cup {" ", "-", "+", "%"}
    BY Zenon DEF Characters
  <2> HIDE DEF A
  <2> QED BY <2>1
<1> QED BY <1>2, <1>3

(* A conversion begins.                                                    *)
LEMMA ExpandKept ==
  ASSUME PrintInv, AtTop, NEW j, NEW reference, NEW next, JobOk(j, reference),
         Expand(j, reference, next),
         NEW P \in SUBSET (1..Len(sFormat)), Reads(sFormat, P), next \in P
  PROVE  PrintInv' /\ Grown
<1>1. /\ Under(acBuffer, stored, text, job, ReturnValue) /\ mode \in Modes
      /\ sFormat \in Formats /\ Len(sFormat) \in Nat
  BY UnderWay DEF AtTop
<1>2. /\ acBuffer \in Seq(Characters) /\ stored \in Seq(Characters)
      /\ ReturnValue \in Nat /\ Len(acBuffer) < BufferSize /\ Len(acBuffer) <= ReturnValue
      /\ stored \o acBuffer \o <<>> \o <<>> \o <<>> = text
  BY <1>1 DEF Under, AtTop, NoJob
<1> DEFINE u == stored \o acBuffer
<1>3. u \in Seq(Characters)
  BY <1>2, ConcatProperties
<1>4. text = u
  <2>1. u \o <<>> = u
    BY <1>3, Empties
  <2> QED BY <1>2, <2>1
<1>5. /\ job' = j /\ text' = text \o reference /\ pos' = next
      /\ sFormat' = sFormat /\ mode' = mode /\ acBuffer' = acBuffer
      /\ ReturnValue' = ReturnValue /\ stored' = stored
  BY DEF Expand
<1>6. /\ j.head \in Seq(Characters) /\ j.digits \in Seq(Characters)
      /\ j.tail \in Seq(Characters) /\ j \in Pieces
      /\ reference = j.head \o j.digits \o j.tail
  BY DEF JobOk, Pieces
<1>7. /\ u \o j.head \o j.digits \o j.tail = u \o reference
      /\ u \o j.head \o j.digits \o j.tail \in Seq(Characters)
      /\ IsPrefix(u, u \o j.head \o j.digits \o j.tail)
  <2>1. Joined(Characters, u, j.head, j.digits, j.tail)
    <3> HIDE DEF u
    <3> QED BY <1>3, <1>6, Join
  <2> HIDE DEF u
  <2> QED BY <1>6, <2>1 DEF Joined
<1>8. Under(acBuffer', stored', text', job', ReturnValue')
  <2>1. text' = u \o j.head \o j.digits \o j.tail
    BY <1>4, <1>5, <1>7
  <2> DEFINE txt == u \o j.head \o j.digits \o j.tail
  <2>2. txt \in Seq(Characters) /\ IsPrefix(stored \o acBuffer, txt)
        /\ stored \o acBuffer \o j.head \o j.digits \o j.tail = txt
    BY <1>7
  <2>3. text' = txt
    BY <2>1
  <2> HIDE DEF u, txt
  <2>4. ReturnValue \in Nat \cup {-1} /\ ~(ReturnValue < 0) /\ Len(acBuffer) <= BufferSize
    BY <1>2, PrintfAssumption
  <2>5. Under(acBuffer, stored, txt, j, ReturnValue)
    BY <1>2, <1>6, <2>2, <2>4 DEF Under
  <2> QED BY <1>5, <2>3, <2>5
<1>9. Grown
  <2>1. stored' = stored \o <<>> /\ <<>> \in Seq(Characters)
    BY <1>2, <1>5, Empties
  <2> QED BY <1>2, <2>1, GrownBy
<1>10. /\ sFormat' \in Formats /\ Len(sFormat') \in Nat /\ P \in SUBSET (1..Len(sFormat'))
       /\ Reads(sFormat', P) /\ pos' \in P
  BY <1>1, <1>5
<1>11. PrintInv'
  BY <1>1, <1>5, <1>8, <1>10, UnderKept
<1> QED BY <1>9, <1>11

(* A text as it stands.                                                    *)
LEMMA TextOk ==
  ASSUME NEW s \in Seq(Characters)
  PROVE  JobOk(Text(s), s)
<1>1. Text(s) = [head |-> s, digits |-> <<>>, tail |-> <<>>]
  BY DEF Text, NoJob
<1>2. s \o <<>> \o <<>> = s /\ <<>> \in Seq(Characters)
  <2>1. s \o <<>> = s
    BY Empties
  <2> QED BY <2>1
<1> QED BY <1>1, <1>2 DEF JobOk, Pieces

(* The places that a conversion goes to.                                   *)
LEMMA PlaceNext ==
  ASSUME PrintInv, AtTop
  PROVE  \E P \in SUBSET (1..Len(sFormat)) :
            /\ Reads(sFormat, P) /\ pos \in 1..Len(sFormat)
            /\ sFormat[pos] \notin {"%", "NUL"} => pos + 1 \in P
            /\ sFormat[pos] = "%" => Conversion(sFormat, pos + 1).next \in P
<1>1. PICK P \in SUBSET (1..Len(sFormat)) : Reads(sFormat, P) /\ pos \in P
  BY DEF PrintInv, Reading, AtTop
<1>2. /\ sFormat[pos] \notin {"%", "NUL"} => pos + 1 \in P
      /\ sFormat[pos] = "%" => Conversion(sFormat, pos + 1).next \in P
  <2> DEFINE cv == Conversion(sFormat, pos + 1)
  <2>1. \/ sFormat[pos] = "NUL"
        \/ sFormat[pos] \notin {"%", "NUL"} /\ pos + 1 \in P
        \/ sFormat[pos] = "%" /\ cv.next \in P
    <3> HIDE DEF cv
    <3> QED BY <1>1, Zenon DEF Reads, cv
  <2> HIDE DEF cv
  <2>2. "%" # "NUL"
    OBVIOUS
  <2> QED BY <2>1, <2>2 DEF cv
<1> QED BY <1>1, <1>2

(* A character that is not '%'.                                            *)
LEMMA literalKept ==
  ASSUME PrintInv, literal
  PROVE  PrintInv' /\ Grown
<1>1. /\ AtTop /\ sFormat[pos] \notin {"%", "NUL"}
      /\ Expand(Text(<<sFormat[pos]>>), <<sFormat[pos]>>, pos + 1)
  BY DEF literal
<1>2. PICK P \in SUBSET (1..Len(sFormat)) :
         Reads(sFormat, P) /\ pos \in 1..Len(sFormat) /\ pos + 1 \in P
  BY <1>1, PlaceNext
<1>3. sFormat \in Formats
  BY <1>1, UnderWay DEF AtTop
<1>4. sFormat[pos] \in Characters
  BY <1>2, <1>3, Within
<1>5. <<sFormat[pos]>> \in Seq(Characters)
  BY <1>4, OneSeq
<1>6. JobOk(Text(<<sFormat[pos]>>), <<sFormat[pos]>>)
  BY <1>5, TextOk
<1> QED BY <1>1, <1>2, <1>6, ExpandKept

(* A conversion of a number begins: by NumberRight its job is the text     *)
(* that the notes promise.                                                 *)
LEMMA conv_numberKept ==
  ASSUME PrintInv, conv_number
  PROVE  PrintInv' /\ Grown
<1> DEFINE cv == Conversion(sFormat, pos + 1)
<1>1. /\ AtTop /\ sFormat[pos] = "%" /\ cv.spec \in NumberSpecs
      /\ \E v \in Ints : Expand(NumberJob(cv, v), NumberRef(cv, v), cv.next)
  BY Zenon DEF conv_number
<1>2. PICK P \in SUBSET (1..Len(sFormat)) : Reads(sFormat, P) /\ pos \in P
  BY <1>1 DEF PrintInv, Reading, AtTop
<1>3. /\ cv.next \in P
      /\ cv.NumDigits > 0 => Power(BaseOf(cv))[cv.NumDigits - 1] < Word
  <2>1. \/ sFormat[pos] = "NUL"
        \/ sFormat[pos] \notin {"%", "NUL"} /\ pos + 1 \in P
        \/ /\ sFormat[pos] = "%" /\ cv.next \in P
           /\ cv.NumDigits > 0 => Power(BaseOf(cv))[cv.NumDigits - 1] < Word
    <3> HIDE DEF cv
    <3> QED BY <1>2, Zenon DEF Reads, cv
  <2>2. "%" # "NUL"
    OBVIOUS
  <2> HIDE DEF cv
  <2> QED BY <1>1, <2>1, <2>2
<1>4. Len(sFormat) \in Nat /\ sFormat[Len(sFormat)] = "NUL"
  BY <1>1, UnderWay DEF AtTop
<1>5. pos \in 1..Len(sFormat)
  BY <1>2
<1>6. pos # Len(sFormat)
  <2>1. "%" # "NUL"
    OBVIOUS
  <2> QED BY <1>1, <1>4, <2>1
<1>7. pos + 1 \in Nat /\ pos + 1 <= Len(sFormat)
  BY <1>4, <1>5, <1>6
<1>8. cv.FieldWidth \in Nat /\ cv.NumDigits \in Nat
  BY <1>4, <1>7, ConversionType
<1> HIDE DEF cv
<1>9. PICK v \in Ints : Expand(NumberJob(cv, v), NumberRef(cv, v), cv.next)
  BY <1>1
<1>10. JobOk(NumberJob(cv, v), NumberRef(cv, v))
  BY <1>1, <1>3, <1>8, NumberRight
<1> QED BY <1>1, <1>2, <1>3, <1>9, <1>10, ExpandKept

(* Any other conversion begins.                                            *)
LEMMA conv_textKept ==
  ASSUME PrintInv, conv_text
  PROVE  PrintInv' /\ Grown
<1> DEFINE cv == Conversion(sFormat, pos + 1)
<1>1. /\ AtTop /\ sFormat[pos] = "%"
      /\ \/ cv.spec = "c" /\ \E c \in Chars : Expand(Text(<<c>>), <<c>>, cv.next)
         \/ cv.spec = "s" /\ \E s \in Strings : Expand(Text(s), s, cv.next)
         \/ cv.spec = "%" /\ Expand(Text(<<"%">>), <<"%">>, cv.next)
         \/ /\ cv.spec \notin {"c", "s", "%"} \cup NumberSpecs
            /\ Expand(NoJob, <<>>, cv.next)
  BY Zenon DEF conv_text
<1>2. PICK P \in SUBSET (1..Len(sFormat)) : Reads(sFormat, P) /\ cv.next \in P
  BY <1>1, PlaceNext
<1> HIDE DEF cv
<1>3. CASE \E c \in Chars : Expand(Text(<<c>>), <<c>>, cv.next)
  <2>1. PICK c \in Chars : Expand(Text(<<c>>), <<c>>, cv.next)
    BY <1>3
  <2>2. c \in Characters
    BY DEF Characters
  <2>3. JobOk(Text(<<c>>), <<c>>)
    BY <2>2, OneSeq, TextOk
  <2> QED BY <1>1, <1>2, <2>1, <2>3, ExpandKept
<1>4. CASE \E s \in Strings : Expand(Text(s), s, cv.next)
  <2>1. PICK s \in Strings : Expand(Text(s), s, cv.next)
    BY <1>4
  <2>2. s \in Seq(STRING)
    BY PrintfAssumption
  <2>3. Len(s) \in Nat /\ DOMAIN s = 1..Len(s)
    BY <2>2
  <2>4. \A i \in 1..Len(s) : s[i] \in Characters
    BY Within
  <2>5. s \in Seq(Characters)
    <3>1. s \in [1..Len(s) -> STRING]
      BY <2>2, LenProperties
    <3>2. s \in [1..Len(s) -> Characters]
      BY <2>4, <3>1
    <3> QED BY <2>3, <3>2, SeqDef
  <2>6. JobOk(Text(s), s)
    BY <2>5, TextOk
  <2> QED BY <1>1, <1>2, <2>1, <2>6, ExpandKept
<1>5. CASE Expand(Text(<<"%">>), <<"%">>, cv.next)
  <2>1. "%" \in Characters
    BY Alphabet
  <2>2. JobOk(Text(<<"%">>), <<"%">>)
    BY <2>1, OneSeq, TextOk
  <2> QED BY <1>1, <1>2, <1>5, <2>2, ExpandKept
<1>6. CASE Expand(NoJob, <<>>, cv.next)
  <2>1. <<>> \in Seq(Characters) /\ Text(<<>>) = NoJob
    BY DEF Text, NoJob
  <2>2. JobOk(NoJob, <<>>)
    BY <2>1, TextOk
  <2> QED BY <1>1, <1>2, <1>6, <2>2, ExpandKept
<1> QED BY <1>1, <1>3, <1>4, <1>5, <1>6

(* A call begins.                                                          *)
LEMMA vprintfKept ==
  ASSUME NEW f \in Formats, mode \in Modes, vprintf(f, mode)
  PROVE  PrintInv'
<1>1. f \in Seq(STRING) /\ Len(f) \in Nat
  BY PrintfAssumption, LenProperties
<1>2. PICK P \in SUBSET (1..Len(f)) : Reads(f, P)
  BY PrintfAssumption
<1>3. 1 \in P
  BY <1>2 DEF Reads
<1>4. /\ sFormat' = f /\ pos' = 1 /\ mode' = mode /\ acBuffer' = <<>> /\ ReturnValue' = 0
      /\ job' = NoJob /\ stored' = <<>> /\ text' = <<>>
  BY DEF vprintf
<1>5. Under(<<>>, <<>>, <<>>, NoJob, 0)
  <2>1. <<>> \in Seq(Characters) /\ Len(<<>>) = 0 /\ <<>> \o <<>> = <<>>
    BY Empties
  <2>2. IsPrefix(<<>>, <<>>)
    BY <2>1, PrefixOf
  <2>3. BufferSize \in Nat \ {0}
    BY PrintfAssumption
  <2>4. NoJob \in Pieces /\ NoJob.head = <<>> /\ NoJob.digits = <<>> /\ NoJob.tail = <<>>
    BY <2>1 DEF NoJob, Pieces
  <2> QED BY <2>1, <2>2, <2>3, <2>4 DEF Under
<1>6. Under(acBuffer', stored', text', job', ReturnValue')
  BY <1>4, <1>5
<1> QED BY <1>1, <1>2, <1>3, <1>4, <1>6, UnderKept

(* Storing goes on in the same call.                                       *)
LEMMA StoredKept ==
  ASSUME PrintInv, ~Idle, UNCHANGED <<sFormat, pos, mode, text>>,
         Under(acBuffer', stored', text, job', ReturnValue')
  PROVE  PrintInv'
<1>1. mode \in Modes /\ sFormat \in Formats /\ Len(sFormat) \in Nat
  BY UnderWay
<1>2. PICK P \in SUBSET (1..Len(sFormat)) : Reads(sFormat, P) /\ pos \in P
  BY DEF PrintInv, Reading
<1>3. /\ sFormat' \in Formats /\ Len(sFormat') \in Nat /\ P \in SUBSET (1..Len(sFormat'))
      /\ Reads(sFormat', P) /\ pos' \in P /\ UNCHANGED mode
      /\ Under(acBuffer', stored', text', job', ReturnValue')
  BY <1>1, <1>2
<1> QED BY <1>1, <1>3, UnderKept

(* While something is left to store, a call is under way; a write has      *)
(* failed only if that is the tail of a number.                            *)
LEMMA Storing ==
  ASSUME PrintInv, job # NoJob
  PROVE  /\ ~Idle /\ (ReturnValue >= 0 => Room) /\ ReturnValue \in Nat \cup {-1}
         /\ Under(acBuffer, stored, text, job, ReturnValue)
         /\ mode \in {"SKIP", "TRIM", "BLOCK"}
<1>1. ~Idle
  BY DEF PrintInv, BufferInv
<1>2. /\ Under(acBuffer, stored, text, job, ReturnValue)
      /\ mode \in {"SKIP", "TRIM", "BLOCK"}
  BY <1>1, UnderWay
<1>3. ReturnValue >= 0 => Room
  BY <1>2 DEF Under, Room
<1>4. ReturnValue \in Nat \cup {-1}
  BY <1>2 DEF Under
<1> QED BY <1>1, <1>2, <1>3, <1>4


(* A character in front of the digits is stored; a failed write ends the   *)
(* conversion.                                                             *)
LEMMA store_headKept ==
  ASSUME PrintInv, store_head
  PROVE  PrintInv' /\ Grown
<1> DEFINE h == job.head
           d == job.digits
           t == job.tail
           c == Head(h)
           r == Tail(h)
           u == stored \o acBuffer
<1>0. job.head # <<>>
  BY DEF store_head
<1>1. job # NoJob
  BY <1>0 DEF NoJob
<1>2. /\ ~Idle /\ (ReturnValue >= 0 => Room) /\ ReturnValue \in Nat \cup {-1}
      /\ Under(acBuffer, stored, text, job, ReturnValue)
  BY <1>1, Storing
<1>3. ReturnValue \in Nat /\ Room
  BY <1>0, <1>2 DEF Under
<1>4. /\ h \in Seq(Characters) /\ d \in Seq(Characters) /\ t \in Seq(Characters)
      /\ stored \in Seq(Characters) /\ acBuffer \in Seq(Characters)
      /\ text \in Seq(Characters) /\ job \in Pieces
      /\ u \o h \o d \o t = text
  BY <1>2, <1>3 DEF Under, Pieces
<1>5. u \in Seq(Characters)
  BY <1>4, ConcatProperties
<1>6. /\ StoreChar(c) /\ UNCHANGED <<sFormat, pos, mode, text>>
      /\ job' = IF ReturnValue' < 0 THEN NoJob ELSE [job EXCEPT !.head = r]
  BY DEF store_head
<1> HIDE DEF h, d, t, u
<1>7. c \in Characters /\ r \in Seq(Characters) /\ u \o h = Append(u, c) \o r
      /\ Append(u, c) \in Seq(Characters)
  BY <1>0, <1>4, <1>5, TakeOne DEF h
<1> HIDE DEF c, r
<1>8. StoreTypes /\ Grown /\ (Kept(c) \/ Failed(c))
  BY <1>3, <1>6, <1>7, StoreRoom
<1>9. Append(u, c) \o r \o d \o t = text
  BY <1>4, <1>7
<1>10. IsPrefix(Append(u, c), text)
  <2>1. Joined(Characters, Append(u, c), r, d, t)
    BY <1>4, <1>7, Join
  <2> QED BY <1>9, <2>1 DEF Joined
<1>11. BufferSize \in Nat \ {0}
  BY PrintfAssumption
<1>12. CASE Kept(c)
  <2>1. /\ ReturnValue' \in Nat /\ Len(acBuffer') < BufferSize
        /\ Len(acBuffer') <= ReturnValue' /\ stored' \o acBuffer' = Append(u, c)
    BY <1>12 DEF Kept, u
  <2>2. ~(ReturnValue' < 0) /\ ReturnValue' \in Nat \cup {-1}
    BY <2>1
  <2>3. job' = [job EXCEPT !.head = r]
    BY <1>6, <2>2
  <2>4. job' \in Pieces /\ job'.head = r /\ job'.digits = d /\ job'.tail = t
    BY <1>4, <1>7, <2>3 DEF Pieces, d, t
  <2>5. stored' \o acBuffer' \o job'.head \o job'.digits \o job'.tail = text
    BY <1>9, <2>1, <2>4
  <2>6. IsPrefix(stored' \o acBuffer', text)
    BY <1>10, <2>1
  <2>7. acBuffer' \in Seq(Characters) /\ stored' \in Seq(Characters)
        /\ Len(acBuffer') <= BufferSize
    BY <1>8, <1>11, <2>1, LenProperties DEF StoreTypes
  <2>8. Under(acBuffer', stored', text, job', ReturnValue')
    BY <1>4, <2>1, <2>2, <2>4, <2>5, <2>6, <2>7 DEF Under
  <2> QED BY <1>2, <1>6, <1>8, <2>8, StoredKept
<1>13. CASE Failed(c)
  <2>1. /\ ReturnValue' = -1 /\ Len(acBuffer') = BufferSize /\ mode # "BLOCK"
        /\ mode # "TRIM" => stored' \o acBuffer' = Append(u, c)
    BY <1>13 DEF Failed, u
  <2>2. ReturnValue' < 0 /\ ~(ReturnValue' >= 0) /\ Len(acBuffer') <= BufferSize
    BY <1>11, <2>1
  <2>3. job' = NoJob
    BY <1>6, <2>2
  <2>4. job' \in Pieces /\ job'.head = <<>> /\ job'.digits = <<>> /\ job'.tail = <<>>
    BY <2>3 DEF NoJob, Pieces
  <2>5. mode # "TRIM" => IsPrefix(stored' \o acBuffer', text)
    BY <1>10, <2>1
  <2>6. Under(acBuffer', stored', text, job', ReturnValue')
    BY <1>4, <1>8, <2>1, <2>2, <2>4, <2>5 DEF Under, StoreTypes
  <2> QED BY <1>2, <1>6, <1>8, <2>6, StoredKept
<1> QED BY <1>8, <1>12, <1>13

(* A digit is stored; behind a failed write only the padding is left.      *)
LEMMA store_digitKept ==
  ASSUME PrintInv, store_digit
  PROVE  PrintInv' /\ Grown
<1> DEFINE d == job.digits
           t == job.tail
           c == Head(d)
           r == Tail(d)
           u == stored \o acBuffer
<1>0. job.head = <<>> /\ job.digits # <<>>
  BY DEF store_digit
<1>1. job # NoJob
  BY <1>0 DEF NoJob
<1>2. /\ ~Idle /\ (ReturnValue >= 0 => Room) /\ ReturnValue \in Nat \cup {-1}
      /\ Under(acBuffer, stored, text, job, ReturnValue)
  BY <1>1, Storing
<1>3. ReturnValue \in Nat /\ Room
  BY <1>0, <1>2 DEF Under
<1>4. /\ d \in Seq(Characters) /\ t \in Seq(Characters)
      /\ stored \in Seq(Characters) /\ acBuffer \in Seq(Characters)
      /\ text \in Seq(Characters) /\ job \in Pieces
      /\ u \o <<>> \o d \o t = text
  BY <1>0, <1>2, <1>3 DEF Under, Pieces
<1>5. u \in Seq(Characters)
  BY <1>4, ConcatProperties
<1>6. /\ StoreChar(c) /\ UNCHANGED <<sFormat, pos, mode, text>>
      /\ job' = [job EXCEPT !.digits = IF ReturnValue' < 0 THEN <<>> ELSE r]
  BY DEF store_digit
<1> HIDE DEF d, t, u
<1>7. c \in Characters /\ r \in Seq(Characters) /\ u \o d = Append(u, c) \o r
      /\ Append(u, c) \in Seq(Characters)
  BY <1>0, <1>4, <1>5, TakeOne DEF d
<1> HIDE DEF c, r
<1>8. StoreTypes /\ Grown /\ (Kept(c) \/ Failed(c))
  BY <1>3, <1>6, <1>7, StoreRoom
<1>9. Append(u, c) \o <<>> \o r \o t = text
  <2>1. u \o <<>> = u /\ Append(u, c) \o <<>> = Append(u, c)
    BY <1>5, <1>7, Empties
  <2> QED BY <1>4, <1>7, <2>1
<1>10. IsPrefix(Append(u, c), text)
  <2>0. <<>> \in Seq(Characters)
    OBVIOUS
  <2>1. Joined(Characters, Append(u, c), <<>>, r, t)
    BY <1>4, <1>7, <2>0, Join
  <2> QED BY <1>9, <2>1 DEF Joined
<1>11. BufferSize \in Nat \ {0}
  BY PrintfAssumption
<1>12. CASE Kept(c)
  <2>1. /\ ReturnValue' \in Nat /\ Len(acBuffer') < BufferSize
        /\ Len(acBuffer') <= ReturnValue' /\ stored' \o acBuffer' = Append(u, c)
    BY <1>12 DEF Kept, u
  <2>2. ~(ReturnValue' < 0) /\ ReturnValue' \in Nat \cup {-1}
    BY <2>1
  <2>3. job' = [job EXCEPT !.digits = r]
    BY <1>6, <2>2
  <2>4. job' \in Pieces /\ job'.head = <<>> /\ job'.digits = r /\ job'.tail = t
    BY <1>0, <1>4, <1>7, <2>3 DEF Pieces, d, t
  <2>5. stored' \o acBuffer' \o job'.head \o job'.digits \o job'.tail = text
    BY <1>9, <2>1, <2>4
  <2>6. IsPrefix(stored' \o acBuffer', text)
    BY <1>10, <2>1
  <2>7. acBuffer' \in Seq(Characters) /\ stored' \in Seq(Characters)
        /\ Len(acBuffer') <= BufferSize
    BY <1>8, <1>11, <2>1, LenProperties DEF StoreTypes
  <2>8. Under(acBuffer', stored', text, job', ReturnValue')
    BY <1>4, <2>1, <2>2, <2>4, <2>5, <2>6, <2>7 DEF Under
  <2> QED BY <1>2, <1>6, <1>8, <2>8, StoredKept
<1>13. CASE Failed(c)
  <2>1. /\ ReturnValue' = -1 /\ Len(acBuffer') = BufferSize /\ mode # "BLOCK"
        /\ mode # "TRIM" => stored' \o acBuffer' = Append(u, c)
    BY <1>13 DEF Failed, u
  <2>2. ReturnValue' < 0 /\ ~(ReturnValue' >= 0) /\ Len(acBuffer') <= BufferSize
    BY <1>11, <2>1
  <2>3. job' = [job EXCEPT !.digits = <<>>]
    BY <1>6, <2>2
  <2>4. job' \in Pieces /\ job'.head = <<>> /\ job'.digits = <<>>
    BY <1>0, <1>4, <2>3 DEF Pieces
  <2>5. mode # "TRIM" => IsPrefix(stored' \o acBuffer', text)
    BY <1>10, <2>1
  <2>6. Under(acBuffer', stored', text, job', ReturnValue')
    BY <1>4, <1>8, <2>1, <2>2, <2>4, <2>5 DEF Under, StoreTypes
  <2> QED BY <1>2, <1>6, <1>8, <2>6, StoredKept
<1> QED BY <1>8, <1>12, <1>13

(* Padding behind the digits is stored, also when a digit has failed.      *)
LEMMA store_tailKept ==
  ASSUME PrintInv, store_tail
  PROVE  PrintInv' /\ Grown
<1> DEFINE t == job.tail
           c == Head(t)
           r == Tail(t)
           u == stored \o acBuffer
<1>0. job.head = <<>> /\ job.digits = <<>> /\ job.tail # <<>>
  BY DEF store_tail
<1>1. job # NoJob
  BY <1>0 DEF NoJob
<1>2. /\ ~Idle /\ (ReturnValue >= 0 => Room) /\ ReturnValue \in Nat \cup {-1}
      /\ Under(acBuffer, stored, text, job, ReturnValue)
      /\ mode \in {"SKIP", "TRIM", "BLOCK"}
  BY <1>1, Storing
<1>3. /\ t \in Seq(Characters)
      /\ stored \in Seq(Characters) /\ acBuffer \in Seq(Characters)
      /\ text \in Seq(Characters) /\ job \in Pieces
  BY <1>2 DEF Under, Pieces
<1>4. u \in Seq(Characters)
  BY <1>3, ConcatProperties
<1>5. /\ StoreChar(c) /\ UNCHANGED <<sFormat, pos, mode, text>>
      /\ job' = [job EXCEPT !.tail = IF ReturnValue' < 0 THEN <<>> ELSE r]
  BY DEF store_tail
<1>6. BufferSize \in Nat \ {0}
  BY PrintfAssumption
<1>7. ASSUME ReturnValue' < 0, job' = [job EXCEPT !.tail = <<>>]
      PROVE  job' \in Pieces /\ job'.head = <<>> /\ job'.digits = <<>> /\ job'.tail = <<>>
  BY <1>0, <1>3, <1>7 DEF Pieces
<1>8. CASE ReturnValue >= 0
  <2>0. ReturnValue \in Nat /\ Room /\ u \o <<>> \o <<>> \o t = text
    <3>1. stored \o acBuffer \o job.head \o job.digits \o job.tail = text
      BY <1>2, <1>8 DEF Under
    <3>2. ReturnValue \in Nat /\ Room
      BY <1>2, <1>8
    <3> QED BY <1>0, <3>1, <3>2
  <2> HIDE DEF t, u
  <2>1. c \in Characters /\ r \in Seq(Characters) /\ u \o t = Append(u, c) \o r
        /\ Append(u, c) \in Seq(Characters)
    BY <1>0, <1>3, <1>4, TakeOne DEF t
  <2> HIDE DEF c, r
  <2>2. StoreTypes /\ Grown /\ (Kept(c) \/ Failed(c))
    BY <1>5, <2>0, <2>1, StoreRoom
  <2>3. Append(u, c) \o <<>> \o <<>> \o r = text
    <3>1. u \o <<>> = u /\ Append(u, c) \o <<>> = Append(u, c)
      BY <1>4, <2>1, Empties
    <3> QED BY <2>0, <2>1, <3>1
  <2>4. IsPrefix(Append(u, c), text)
    <3>0. <<>> \in Seq(Characters)
      OBVIOUS
    <3>1. Joined(Characters, Append(u, c), <<>>, <<>>, r)
      BY <2>1, <3>0, Join
    <3> QED BY <2>3, <3>1 DEF Joined
  <2>5. CASE Kept(c)
    <3>1. /\ ReturnValue' \in Nat /\ Len(acBuffer') < BufferSize
          /\ Len(acBuffer') <= ReturnValue' /\ stored' \o acBuffer' = Append(u, c)
      BY <2>5 DEF Kept, u
    <3>2. ~(ReturnValue' < 0) /\ ReturnValue' \in Nat \cup {-1}
      BY <3>1
    <3>3. job' = [job EXCEPT !.tail = r]
      BY <1>5, <3>2
    <3>4. job' \in Pieces /\ job'.head = <<>> /\ job'.digits = <<>> /\ job'.tail = r
      BY <1>0, <1>3, <2>1, <3>3 DEF Pieces, t
    <3>5. stored' \o acBuffer' \o job'.head \o job'.digits \o job'.tail = text
      BY <2>3, <3>1, <3>4
    <3>6. IsPrefix(stored' \o acBuffer', text)
      BY <2>4, <3>1
    <3>7. acBuffer' \in Seq(Characters) /\ stored' \in Seq(Characters)
          /\ Len(acBuffer') <= BufferSize
      BY <1>6, <2>2, <3>1, LenProperties DEF StoreTypes
    <3>8. Under(acBuffer', stored', text, job', ReturnValue')
      BY <1>3, <3>1, <3>2, <3>4, <3>5, <3>6, <3>7 DEF Under
    <3> QED BY <1>2, <1>5, <2>2, <3>8, StoredKept
  <2>6. CASE Failed(c)
    <3>1. /\ ReturnValue' = -1 /\ Len(acBuffer') = BufferSize /\ mode # "BLOCK"
          /\ mode # "TRIM" => stored' \o acBuffer' = Append(u, c)
      BY <2>6 DEF Failed, u
    <3>2. ReturnValue' < 0 /\ ~(ReturnValue' >= 0) /\ Len(acBuffer') <= BufferSize
      BY <1>6, <3>1
    <3>3. job' = [job EXCEPT !.tail = <<>>]
      BY <1>5, <3>2
    <3>4. job' \in Pieces /\ job'.head = <<>> /\ job'.digits = <<>> /\ job'.tail = <<>>
      BY <1>7, <3>2, <3>3
    <3>5. mode # "TRIM" => IsPrefix(stored' \o acBuffer', text)
      BY <2>4, <3>1
    <3>6. Under(acBuffer', stored', text, job', ReturnValue')
      BY <1>3, <2>2, <3>1, <3>2, <3>4, <3>5 DEF Under, StoreTypes
    <3> QED BY <1>2, <1>5, <2>2, <3>6, StoredKept
  <2> QED BY <2>2, <2>5, <2>6
<1>9. CASE ReturnValue < 0
  <2>1. /\ ReturnValue = -1 /\ Len(acBuffer) = BufferSize /\ mode # "BLOCK"
        /\ mode # "TRIM" => IsPrefix(stored \o acBuffer, text)
    BY <1>0, <1>2, <1>9 DEF Under
  <2>2. StoreTypes /\ Grown /\ Retried
    BY <1>2, <1>3, <1>5, <2>1, StoreFull
  <2>3. /\ ReturnValue' = -1 /\ Len(acBuffer') <= BufferSize
        /\ mode # "TRIM" => stored' \o acBuffer' = stored \o acBuffer
    BY <2>2 DEF Retried
  <2>4. ReturnValue' < 0 /\ ~(ReturnValue' >= 0)
    BY <2>3
  <2>5. job' = [job EXCEPT !.tail = <<>>]
    BY <1>5, <2>4
  <2>6. job' \in Pieces /\ job'.head = <<>> /\ job'.digits = <<>> /\ job'.tail = <<>>
    BY <1>7, <2>4, <2>5
  <2>7. mode # "TRIM" => IsPrefix(stored' \o acBuffer', text)
    BY <2>1, <2>3
  <2>8. Under(acBuffer', stored', text, job', ReturnValue')
    BY <1>3, <2>1, <2>2, <2>3, <2>4, <2>6, <2>7 DEF Under, StoreTypes
  <2> QED BY <1>2, <1>5, <2>2, <2>8, StoredKept
<1> QED BY <1>2, <1>8, <1>9

(* The rest of the buffer is written, or a beginning of it.                *)
LEMMA PartWritten ==
  ASSUME NEW S, NEW u \in Seq(S), NEW a \in Seq(S), NEW r \in 0..Len(a)
  PROVE  /\ SubSeq(a, 1, r) \in Seq(S) /\ u \o SubSeq(a, 1, r) \in Seq(S)
         /\ IsPrefix(u \o SubSeq(a, 1, r), u \o a)
         /\ Len(u \o a) - Len(u \o SubSeq(a, 1, r)) <= Len(a)
<1> DEFINE x == SubSeq(a, 1, r)
           y == SubSeq(a, r + 1, Len(a))
<1>1. Len(a) \in Nat /\ Len(u) \in Nat /\ r \in Nat /\ r <= Len(a)
  BY LenProperties
<1>2. x \in Seq(S) /\ y \in Seq(S) /\ Len(x) = r
  BY <1>1
<1>3. x \o y = a
  <2>1. 1 \in 1..Len(a) + 1 /\ r \in 1 - 1..Len(a) /\ Len(a) \in r..Len(a)
    BY <1>1
  <2>2. SubSeq(a, 1, r) \o SubSeq(a, r + 1, Len(a)) = SubSeq(a, 1, Len(a))
    BY <2>1, ConcatAdjacentSubSeq
  <2>3. SubSeq(a, 1, Len(a)) = a
    BY SubSeqFull
  <2> QED BY <2>2, <2>3
<1> HIDE DEF x, y
<1>4. Regrouped(u, x, y)
  BY <1>2, Regroup
<1>5. u \o x \in Seq(S) /\ Len(u \o x) = Len(u) + Len(x)
  BY <1>2, ConcatProperties
<1>6. (u \o x) \o y = u \o a
  BY <1>3, <1>4 DEF Regrouped
<1>7. IsPrefix(u \o x, (u \o x) \o y)
  <2> DEFINE w == u \o x
  <2> HIDE DEF w
  <2>1. w \in Seq(S)
    BY <1>5 DEF w
  <2>2. IsPrefix(w, w \o y)
    BY <1>2, <2>1, PrefixOf
  <2> QED BY <2>2 DEF w
<1>8. Len(u \o a) = Len(u) + Len(a)
  BY ConcatProperties
<1>9. IsPrefix(u \o x, u \o a)
  BY <1>6, <1>7
<1>10. Len(u \o a) - Len(u \o x) <= Len(a)
  BY <1>1, <1>2, <1>5, <1>8
<1> QED BY <1>2, <1>5, <1>9, <1>10 DEF x

(* A beginning of a beginning.                                             *)
LEMMA PrefixShorter ==
  ASSUME NEW S, NEW a \in Seq(S), NEW b \in Seq(S), NEW t \in Seq(S), IsPrefix(a \o b, t)
  PROVE  IsPrefix(a, t)
<1> DEFINE w == a \o b
<1>1. w \in Seq(S)
  BY ConcatProperties
<1> HIDE DEF w
<1>2. PICK r \in Seq(S) : t = w \o r
  BY <1>1, PrefixGives DEF w
<1>3. Regrouped(a, b, r)
  BY Regroup
<1>4. t = a \o (b \o r)
  BY <1>2, <1>3 DEF Regrouped, w
<1> DEFINE z == b \o r
<1>5. z \in Seq(S)
  BY ConcatProperties
<1> HIDE DEF z
<1>6. IsPrefix(a, a \o z)
  BY <1>5, PrefixOf
<1> QED BY <1>4, <1>6 DEF z

(* The call ends.                                                          *)
LEMMA finishKept ==
  ASSUME PrintInv, finish
  PROVE  PrintInv' /\ Grown
<1>0. /\ ~Idle /\ job = NoJob /\ pos' = 0
      /\ UNCHANGED <<sFormat, mode, acBuffer, job, text>>
      /\ IF ReturnValue > 0
           THEN /\ ReturnValue' = ReturnValue + Len(acBuffer)
                /\ IF acBuffer # <<>>
                     THEN \E r \in WriteResults(Len(acBuffer)) :
                            stored' = stored \o SubSeq(acBuffer, 1, r)
                     ELSE UNCHANGED stored
           ELSE UNCHANGED <<ReturnValue, stored>>
  BY Zenon DEF finish
<1>1. /\ Under(acBuffer, stored, text, job, ReturnValue)
      /\ mode \in Modes /\ mode \in {"SKIP", "TRIM", "BLOCK"}
      /\ sFormat \in Formats /\ Len(sFormat) \in Nat
  BY <1>0, UnderWay
<1>2. /\ acBuffer \in Seq(Characters) /\ stored \in Seq(Characters)
      /\ text \in Seq(Characters) /\ ReturnValue \in Nat \cup {-1}
      /\ Len(acBuffer) <= BufferSize /\ Len(acBuffer) \in Nat /\ BufferSize \in Nat \ {0}
  BY <1>1, PrintfAssumption, LenProperties DEF Under
<1>3. /\ sFormat' \in Formats \cup {<<"NUL">>} /\ Len(sFormat') \in Nat
      /\ job' = NoJob /\ pos' = 0 /\ UNCHANGED mode /\ mode \in Modes
      /\ acBuffer' \in Seq(Characters) /\ Len(acBuffer') <= BufferSize
      /\ text' \in Seq(Characters)
  BY <1>0, <1>1, <1>2
<1>4. CASE ReturnValue < 0
  <2>1. stored' = stored /\ ReturnValue' = ReturnValue /\ text' = text
    BY <1>0, <1>2, <1>4
  <2>2. mode # "BLOCK" /\ (mode # "TRIM" => IsPrefix(stored \o acBuffer, text))
    BY <1>1, <1>4 DEF Under
  <2>3. mode # "TRIM" => IsPrefix(stored', text')
    BY <1>2, <2>1, <2>2, PrefixShorter
  <2>4. /\ stored' \in Seq(Characters) /\ ReturnValue' \in Nat \cup {-1}
        /\ ~(ReturnValue' >= 0)
    BY <1>2, <1>4, <2>1
  <2>5. PrintInv'
    BY <1>3, <2>2, <2>3, <2>4, IdleKept
  <2>6. Grown
    <3>1. stored' = stored \o <<>> /\ <<>> \in Seq(Characters)
      BY <1>2, <2>1, Empties
    <3> QED BY <1>2, <3>1, GrownBy
  <2> QED BY <2>5, <2>6
<1>5. CASE ReturnValue >= 0
  <2>1. /\ ReturnValue \in Nat
        /\ Len(acBuffer) < BufferSize /\ Len(acBuffer) <= ReturnValue
    BY <1>1, <1>2, <1>5 DEF Under
  <2>2. text = stored \o acBuffer
    <3>1. stored \o acBuffer \o <<>> \o <<>> \o <<>> = text
      BY <1>0, <1>1, <1>5 DEF Under, NoJob
    <3>2. stored \o acBuffer \in Seq(Characters)
      BY <1>2, ConcatProperties
    <3>3. (stored \o acBuffer) \o <<>> = stored \o acBuffer
      BY <3>2, Empties
    <3> QED BY <3>1, <3>3
  <2>3. PICK r \in 0..Len(acBuffer) :
          /\ stored' = stored \o SubSeq(acBuffer, 1, r)
          /\ mode = "BLOCK" => r = Len(acBuffer)
    <3>1. CASE acBuffer = <<>>
      <4>1. stored' = stored
        BY <1>0, <3>1
      <4>2. SubSeq(acBuffer, 1, 0) = <<>> /\ Len(acBuffer) = 0 /\ 0 \in 0..Len(acBuffer)
        BY <3>1
      <4>3. stored \o <<>> = stored
        BY <1>2, Empties
      <4> QED BY <4>1, <4>2, <4>3
    <3>2. CASE acBuffer # <<>>
      <4>1. Len(acBuffer) # 0
        BY <1>2, <3>2, EmptySeq
      <4>2. ReturnValue > 0
        BY <1>2, <2>1, <4>1
      <4>3. PICK r \in WriteResults(Len(acBuffer)) :
              stored' = stored \o SubSeq(acBuffer, 1, r)
        BY <1>0, <3>2, <4>2
      <4>4. r \in 0..Len(acBuffer) /\ (mode = "BLOCK" => r = Len(acBuffer))
        BY <1>1, <1>2, ResultsAre
      <4> QED BY <4>3, <4>4
    <3> QED BY <3>1, <3>2
  <2>4. /\ SubSeq(acBuffer, 1, r) \in Seq(Characters) /\ stored' \in Seq(Characters)
        /\ IsPrefix(stored', text) /\ Len(text) - Len(stored') <= Len(acBuffer)
    BY <1>2, <2>2, <2>3, PartWritten
  <2>5. Grown
    BY <1>2, <2>3, <2>4, GrownBy
  <2>6. ReturnValue' \in Nat
    BY <1>0, <1>2, <2>1
  <2>7. mode = "BLOCK" => stored' = text
    <3>1. SubSeq(acBuffer, 1, Len(acBuffer)) = acBuffer
      BY <1>2, SubSeqFull
    <3> QED BY <2>2, <2>3, <3>1
  <2>8. Len(text) - Len(stored') < BufferSize
    <3>1. Len(text) \in Nat /\ Len(stored') \in Nat
      BY <1>2, <2>4, LenProperties
    <3> QED BY <1>2, <2>1, <2>4, <3>1
  <2>9. /\ ReturnValue' \in Nat \cup {-1} /\ ~(ReturnValue' < 0) /\ text' = text
    BY <1>0, <2>6
  <2>10. PrintInv'
    BY <1>3, <2>4, <2>7, <2>8, <2>9, IdleKept
  <2> QED BY <2>5, <2>10
<1> QED BY <1>2, <1>4, <1>5

(* A call on terminals leaves nothing of the last printf().                *)
LEMMA TerminalsKept ==
  ASSUME PrintInv, NEW action, OnTerminals(action), UNCHANGED mode
  PROVE  PrintInv'
<1>1. /\ Idle /\ sFormat' = <<"NUL">> /\ acBuffer' = <<>> /\ ReturnValue' = 0
      /\ stored' = <<>> /\ text' = <<>> /\ pos' = pos /\ job' = job
  BY DEF OnTerminals
<1>2. pos = 0 /\ job = NoJob /\ mode \in Modes
  BY <1>1 DEF PrintInv, TypeOK, BufferInv, Idle
<1>3. /\ <<>> \in Seq(Characters) /\ Len(<<>>) = 0 /\ <<>> \o <<>> = <<>>
      /\ Len(<<"NUL">>) = 1
  BY Empties
<1>4. IsPrefix(<<>>, <<>>)
  BY <1>3, PrefixOf
<1>5. BufferSize \in Nat \ {0}
  BY PrintfAssumption
<1> QED BY <1>1, <1>2, <1>3, <1>4, <1>5, IdleKept

(* One step of a call.                                                     *)
LEMMA StepKept ==
  ASSUME PrintInv,
         literal \/ conv_number \/ conv_text \/ store_head \/ store_digit \/ store_tail
           \/ finish
  PROVE  PrintInv' /\ Grown /\ ~Idle /\ UNCHANGED mode
<1>1. PrintInv' /\ Grown
  BY literalKept, conv_numberKept, conv_textKept, store_headKept, store_digitKept,
     store_tailKept, finishKept
<1>2. ~Idle
  <2>1. CASE literal \/ conv_number \/ conv_text
    BY <2>1 DEF literal, conv_number, conv_text, AtTop
  <2>2. CASE store_head \/ store_digit \/ store_tail
    <3>1. job # NoJob
      BY <2>2 DEF store_head, store_digit, store_tail, NoJob
    <3> QED BY <3>1 DEF PrintInv, BufferInv
  <2>3. CASE finish
    BY <2>3 DEF finish
  <2> QED BY <2>1, <2>2, <2>3
<1>3. UNCHANGED mode
  BY DEF literal, conv_number, conv_text, store_head, store_digit, store_tail,
         finish, Expand
<1> QED BY <1>1, <1>2, <1>3

-----------------------------------------------------------------------------
(* printf() and the terminals together.                                    *)

(* No character is the byte that announces the name of a terminal.         *)
LEMMA CodeByte ==
  ASSUME NEW c
  PROVE  Code(c) \in 0..254
<1>1. CASE \E d \in 1..16 : Hex[d] = c
  <2> DEFINE d == CHOOSE d \in 1..16 : Hex[d] = c
  <2>1. d \in 1..16
    BY <1>1
  <2> HIDE DEF d
  <2>2. (IF d <= 10 THEN 48 + d - 1 ELSE 65 + d - 11) \in 0..254
    BY <2>1
  <2>3. Code(c) = IF d <= 10 THEN 48 + d - 1 ELSE 65 + d - 11
    BY <1>1, Zenon DEF Code, T!Code0, T!CodeA, d
  <2> QED BY <2>2, <2>3
<1>2. CASE ~\E d \in 1..16 : Hex[d] = c
  <2>1. Code(c) = 120
    BY <1>2, Zenon DEF Code
  <2> QED BY <2>1
<1> QED BY <1>1, <1>2

(* What a step adds to the stored characters is what the host reads.       *)
LEMMA AddedIs ==
  ASSUME NEW S, NEW u \in Seq(S), NEW x \in Seq(S)
  PROVE  SubSeq(u \o x, Len(u) + 1, Len(u \o x)) = x
<1>1. Len(u) \in Nat /\ Len(x) \in Nat /\ Len(u \o x) = Len(u) + Len(x)
  BY LenProperties, ConcatProperties
<1>2. CASE x = <<>>
  <2>1. Len(u \o x) = Len(u)
    BY <1>1, <1>2
  <2>2. Len(u) + 1 \in Int /\ Len(u) \in Int /\ Len(u) < Len(u) + 1
    BY <1>1
  <2> DEFINE w == u \o x
  <2> HIDE DEF w
  <2>3. SubSeq(w, Len(u) + 1, Len(u)) = <<>>
    BY <2>2, SubSeqEmpty
  <2> QED BY <1>2, <2>1, <2>3 DEF w
<1>3. CASE x # <<>>
  <2>0. Len(x) # 0
    BY <1>3, EmptySeq
  <2>1. /\ Len(u) + 1 \in Len(u) + 1..Len(u) + Len(x)
        /\ Len(u) + Len(x) \in Len(u) + 1..Len(u) + Len(x)
        /\ Len(u) + 1 - Len(u) = 1 /\ Len(u) + Len(x) - Len(u) = Len(x)
    BY <1>1, <2>0
  <2>2. SubSeq(u \o x, Len(u) + 1, Len(u) + Len(x)) = SubSeq(x, 1, Len(x))
    BY <2>1, SubSeqOfConcat2
  <2>3. SubSeq(x, 1, Len(x)) = x
    BY SubSeqFull
  <2> QED BY <1>1, <2>2, <2>3
<1> QED BY <1>2, <1>3

(* The characters of a step reach the host and disturb nothing there.      *)
LEMMA StreamsKept ==
  ASSUME TermInv, HostInv, ~Idle, Grown, Streams, UNCHANGED mode,
         stored \in Seq(Characters)
  PROVE  TermInv' /\ HostInv'
<1>1. PICK x \in Seq(Characters) : stored' = stored \o x
  BY DEF Grown
<1> DEFINE bytes == [i \in 1..Len(x) |-> Code(x[i])]
<1>2. SubSeq(stored', Len(stored) + 1, Len(stored')) = x
  BY <1>1, AddedIs
<1>3. /\ T!Received(bytes)
      /\ shown' = [shown EXCEPT !.on = @ \cup T!HostReads(bytes).out]
      /\ seen' = seen \o (IF x # <<>> /\ host.esc THEN Tail(x) ELSE x)
      /\ UNCHANGED <<_ActiveTerminal, crossed, missed>>
  BY <1>2 DEF Streams
<1>4. bytes \in Seq(0..254)
  <2>1. Len(x) \in Nat /\ \A i \in 1..Len(x) : Code(x[i]) \in 0..254
    BY CodeByte, LenProperties
  <2> HIDE DEF Code
  <2> QED BY <2>1
<1> HIDE DEF bytes
<1> DEFINE h == T!HostReads(bytes)
<1>5. /\ HostType /\ _ActiveTerminal \in 0..15 /\ crossed \in BOOLEAN /\ missed \in BOOLEAN
      /\ shown \in [wanted : 0..15, on : SUBSET (0..15), sure : BOOLEAN]
      /\ mode # "TRIM" => ~host.esc /\ seen = stored
      /\ mode # "TRIM" /\ ~missed /\ ~crossed => host.term = _ActiveTerminal
      /\ mode # "TRIM" /\ shown.sure => shown.on \subseteq {shown.wanted}
      /\ shown.wanted = _ActiveTerminal /\ shown.sure = (~missed /\ ~crossed)
  BY DEF TermInv, HostInv, T!TypeOK, HostType, T!HostFollows, T!TextRouted
<1>6. h \in HostSet
  BY <1>4, <1>5, HostReadsType
<1>7. mode # "TRIM" => ~h.esc /\ h.term = host.term /\ h.out \subseteq {host.term}
  BY <1>4, <1>5, TextReads
<1>8. host' = [term |-> h.term, esc |-> h.esc]
  BY <1>3 DEF T!Received
<1>9. shown' = [shown EXCEPT !.on = @ \cup h.out]
  BY <1>3
<1> HIDE DEF h
<1>10. h.out \subseteq 0..15
  BY <1>6 DEF HostSet
<1>11. /\ shown' \in [wanted : 0..15, on : SUBSET (0..15), sure : BOOLEAN]
       /\ shown'.wanted = shown.wanted /\ shown'.sure = shown.sure
       /\ shown'.on = shown.on \cup h.out
  BY <1>5, <1>9, <1>10
<1>12. mode # "TRIM" /\ shown'.sure => shown'.on \subseteq {shown'.wanted}
  <2> SUFFICES ASSUME mode # "TRIM", shown'.sure PROVE shown'.on \subseteq {shown'.wanted}
    OBVIOUS
  <2>1. shown.sure
    BY <1>11
  <2>2. ~missed /\ ~crossed
    BY <1>5, <2>1
  <2>3. host.term = _ActiveTerminal /\ shown.wanted = _ActiveTerminal
    BY <1>5, <2>2
  <2> QED BY <1>5, <1>7, <1>11, <2>1, <2>3
<1>13. mode # "TRIM" /\ ~missed' /\ ~crossed' => h.term = _ActiveTerminal'
  BY <1>3, <1>5, <1>7
<1>14. _ActiveTerminal' \in 0..15 /\ crossed' \in BOOLEAN /\ missed' \in BOOLEAN
  BY <1>3, <1>5
<1>15. TermInv'
  BY <1>6, <1>7, <1>8, <1>11, <1>12, <1>13, <1>14, TermKept
<1>16. mode' # "TRIM" => ~host'.esc /\ seen' = stored'
  BY <1>1, <1>3, <1>5, <1>7, <1>8
<1>17. shown'.wanted = _ActiveTerminal' /\ shown'.sure = (~missed' /\ ~crossed')
  BY <1>3, <1>5, <1>11
<1>18. HostInv'
  BY <1>16, <1>17 DEF HostInv
<1> QED BY <1>15, <1>18

(* A call of printf() begins: nothing of it is seen yet.                   *)
LEMMA printfKept ==
  ASSUME PrintInv, TermInv, NEW f \in Formats, printf(f)
  PROVE  PrintInv' /\ TermInv' /\ HostInv'
<1>1. /\ vprintf(f, mode)
      /\ shown' = [wanted |-> _ActiveTerminal, on |-> {}, sure |-> ~missed /\ ~crossed]
      /\ seen' = <<>>
      /\ UNCHANGED <<_ActiveTerminal, host, crossed, missed>>
  BY Zenon DEF printf
<1>2. mode \in Modes
  BY DEF PrintInv, TypeOK
<1>3. PrintInv'
  BY <1>1, <1>2, vprintfKept
<1>4. UNCHANGED mode /\ stored' = <<>>
  BY <1>1 DEF vprintf
<1>5. /\ _ActiveTerminal \in 0..15 /\ host \in [term : 0..15, esc : BOOLEAN]
      /\ crossed \in BOOLEAN /\ missed \in BOOLEAN
      /\ mode # "TRIM" => ~host.esc
      /\ mode # "TRIM" /\ ~missed /\ ~crossed => host.term = _ActiveTerminal
  BY DEF TermInv, T!TypeOK, T!HostFollows
<1>6. (~missed /\ ~crossed) \in BOOLEAN
  OBVIOUS
<1>7. /\ shown' \in [wanted : 0..15, on : SUBSET (0..15), sure : BOOLEAN]
      /\ shown'.wanted = _ActiveTerminal /\ shown'.on = {}
      /\ shown'.sure = (~missed /\ ~crossed)
  BY <1>1, <1>5, <1>6
<1>8. T!TypeOK'
  BY <1>1, <1>2, <1>4, <1>5, <1>7 DEF T!TypeOK
<1>9. T!HostFollows'
  BY <1>1, <1>4, <1>5 DEF T!HostFollows
<1>10. T!TextRouted'
  BY <1>7 DEF T!TextRouted
<1>11. (mode # "TRIM" => ~host.esc)'
  BY <1>1, <1>4, <1>5
<1>12. TermInv'
  BY <1>8, <1>9, <1>10, <1>11 DEF TermInv
<1>13. HostInv'
  BY <1>1, <1>4, <1>7, <1>11 DEF HostInv
<1> QED BY <1>3, <1>12, <1>13

(* The call goes on.                                                       *)
LEMMA printf_goes_onKept ==
  ASSUME PrintInv, TermInv, HostInv, printf_goes_on
  PROVE  PrintInv' /\ TermInv' /\ HostInv'
<1>1. /\ literal \/ conv_number \/ conv_text \/ store_head \/ store_digit \/ store_tail
           \/ finish
      /\ Streams
  BY DEF printf_goes_on
<1>2. PrintInv' /\ Grown /\ ~Idle /\ UNCHANGED mode
  BY <1>1, StepKept
<1>3. stored \in Seq(Characters)
  BY DEF PrintInv, BufferInv
<1>4. TermInv' /\ HostInv'
  BY <1>1, <1>2, <1>3, StreamsKept
<1> QED BY <1>2, <1>4

(* Between two calls nothing is stored or seen.                            *)
LEMMA HostIdle ==
  ASSUME PrintInv, Idle, TermInv', stored' = <<>>, seen' = <<>>, UNCHANGED pos
  PROVE  HostInv'
<1>1. Idle'
  BY DEF Idle
<1>2. (mode # "TRIM" => ~host.esc)'
  BY DEF TermInv
<1> QED BY <1>1, <1>2 DEF HostInv

AllInv == PrintInv /\ TermInv /\ HostInv

(* The initial states.                                                     *)
LEMMA AllInit ==
  ASSUME OutputInit
  PROVE  AllInv
<1>1. /\ sFormat = <<"NUL">> /\ pos = 0 /\ mode \in Modes
      /\ acBuffer = <<>> /\ ReturnValue = 0 /\ job = NoJob
      /\ stored = <<>> /\ text = <<>> /\ seen = <<>>
  BY DEF OutputInit, Init
<1>2. /\ _ActiveTerminal = 0 /\ host = [term |-> 0, esc |-> FALSE]
      /\ crossed = FALSE /\ missed = FALSE
      /\ shown = [wanted |-> 0, on |-> {}, sure |-> FALSE]
  BY DEF OutputInit, T!Init
<1>3. Idle
  BY <1>1 DEF Idle
<1>4. /\ <<>> \in Seq(Characters) /\ Len(<<>>) = 0 /\ Len(<<"NUL">>) = 1
      /\ BufferSize \in Nat \ {0}
  BY PrintfAssumption
<1>5. IsPrefix(<<>>, <<>>)
  <2>1. <<>> \o <<>> = <<>>
    BY <1>4, Empties
  <2> QED BY <1>4, <2>1, PrefixOf
<1>6. TypeOK
  BY <1>1, <1>4 DEF TypeOK
<1>7. BufferInv
  BY <1>1, <1>3, <1>4, <1>5 DEF BufferInv, NoJob
<1>8. NothingLost /\ Reading /\ BlockedAll
  BY <1>1, <1>3 DEF NothingLost, Reading, BlockedAll
<1>9. LossIsTail
  BY <1>1, <1>4, <1>5 DEF LossIsTail
<1>10. PrintInv
  BY <1>6, <1>7, <1>8, <1>9 DEF PrintInv
<1>11. TermInv
  <2>1. /\ host.term = 0 /\ ~host.esc /\ ~shown.sure
        /\ host \in [term : 0..15, esc : BOOLEAN]
        /\ shown \in [wanted : 0..15, on : SUBSET (0..15), sure : BOOLEAN]
    BY <1>2
  <2>2. T!TypeOK
    BY <1>1, <1>2, <2>1 DEF T!TypeOK
  <2>3. T!HostFollows /\ T!TextRouted
    BY <1>2, <2>1 DEF T!HostFollows, T!TextRouted
  <2> QED BY <2>1, <2>2, <2>3 DEF TermInv
<1>12. HostInv
  BY <1>1, <1>2, <1>3 DEF HostInv
<1> QED BY <1>10, <1>11, <1>12 DEF AllInv

(* Every step keeps it.                                                    *)
LEMMA AllStep ==
  ASSUME AllInv, [OutputNext]_allVars
  PROVE  AllInv'
<1>0. PrintInv /\ TermInv /\ HostInv
  BY DEF AllInv
<1>1. ASSUME NEW f \in Formats, printf(f) PROVE AllInv'
  BY <1>0, <1>1, printfKept DEF AllInv
<1>2. CASE printf_goes_on
  BY <1>0, <1>2, printf_goes_onKept DEF AllInv
<1>3. ASSUME NEW id \in Ids, OnTerminals(T!SetTerminal(id)) PROVE AllInv'
  <2>1. /\ T!SetTerminal(id) /\ Idle /\ stored' = <<>> /\ seen' = <<>> /\ UNCHANGED pos
        /\ OnTerminals(TRUE)
    BY <1>3 DEF OnTerminals
  <2>2. UNCHANGED mode
    BY <2>1 DEF T!SetTerminal
  <2>3. PrintInv'
    BY <1>0, <2>1, <2>2, TerminalsKept
  <2>4. TermInv'
    BY <1>0, <2>1, TermSetTerminal
  <2>5. HostInv'
    BY <1>0, <2>1, <2>4, HostIdle
  <2> QED BY <2>3, <2>4, <2>5 DEF AllInv
<1>4. ASSUME NEW s \in Texts, OnTerminals(T!WriteString(s)) PROVE AllInv'
  <2>1. /\ T!WriteString(s) /\ Idle /\ stored' = <<>> /\ seen' = <<>> /\ UNCHANGED pos
        /\ OnTerminals(TRUE)
    BY <1>4 DEF OnTerminals
  <2>2. UNCHANGED mode
    BY <2>1 DEF T!WriteString
  <2>3. PrintInv'
    BY <1>0, <2>1, <2>2, TerminalsKept
  <2>4. TermInv'
    BY <1>0, <2>1, TermWriteString
  <2>5. HostInv'
    BY <1>0, <2>1, <2>4, HostIdle
  <2> QED BY <2>3, <2>4, <2>5 DEF AllInv
<1>5. ASSUME NEW id \in Ids, NEW s \in Texts, OnTerminals(T!TerminalOut(id, s))
      PROVE  AllInv'
  <2>1. /\ T!TerminalOut(id, s) /\ Idle /\ stored' = <<>> /\ seen' = <<>> /\ UNCHANGED pos
        /\ OnTerminals(TRUE)
    BY <1>5 DEF OnTerminals
  <2>2. UNCHANGED mode
    BY <2>1 DEF T!TerminalOut
  <2>3. PrintInv'
    BY <1>0, <2>1, <2>2, TerminalsKept
  <2>4. TermInv'
    BY <1>0, <2>1, TermTerminalOut
  <2>5. HostInv'
    BY <1>0, <2>1, <2>4, HostIdle
  <2> QED BY <2>3, <2>4, <2>5 DEF AllInv
<1>6. CASE UNCHANGED allVars
  <2>1. /\ UNCHANGED <<sFormat, pos, mode, acBuffer, ReturnValue, job, stored, text>>
        /\ UNCHANGED <<_ActiveTerminal, host, crossed, missed, shown, seen>>
    BY <1>6 DEF allVars, vars, terminals
  <2>2. PrintInv'
    BY <1>0, <2>1 DEF PrintInv, TypeOK, BufferInv, NothingLost, LossIsTail, Reading,
                      BlockedAll, Idle
  <2>3. TermInv'
    BY <1>0, <2>1 DEF TermInv, T!TypeOK, T!HostFollows, T!TextRouted
  <2>4. HostInv'
    BY <1>0, <2>1 DEF HostInv, Idle
  <2> QED BY <2>2, <2>3, <2>4 DEF AllInv
<1> QED BY <1>1, <1>2, <1>3, <1>4, <1>5, <1>6 DEF OutputNext

(* What a user sees follows from the inductive invariant.                  *)
LEMMA AllGives ==
  ASSUME AllInv
  PROVE  /\ OutputInv /\ NothingLost /\ LossIsTail
         /\ HostFollows /\ TextRouted /\ PrintfSeen
<1>1. PrintInv /\ TermInv /\ HostInv
  BY DEF AllInv
<1>2. OutputInv /\ NothingLost /\ LossIsTail
  BY <1>1 DEF PrintInv, TermInv, OutputInv, OutputTypeOK
<1>3. HostFollows /\ TextRouted
  BY <1>1 DEF TermInv, HostFollows, TextRouted
<1>4. /\ acBuffer \in Seq(Characters) /\ stored \in Seq(Characters)
      /\ text \in Seq(Characters)
      /\ mode # "TRIM" => IsPrefix(IF Idle THEN stored ELSE stored \o acBuffer, text)
  BY <1>1 DEF PrintInv, BufferInv
<1>5. mode # "TRIM" => seen = stored
  BY <1>1 DEF HostInv
<1>6. mode # "TRIM" => IsPrefix(stored, text)
  <2>1. CASE Idle
    BY <1>4, <2>1
  <2>2. CASE ~Idle
    BY <1>4, <2>2, PrefixShorter
  <2> QED BY <2>1, <2>2
<1>7. mode = "BLOCK" /\ Idle => stored = text
  BY <1>1 DEF PrintInv, BlockedAll
<1>8. PrintfSeen
  BY <1>5, <1>6, <1>7 DEF PrintfSeen
<1> QED BY <1>2, <1>3, <1>8

(* The inductive invariant, of every state the specification reaches.      *)
LEMMA AllAlways == OutputSpec => []AllInv
<1>1. OutputInit => AllInv
  BY AllInit
<1>2. AllInv /\ [OutputNext]_allVars => AllInv'
  BY AllStep
<1> QED BY <1>1, <1>2, PTL DEF OutputSpec

(* The buffer of printf() on the stack never overflows, whatever writes    *)
(* fail and however it is tried again; an id out of range never becomes    *)
(* the active terminal; and no printed character is ever taken for the     *)
(* name of a terminal unless bytes are trimmed.                            *)
THEOREM OutputSafe == OutputSpec => []OutputInv
<1>1. AllInv => OutputInv
  BY AllGives
<1> QED BY <1>1, AllAlways, PTL

(* Until a write fails, the code's number conversions, padding and buffer  *)
(* yield just the text that the notes at SEGGER_RTT_printf() promise, for  *)
(* every format, argument, buffer size and width of an unsigned.           *)
THEOREM PrintfNothingLost == OutputSpec => []NothingLost
<1>1. AllInv => NothingLost
  BY AllGives
<1> QED BY <1>1, AllAlways, PTL

(* A call of printf() that reports no error lost at most its last partial  *)
(* buffer.                                                                 *)
THEOREM PrintfLossIsTail == OutputSpec => []LossIsTail
<1>1. AllInv => LossIsTail
  BY AllGives
<1> QED BY <1>1, AllAlways, PTL

(* The host follows SEGGER_RTT_SetTerminal() through every TerminalOut(),  *)
(* WriteString() and printf() unless a pair is lost or crossed.            *)
THEOREM TerminalFollows == OutputSpec => []HostFollows
<1>1. AllInv => HostFollows
  BY AllGives
<1> QED BY <1>1, AllAlways, PTL

(* In the modes that do not trim, text appears on no other terminal than   *)
(* it was meant for: that of TerminalOut() when the pair in front of it    *)
(* was stored, that of WriteString() and all pieces of a printf() call     *)
(* when no pair was lost or crossed since the latest SetTerminal().        *)
THEOREM TerminalTextRouted == OutputSpec => []TextRouted
<1>1. AllInv => TextRouted
  BY AllGives
<1> QED BY <1>1, AllAlways, PTL

(* In the modes that do not trim, failed or not, a user sees a beginning   *)
(* of the text that the format asks for, and all of it where writes block. *)
THEOREM PrintfIsSeen == OutputSpec => []PrintfSeen
<1>1. AllInv => PrintfSeen
  BY AllGives
<1> QED BY <1>1, AllAlways, PTL
=============================================================================
