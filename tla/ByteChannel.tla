----------------------------- MODULE ByteChannel -----------------------------
(***************************************************************************)
(* What one RTT ring buffer promises: a bounded first-in first-out channel *)
(* of bytes between two parties.  Bytes enter at the back, a few at a      *)
(* time, and leave at the front in the same order; none is lost, repeated  *)
(* or changed on the way.                                                  *)
(***************************************************************************)
EXTENDS Naturals, Sequences

CONSTANT Capacity  \* bytes that fit

VARIABLES
  chan,  \* the bytes under way
  got    \* the bytes that have arrived

Init == chan = <<>> /\ got = <<>>

Put ==
  /\ Len(chan') \in Len(chan)..Capacity
  /\ SubSeq(chan', 1, Len(chan)) = chan
  /\ UNCHANGED got

Get ==
  \E n \in 1..Len(chan) :
    /\ got' = got \o SubSeq(chan, 1, n)
    /\ chan' = SubSeq(chan, n + 1, Len(chan))

Spec == Init /\ [][Put \/ Get]_<<chan, got>>
=============================================================================
