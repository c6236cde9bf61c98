------------------------------- MODULE RttRing -------------------------------
(***************************************************************************)
(* One ring buffer of the RTT control block (rtt/SEGGER_RTT.c), shared     *)
(* without a lock by a writer and a reader on two different processors.    *)
(*                                                                         *)
(* For the up-buffer of channel 0 the writer is the target, in             *)
(* SEGGER_RTT_Write(), and the reader the debugger host; for the           *)
(* down-buffer the reader is the target, in SEGGER_RTT_Read(), and the     *)
(* writer the host.  The host is taken to follow the target's code from    *)
(* the other side, so that one module serves both.                         *)
(*                                                                         *)
(* Every access to an offset the other side may change is a step of its    *)
(* own.  The bytes written are numbered in the order in which the callers  *)
(* of Write() pass them.                                                   *)
(***************************************************************************)
EXTENDS Integers, Sequences

CONSTANTS
  Size,      \* SizeOfBuffer
  Modes,     \* the modes in use: a subset of {"SKIP", "TRIM", "BLOCK"}
  MaxCall,   \* bound: bytes of one call of Write() and of Read()
  MaxBytes   \* bound: bytes of all calls of Write()

ASSUME RingAssumption ==
  /\ Size \in Nat \ {0}
  /\ Modes \subseteq {"SKIP", "TRIM", "BLOCK"} /\ Modes # {}
  /\ MaxCall \in Nat /\ MaxBytes \in Nat

VARIABLES
  WrOff, RdOff,     \* the shared offsets
  ring,             \* the bytes at pBuffer
  mode,             \* Flags & SEGGER_RTT_MODE_MASK
  wpc,              \* where the writer is in Write()
  arg,              \* Write(): the caller's bytes
  NumBytes,         \* Write(): bytes still to write
  NumBytesWritten,  \* Write(): bytes written so far
  NumBytesToWrite,  \* Write(): bytes of this turn of the loop
  rpc,              \* where the reader is in Read()
  BufferSize,       \* Read(): room in the caller's buffer
  wr,               \* Read(): its local copy of WrOff
  rd,               \* Read(): its local copy of RdOff
  copied,           \* Read(): the bytes in the caller's buffer
  got,              \* history: the bytes the reader has taken
  accepted,         \* history: the bytes that Write() reported as stored
  made,             \* history: number of bytes passed to Write()
  last              \* history: the latest finished call of Write()

writeVars == <<wpc, arg, NumBytes, NumBytesWritten, NumBytesToWrite, accepted,
               made, last>>
readVars == <<rpc, BufferSize, wr, rd, copied, got>>
vars == <<WrOff, RdOff, ring, mode, writeVars, readVars>>

Init ==
  /\ WrOff = 0 /\ RdOff = 0
  /\ ring = [i \in 0..Size - 1 |-> 0]
  /\ mode \in Modes
  /\ wpc = "idle" /\ arg = <<>>
  /\ NumBytes = 0 /\ NumBytesWritten = 0 /\ NumBytesToWrite = 0
  /\ rpc = "idle" /\ BufferSize = 0 /\ wr = 0 /\ rd = 0 /\ copied = <<>>
  /\ got = <<>> /\ accepted = <<>> /\ made = 0
  /\ last = [mode |-> "SKIP", asked |-> 0, stored |-> 0]

MIN(a, b) == IF a < b THEN a ELSE b

(* The bytes between the offsets, oldest first.  Either offset may be Size *)
(* for a while, which is the same place as 0.                              *)
Used == (WrOff - RdOff) % Size

Content == [i \in 1..Used |-> ring[(RdOff + i - 1) % Size]]

-----------------------------------------------------------------------------
(* SEGGER_RTT_Write().                                                     *)

(* Mutant: the byte that tells full from empty is used too.                *)
Free_all == IF RdOff - WrOff <= 0 THEN RdOff - WrOff + Size ELSE RdOff - WrOff

(* The room in the ring, from a fresh look at RdOff.                       *)
Free == IF RdOff - WrOff - 1 < 0 THEN RdOff - WrOff - 1 + Size
                                 ELSE RdOff - WrOff - 1

WriteReturns(asked, result, bytes) ==
  /\ wpc' = "idle"
  /\ accepted' = accepted \o SubSeq(bytes, 1, result)
  /\ last' = [mode |-> mode, asked |-> asked, stored |-> result]

(* Mutant: bytes that do not fit are trimmed in every mode.                *)
Fitting_trim(n) == IF mode = "BLOCK" \/ n <= Free THEN n ELSE Free

(* Mutant: the room is not calculated beforehand.                          *)
Fitting_all(n) == n

(* How many of n bytes the call will store: all in blocking mode or when   *)
(* they fit; else none or as many as fit.                                  *)
Fitting(n) ==
  CASE mode = "BLOCK" \/ n <= Free -> n
    [] mode = "SKIP" /\ n > Free -> 0
    [] mode = "TRIM" /\ n > Free -> Free

(* Entry of Write(), up to the loop.                                       *)
Write(n) ==
  /\ wpc = "idle"
  /\ made + n <= MaxBytes
  /\ made' = made + n
  /\ arg' = [i \in 1..n |-> made + i]
  /\ NumBytes' = Fitting(n)
  /\ NumBytesWritten' = 0
  /\ IF Fitting(n) = 0 THEN WriteReturns(n, 0, arg')
                       ELSE wpc' = "size" /\ UNCHANGED <<accepted, last>>
  /\ UNCHANGED <<WrOff, RdOff, ring, mode, NumBytesToWrite, readVars>>

(* Mutant: the end of the buffer is ignored.                               *)
write_size_no_end ==
  /\ wpc = "size" /\ wpc' = "copy"
  /\ NumBytesToWrite' = MIN(Free, NumBytes)
  /\ UNCHANGED <<WrOff, RdOff, ring, mode, arg, NumBytes, NumBytesWritten,
                 accepted, made, last, readVars>>

(* Top of the loop: how much can be written now in one piece.              *)
write_size ==
  /\ wpc = "size" /\ wpc' = "copy"
  /\ NumBytesToWrite' = MIN(MIN(Free, Size - WrOff), NumBytes)
  /\ UNCHANGED <<WrOff, RdOff, ring, mode, arg, NumBytes, NumBytesWritten,
                 accepted, made, last, readVars>>

(* MEMCPY and the local counters.                                          *)
write_copy ==
  /\ wpc = "copy" /\ wpc' = "advance"
  /\ ring' = [i \in 0..Size - 1 |->
                IF i \in WrOff..WrOff + NumBytesToWrite - 1
                  THEN arg[NumBytesWritten + i - WrOff + 1]
                  ELSE ring[i]]
  /\ NumBytesWritten' = NumBytesWritten + NumBytesToWrite
  /\ NumBytes' = NumBytes - NumBytesToWrite
  /\ UNCHANGED <<WrOff, RdOff, mode, arg, NumBytesToWrite, accepted, made,
                 last, readVars>>

(* WrOff moves on: the reader can see the new bytes, and WrOff = Size.     *)
write_advance ==
  /\ wpc = "advance" /\ wpc' = "wrap"
  /\ WrOff' = WrOff + NumBytesToWrite
  /\ UNCHANGED <<RdOff, ring, mode, arg, NumBytes, NumBytesWritten,
                 NumBytesToWrite, accepted, made, last, readVars>>

(* Mutant: one turn of the loop only, and the result is what was asked.    *)
write_wrap_once ==
  /\ wpc = "wrap"
  /\ WrOff' = IF WrOff = Size THEN 0 ELSE WrOff
  /\ WriteReturns(Len(arg), NumBytesWritten + NumBytes, arg)
  /\ UNCHANGED <<RdOff, ring, mode, arg, NumBytes, NumBytesWritten,
                 NumBytesToWrite, made, readVars>>

(* WrOff wraps around; the loop goes on or Write() returns.                *)
write_wrap ==
  /\ wpc = "wrap"
  /\ WrOff' = IF WrOff = Size THEN 0 ELSE WrOff
  /\ IF NumBytes # 0 THEN wpc' = "size" /\ UNCHANGED <<accepted, last>>
                     ELSE WriteReturns(Len(arg), NumBytesWritten, arg)
  /\ UNCHANGED <<RdOff, ring, mode, arg, NumBytes, NumBytesWritten,
                 NumBytesToWrite, made, readVars>>

(* SEGGER_RTT_ConfigUpBuffer() of channel 0: of its arguments only Flags   *)
(* is used.                                                                *)
ConfigUpBuffer(m) ==
  /\ wpc = "idle"
  /\ mode' = m
  /\ UNCHANGED <<WrOff, RdOff, ring, writeVars, readVars>>

-----------------------------------------------------------------------------
(* SEGGER_RTT_Read().                                                      *)

(* Entry of Read(): the only look at the shared offsets.                   *)
Read(k) ==
  /\ rpc = "idle" /\ rpc' = "copy"
  /\ BufferSize' = k
  /\ wr' = WrOff /\ rd' = RdOff
  /\ UNCHANGED <<WrOff, RdOff, ring, mode, writeVars, copied, got>>

(* Mutant: RdOff does not wrap around.                                     *)
read_copy_no_wrap ==
  LET first == IF rd > wr THEN MIN(Size - rd, BufferSize) ELSE 0
      more == MIN(wr - rd - first, BufferSize - first)
      rest == IF more > 0 THEN more ELSE 0
  IN /\ rpc = "copy" /\ rpc' = "commit"
     /\ copied' = [i \in 1..first + rest |-> ring[(rd + i - 1) % Size]]
     /\ rd' = rd + first + rest
     /\ UNCHANGED <<WrOff, RdOff, ring, mode, writeVars, BufferSize, wr, got>>

(* Both MEMCPYs: up to the end of the buffer, then from its start; the     *)
(* second one does not wrap RdOff around.                                  *)
read_copy ==
  LET first == IF rd > wr THEN MIN(Size - rd, BufferSize) ELSE 0
      turned == IF rd > wr /\ rd + first = Size THEN 0 ELSE rd + first
      more == MIN(wr - turned, BufferSize - first)
      rest == IF more > 0 THEN more ELSE 0
  IN /\ rpc = "copy" /\ rpc' = "commit"
     /\ copied' = [i \in 1..first + rest |-> ring[(rd + i - 1) % Size]]
     /\ rd' = turned + rest
     /\ UNCHANGED <<WrOff, RdOff, ring, mode, writeVars, BufferSize, wr, got>>

(* The bytes read become free for the writer; RdOff is left alone when     *)
(* there were none.                                                        *)
read_commit ==
  /\ rpc = "commit" /\ rpc' = "idle"
  /\ RdOff' = IF copied # <<>> THEN rd ELSE RdOff
  /\ got' = got \o copied
  /\ copied' = <<>>
  /\ UNCHANGED <<WrOff, ring, mode, writeVars, BufferSize, wr, rd>>

WriteStep == write_size \/ write_copy \/ write_advance \/ write_wrap

ReadStep ==
  (\E k \in 1..MaxCall : Read(k)) \/ read_copy \/ read_commit

Next ==
  \/ \E n \in 0..MaxCall : Write(n)
  \/ \E m \in Modes : ConfigUpBuffer(m)
  \/ WriteStep
  \/ ReadStep

Spec == Init /\ [][Next]_vars

(* The writer, once in Write(), keeps running, and the reader keeps        *)
(* reading.  Nobody has to call Write().                                   *)
FairSpec == Spec /\ WF_vars(WriteStep) /\ WF_vars(ReadStep)

-----------------------------------------------------------------------------
(* Type invariant.  Both offsets may be Size for a while.                  *)
TypeOK ==
  /\ WrOff \in 0..Size /\ RdOff \in 0..Size
  /\ ring \in [0..Size - 1 -> Nat]
  /\ mode \in Modes
  /\ wpc \in {"idle", "size", "copy", "advance", "wrap"}
  /\ arg \in Seq(Nat)
  /\ NumBytes \in Nat /\ NumBytesWritten \in Nat /\ NumBytesToWrite \in Nat
  /\ rpc \in {"idle", "copy", "commit"}
  /\ BufferSize \in Nat /\ wr \in 0..Size /\ rd \in 0..Size
  /\ copied \in Seq(Nat) /\ got \in Seq(Nat) /\ accepted \in Seq(Nat)
  /\ made \in Nat

Channel == INSTANCE ByteChannel WITH chan <- Content, Capacity <- Size - 1

(* Whatever the interleaving of Write() and Read(), and although WrOff is  *)
(* briefly Size, the ring is a first-in first-out channel of Size - 1      *)
(* bytes: the writer never overwrites a byte the reader is copying, and    *)
(* the reader never takes a byte twice or too early.                       *)
ImplementsChannel == Channel!Spec

(* When no Write() is under way, the bytes the reader has taken or will    *)
(* find in the ring are exactly those whose storing Write() reported.      *)
ReportedIsStored == wpc = "idle" => got \o Content = accepted

(* What becomes of bytes that do not fit: SKIP stores all of a call or     *)
(* none, BLOCK stores all, whatever the reader did in the meantime.        *)
ModeContract ==
  /\ last.mode = "SKIP" => last.stored \in {0, last.asked}
  /\ last.mode = "BLOCK" => last.stored = last.asked

(* In the non-blocking modes every turn of the loop of Write() stores      *)
(* bytes, even if the reader has stopped: the room calculated beforehand   *)
(* cannot shrink, so Write() never waits.                                  *)
NeverWaits == wpc = "copy" /\ mode # "BLOCK" => NumBytesToWrite > 0

(* What the reader leaves to the writer.  Other than Free it is right also *)
(* while WrOff is Size.                                                    *)
Room == Size - 1 - Used

(* The bytes of this call that are in the ring for the reader to see, and  *)
(* those that are there but not yet behind WrOff.                          *)
Shown ==
  CASE wpc = "idle" -> 0
    [] wpc = "advance" -> NumBytesWritten - NumBytesToWrite
    [] OTHER -> NumBytesWritten

Hidden == IF wpc = "advance" THEN NumBytesToWrite ELSE 0

(* The writer's part of the inductive invariant: the piece it is writing   *)
(* fits behind WrOff and before the reader, and the counters of the call   *)
(* add up to what it set out to store.                                     *)
WriterInv ==
  /\ WrOff = Size => wpc = "wrap" /\ RdOff # 0
  /\ wpc = "size" => NumBytes > 0
  /\ wpc = "copy" => NumBytesToWrite <= NumBytes
  /\ wpc = "advance" => NumBytesToWrite <= NumBytesWritten
  /\ wpc \in {"copy", "advance"} =>
       NumBytesToWrite <= Room /\ NumBytesToWrite <= Size - WrOff
  /\ \A i \in 1..Hidden : ring[WrOff + i - 1] = arg[Shown + i]
  /\ wpc # "idle" =>
       /\ NumBytesWritten + NumBytes <= Len(arg)
       /\ mode # "TRIM" => NumBytesWritten + NumBytes = Len(arg)
       /\ mode # "BLOCK" => Hidden + NumBytes <= Room

(* The reader's part: its copy of WrOff may be old but is never behind     *)
(* RdOff, what it has copied is the front of what the ring holds, and when *)
(* it turns the end of the ring the writer, still ahead of it by less than *)
(* a turn, is not at that end.                                             *)
ReaderInv ==
  /\ rpc = "copy" =>
       /\ rd = RdOff
       /\ wr - rd # Size /\ (wr - rd) % Size <= Used
       /\ wr < rd => WrOff < RdOff
  /\ rpc = "commit" =>
       /\ Len(copied) <= Used
       /\ \A i \in 1..Len(copied) : copied[i] = Content[i]
       /\ copied # <<>> => (rd - RdOff) % Size = Len(copied)
       /\ copied # <<>> /\ rd = 0 => WrOff < RdOff
  /\ rpc # "commit" => copied = <<>>

(* Nothing is lost or made up between the two.                             *)
BytesKept == got \o Content = accepted \o SubSeq(arg, 1, Shown)

(* The inductive invariant from which the ring's properties follow.        *)
RingInv ==
  /\ TypeOK
  /\ last \in [mode : {"SKIP", "TRIM", "BLOCK"}, asked : Nat, stored : Nat]
  /\ WriterInv
  /\ ReaderInv
  /\ BytesKept
  /\ ModeContract
  /\ NeverWaits

(* With a reader that keeps reading, Write() returns in every mode and     *)
(* every byte reported as stored is read.                                  *)
StoredIsRead ==
  /\ (wpc # "idle") ~> (wpc = "idle")
  /\ \A n \in 1..MaxBytes : (Len(accepted) >= n) ~> (Len(got) >= n)
=============================================================================
