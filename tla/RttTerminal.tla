----------------------------- MODULE RttTerminal -----------------------------
(***************************************************************************)
(* Virtual terminals on up-buffer 0 (rtt/SEGGER_RTT.c): the target selects *)
(* a terminal by writing 0xFF and a character that names it in front of    *)
(* its text; the host follows these pairs in the stream.                   *)
(*                                                                         *)
(* As in RttPrintf the ring is seen through what SEGGER_RTT_Write() may    *)
(* store of a call.  The host is external: it shows text on the terminal   *)
(* selected last, and stays there when the character names no terminal.    *)
(***************************************************************************)
EXTENDS Integers, Sequences

CONSTANTS
  Ids,    \* arguments TerminalId, a subset of 0..127
  Texts,  \* strings to write: sequences of bytes other than 0xFF
  Modes   \* modes of the up-buffer, a subset of {"SKIP", "TRIM", "BLOCK"}

VARIABLES
  mode,             \* mode of the up-buffer
  _ActiveTerminal,  \* the terminal SetTerminal() chose
  host,             \* the host: selected terminal, and whether 0xFF came last
  crossed,          \* history: TerminalOut() used the other range of ids
  missed,           \* history: a pair was not stored
                    \* (both: since the latest SetTerminal())
  shown             \* history: where the latest text was meant to go and went

vars == <<mode, _ActiveTerminal, host, crossed, missed, shown>>

Init ==
  /\ mode \in Modes
  /\ _ActiveTerminal = 0
  /\ host = [term |-> 0, esc |-> FALSE]
  /\ crossed = FALSE /\ missed = FALSE
  /\ shown = [wanted |-> 0, on |-> {}, sure |-> FALSE]

ESC == 255
Code0 == 48
CodeA == 65

-----------------------------------------------------------------------------
(* The host, external.                                                     *)
Named(c, else) ==
  IF c \in Code0..Code0 + 9 THEN c - Code0
  ELSE IF c \in CodeA..CodeA + 5 THEN c - CodeA + 10 ELSE else

(* The host after one more byte; out collects the terminals text is on.    *)
HostByte(h, c) ==
  IF h.esc THEN [h EXCEPT !.term = Named(c, h.term), !.esc = FALSE]
  ELSE IF c = ESC THEN [h EXCEPT !.esc = TRUE]
  ELSE [h EXCEPT !.out = @ \cup {h.term}]

(* The host after the first n bytes, for each n.                           *)
HostReading(bytes) ==
  LET h[n \in Nat] ==
        IF n = 0 THEN [term |-> host.term, esc |-> host.esc, out |-> {}]
        ELSE HostByte(h[n - 1], bytes[n])
  IN h

HostReads(bytes) == HostReading(bytes)[Len(bytes)]

-----------------------------------------------------------------------------
(* Mutant: the room is not looked at beforehand in SKIP mode.              *)
Write_trimmed(bytes) ==
  IF mode = "BLOCK" THEN {bytes}
                    ELSE {SubSeq(bytes, 1, n) : n \in 0..Len(bytes)}

(* What SEGGER_RTT_Write() may store of some bytes (RttRing, ModeContract).*)
Write(bytes) ==
  CASE mode = "BLOCK" -> {bytes}
    [] mode = "SKIP" -> {<<>>, bytes}
    [] mode = "TRIM" -> {SubSeq(bytes, 1, n) : n \in 0..Len(bytes)}

(* The pair that selects a terminal.                                       *)
Select(id) == <<ESC, IF id < 10 THEN Code0 + id ELSE CodeA + (id - 10)>>

Received(bytes) ==
  LET h == HostReads(bytes) IN host' = [term |-> h.term, esc |-> h.esc]

Shows(wanted, bytes, sure) ==
  shown' = [wanted |-> wanted, on |-> HostReads(bytes).out, sure |-> sure]

(* SEGGER_RTT_SetTerminal(); an id of 16 or more is ignored.               *)
SetTerminal(id) ==
  /\ id < 16
  /\ _ActiveTerminal' = id
  /\ \E w \in Write(Select(id)) : Received(w) /\ missed' = (w # Select(id))
  /\ crossed' = FALSE
  /\ UNCHANGED <<mode, shown>>

(* SEGGER_RTT_WriteString(), meant for the active terminal.                *)
WriteString(s) ==
  /\ \E w \in Write(s) :
       Received(w) /\ Shows(_ActiveTerminal, w, ~missed /\ ~crossed)
  /\ UNCHANGED <<mode, _ActiveTerminal, crossed, missed>>

(* Mutant: the text goes out before its terminal is selected.              *)
Out_text_first(id, s) == <<s, Select(id)>>

(* What TerminalOut() writes before it switches back.                      *)
Out(id, s) == <<Select(id), s>>

(* Mutant: it switches back to terminal 0.                                 *)
Back_zero(id) == <<ESC, Code0>>

(* The pair that switches back to the active terminal: a digit or a letter *)
(* according to the terminal of the text, not to the active one.           *)
Back(id) ==
  <<ESC, (IF id < 10 THEN Code0 + _ActiveTerminal
                     ELSE CodeA + (_ActiveTerminal - 10)) % 256>>

(* SEGGER_RTT_TerminalOut(); an id of 16 or more is refused.  Each of the  *)
(* three writes may fail by itself.                                        *)
TerminalOut(id, s) ==
  /\ id < 16
  /\ \E w1 \in Write(Out(id, s)[1]), w2 \in Write(Out(id, s)[2]),
        w3 \in Write(Back(id)) :
       LET bytes == w1 \o w2 \o w3 IN
       /\ Received(bytes)
       /\ Shows(id, bytes, w1 = Out(id, s)[1])
       /\ missed' = (missed \/ (w1 # <<>> /\ w3 # Back(id)))
  /\ crossed' = (crossed \/ (id < 10) # (_ActiveTerminal < 10))
  /\ UNCHANGED <<mode, _ActiveTerminal>>

Next ==
  \/ \E id \in Ids : SetTerminal(id)
  \/ \E s \in Texts : WriteString(s)
  \/ \E id \in Ids, s \in Texts : TerminalOut(id, s)

Spec == Init /\ [][Next]_vars

-----------------------------------------------------------------------------
(* Type invariant: an id out of range never becomes the active one.        *)
TypeOK ==
  /\ mode \in Modes
  /\ _ActiveTerminal \in 0..15
  /\ host \in [term : 0..15, esc : BOOLEAN]
  /\ crossed \in BOOLEAN /\ missed \in BOOLEAN
  /\ shown \in [wanted : 0..15, on : SUBSET (0..15), sure : BOOLEAN]

(* Unless bytes are trimmed, the host follows SetTerminal(): whatever      *)
(* TerminalOut() and lost texts came between, it is on the active          *)
(* terminal, provided that no pair was lost and TerminalOut() stayed in    *)
(* the range of the active id.  The next SetTerminal() that is stored puts *)
(* it right in any case.                                                   *)
HostFollows ==
  mode # "TRIM" /\ ~missed /\ ~crossed => host.term = _ActiveTerminal

(* Unless bytes are trimmed, a text appears on no other terminal than the  *)
(* one it was meant for, if the pair in front of it was stored             *)
(* (TerminalOut) or no pair was lost or crossed since the latest           *)
(* SetTerminal() (WriteString), although earlier pairs may be lost or      *)
(* wrong.                                                                  *)
TextRouted ==
  mode # "TRIM" /\ shown.sure => shown.on \subseteq {shown.wanted}

(* SEGGER_RTT_TerminalOut() "Writes a string to the given terminal without *)
(* changing the terminal for channel 0", here when nothing can get lost.   *)
TerminalKept ==
  [][mode = "BLOCK" /\ host.term = _ActiveTerminal
       => host'.term = _ActiveTerminal']_vars
=============================================================================
