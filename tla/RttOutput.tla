------------------------------ MODULE RttOutput ------------------------------
(***************************************************************************)
(* RttPrintf and RttTerminal together, as a program uses them: terminals   *)
(* are selected and SEGGER_RTT_printf() is called on the same up-buffer 0. *)
(* What a call stores goes into the stream that the host follows, piece by *)
(* piece; one thread prints, so a call ends before a terminal is selected. *)
(***************************************************************************)
EXTENDS RttPrintf

CONSTANTS
  Ids,         \* arguments TerminalId
  Texts,       \* strings for SEGGER_RTT_WriteString() and TerminalOut()
  LaterFormats \* bound: the formats printed once a terminal was selected

VARIABLES
  _ActiveTerminal, host, crossed, missed, shown,  \* see RttTerminal
  seen   \* history: what the host showed of the latest printf() call

T == INSTANCE RttTerminal

ASSUME OutputAssumption ==
  /\ Ids \subseteq 0..127 /\ LaterFormats \subseteq Formats
  /\ Texts \subseteq Seq(0..254)

terminals == <<_ActiveTerminal, host, crossed, missed, shown>>
allVars == <<vars, terminals, seen>>

OutputInit == Init /\ T!Init /\ seen = <<>>

(* The byte of a character: a digit or a letter A to F may name a          *)
(* terminal, the others do not.                                            *)
Code(c) ==
  IF \E d \in 1..16 : Hex[d] = c
    THEN LET d == CHOOSE d \in 1..16 : Hex[d] = c
         IN IF d <= 10 THEN T!Code0 + d - 1 ELSE T!CodeA + d - 11
    ELSE 120

(* The characters the step stores reach the host.                          *)
Streams ==
  LET new == SubSeq(stored', Len(stored) + 1, Len(stored'))
      bytes == [i \in 1..Len(new) |-> Code(new[i])]
      swallowed == new # <<>> /\ host.esc
  IN /\ T!Received(bytes)
     /\ shown' = [shown EXCEPT !.on = @ \cup T!HostReads(bytes).out]
     /\ seen' = seen \o (IF swallowed THEN Tail(new) ELSE new)
     /\ UNCHANGED <<_ActiveTerminal, crossed, missed>>

(* SEGGER_RTT_printf(0, f, ...).                                           *)
printf(f) ==
  /\ vprintf(f, mode)
  /\ \/ f \in LaterFormats
     \/ _ActiveTerminal = 0 /\ host.term = 0 /\ ~host.esc /\ ~missed /\ ~crossed
  /\ shown' = [wanted |-> _ActiveTerminal, on |-> {}, sure |-> ~missed /\ ~crossed]
  /\ seen' = <<>>
  /\ UNCHANGED <<_ActiveTerminal, host, crossed, missed>>

printf_goes_on ==
  /\ literal \/ conv_number \/ conv_text \/ store_head \/ store_digit \/ store_tail
     \/ finish
  /\ Streams

(* A call on terminals.  The locals of the last printf() call are gone.    *)
OnTerminals(action) ==
  /\ Idle /\ action
  /\ sFormat' = <<"NUL">> /\ acBuffer' = <<>> /\ ReturnValue' = 0
  /\ stored' = <<>> /\ text' = <<>> /\ seen' = <<>>
  /\ UNCHANGED <<pos, job>>

OutputNext ==
  \/ \E f \in Formats : printf(f)
  \/ printf_goes_on
  \/ \E id \in Ids : OnTerminals(T!SetTerminal(id))
  \/ \E s \in Texts : OnTerminals(T!WriteString(s))
  \/ \E id \in Ids, s \in Texts : OnTerminals(T!TerminalOut(id, s))

OutputSpec == OutputInit /\ [][OutputNext]_allVars

-----------------------------------------------------------------------------
(* Type invariant, of both modules: also, no flush leaves more than        *)
(* BufferSize characters in the buffer.                                    *)
OutputTypeOK == TypeOK /\ T!TypeOK

(* Unless bytes are trimmed, the host never waits for the name of a        *)
(* terminal, and a user sees of a printf() call what was stored of it.     *)
HostInv ==
  /\ mode # "TRIM" => ~host.esc /\ seen = stored
  /\ ~Idle => shown.wanted = _ActiveTerminal /\ shown.sure = (~missed /\ ~crossed)

(* With the properties below, what every step relies on and keeps: types,  *)
(* the state of the buffer, and what the host has made of it.              *)
OutputInv == OutputTypeOK /\ BufferInv /\ HostInv

(* RttTerminal: the host is on the active terminal unless a pair was lost  *)
(* or crossed since SetTerminal(), also behind printf() calls.             *)
HostFollows == T!HostFollows

(* RttTerminal: unless bytes are trimmed, text appears on the terminal it  *)
(* was meant for; here also all pieces of a printf() call, if no pair was  *)
(* lost or crossed since the latest SetTerminal().                         *)
TextRouted == T!TextRouted

(* In the modes that do not trim, SKIP and BLOCK, failed or not: what a    *)
(* user sees of a printf() call is a beginning of the text that the format *)
(* asks for and never a piece twice, although the full buffer may be tried *)
(* again behind the digits, and whatever pairs were lost before: no        *)
(* character is taken for the name of a terminal.  Where writes block, all *)
(* of it is seen when the call returns.  In TRIM mode none of this holds:  *)
(* the second try can repeat what the first one stored, and half a pair    *)
(* takes the next character.                                               *)
PrintfSeen ==
  /\ mode # "TRIM" => IsPrefix(seen, text)
  /\ mode = "BLOCK" /\ Idle => seen = text
=============================================================================
