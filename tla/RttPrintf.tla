------------------------------ MODULE RttPrintf ------------------------------
(***************************************************************************)
(* SEGGER_RTT_vprintf() (rtt/SEGGER_RTT_printf.c): a format is expanded    *)
(* character by character into a small buffer on the stack, which is       *)
(* written to an up-buffer of the control block whenever it is full.       *)
(*                                                                         *)
(* A format is a sequence of characters that ends with "NUL".  The up-     *)
(* buffer is seen through what SEGGER_RTT_Write() may return in each mode  *)
(* (RttRing, ModeContract): how much room there is depends on the host.    *)
(* An unsigned has Word values; PtrDigits is the 8 of %p at that width.    *)
(***************************************************************************)
EXTENDS Integers, SequencesExt

CONSTANTS
  Formats,    \* the format strings in use
  Ints,       \* arguments of %d, %u, %x, %X and %p
  Strings,    \* arguments of %s
  Chars,      \* arguments of %c
  Modes,      \* modes of the up-buffer
  BufferSize, \* SEGGER_RTT_PRINTF_BUFFER_SIZE
  Word,       \* number of values of an unsigned
  PtrDigits   \* digits of a pointer

VARIABLES
  sFormat,      \* the format
  pos,          \* how far it was read; 0 when no call is under way
  mode,         \* mode of the up-buffer
  acBuffer,     \* the buffer, up to Cnt
  ReturnValue,  \* BufferDesc.ReturnValue
  job,          \* what the current conversion still has to store
  stored,       \* history: characters stored in the up-buffer by this call
  text          \* history: what the format asks for so far

vars == <<sFormat, pos, mode, acBuffer, ReturnValue, job, stored, text>>

Hex == <<"0", "1", "2", "3", "4", "5", "6", "7", "8", "9",
         "A", "B", "C", "D", "E", "F">>

DigitChars == {Hex[d] : d \in 1..10}

(* The characters that formats, arguments and conversions are made of.     *)
Characters ==
  (UNION {{f[i] : i \in 1..Len(f)} : f \in Formats \cup Strings})
    \cup Chars \cup {Hex[d] : d \in 1..16} \cup {" ", "-", "+", "%"}

Rep(c, n) == [i \in 1..n |-> c]

NoJob == [head |-> <<>>, digits |-> <<>>, tail |-> <<>>]

Init ==
  /\ sFormat = <<"NUL">> /\ pos = 0
  /\ mode \in Modes
  /\ acBuffer = <<>> /\ ReturnValue = 0 /\ job = NoJob
  /\ stored = <<>> /\ text = <<>>

-----------------------------------------------------------------------------
(* Number conversions.  A job is three pieces: a failed write during head  *)
(* ends the conversion, one during digits goes on with tail.               *)

(* Where the loops stand after k rounds: a number divided by Base, Digit   *)
(* multiplied by it, and what is left of v when Digit goes from d to 0.    *)
Divided(n, Base) ==
  LET q[k \in Nat] == IF k = 0 THEN n ELSE q[k - 1] \div Base IN q

Raised(Base) ==
  LET p[k \in Nat] == IF k = 0 THEN 1 ELSE (p[k - 1] * Base) % Word IN p

Rest(v, d, Base) ==
  LET r[k \in Nat] == IF k = 0 THEN v
                      ELSE IF Divided(d, Base)[k - 1] = 0 THEN r[k - 1]
                      ELSE r[k - 1] % Divided(d, Base)[k - 1]
  IN r

(* The width a number needs.                                               *)
WidthOf(v, Base, NumDigits) ==
  LET Small(k) == Divided(v, Base)[k] < Base
      Width == 1 + CHOOSE k \in 0..v : Small(k) /\ \A j \in 0..k - 1 : ~Small(j)
  IN IF NumDigits > Width THEN NumDigits ELSE Width

(* The loop while ((FieldWidth != 0) && (Width < FieldWidth--)): how many  *)
(* characters it stores, and the FieldWidth it leaves.                     *)
Pads(FieldWidth, Width) ==
  IF Width < FieldWidth THEN FieldWidth - Width ELSE 0

PadsLeave(FieldWidth, Width) ==
  IF FieldWidth = 0 THEN 0
  ELSE IF Width < FieldWidth THEN Width - 1 ELSE FieldWidth - 1

(* The rounds that find the largest power of Base needed.                  *)
Rounds(v, Base, NumDigits) ==
  LET More(k) == v \div Raised(Base)[k] >= Base \/ NumDigits - k > 1
  IN CHOOSE k \in 0..Word : ~More(k) /\ \A j \in 0..k - 1 : More(j)

(* The digits: divide by that power and by the smaller ones, down to 1.    *)
DigitsOf(v, Base, NumDigits) ==
  LET d == Raised(Base)[Rounds(v, Base, NumDigits)]
      Digit == Divided(d, Base)
      last == CHOOSE k \in 0..Word : Digit[k + 1] = 0 /\ \A j \in 1..k : Digit[j] # 0
  IN [k \in 1..last + 1 |-> Hex[Rest(v, d, Base)[k - 1] \div Digit[k - 1] + 1]]

PrintUnsigned(v, Base, NumDigits, FieldWidth, Flags) ==
  LET n == Pads(FieldWidth, WidthOf(v, Base, NumDigits))
      c == IF "0" \in Flags /\ NumDigits = 0 THEN "0" ELSE " "
  IN [head |-> IF "-" \in Flags THEN <<>> ELSE Rep(c, n),
      digits |-> DigitsOf(v, Base, NumDigits),
      tail |-> IF "-" \in Flags THEN Rep(" ", n) ELSE <<>>]

(* Mutant: the sign is not taken off the field width.                      *)
PrintInt_wide(v, Base, NumDigits, FieldWidth, Flags) ==
  LET u == PrintUnsigned(IF v < 0 THEN (-v) % Word ELSE v,
                         Base, NumDigits, FieldWidth, Flags)
      sign == IF v < 0 THEN <<"-">> ELSE IF "+" \in Flags THEN <<"+">> ELSE <<>>
  IN [u EXCEPT !.head = sign \o @]

(* Leading spaces or zeros are stored here, so that the sign stands        *)
(* between them; what they leave of FieldWidth goes to PrintUnsigned().    *)
PrintInt(v, Base, NumDigits, FieldWidth, Flags) ==
  LET Number == IF v < 0 THEN (-v) % Word ELSE v
      Width == WidthOf(Number, Base, NumDigits)
      sign == IF v < 0 THEN <<"-">> ELSE IF "+" \in Flags THEN <<"+">> ELSE <<>>
      fw1 == IF FieldWidth > 0 /\ sign # <<>> THEN FieldWidth - 1 ELSE FieldWidth
      spaces == ("0" \notin Flags \/ NumDigits # 0) /\ "-" \notin Flags
      fw2 == IF spaces THEN PadsLeave(fw1, Width) ELSE fw1
      zeros == "0" \in Flags /\ "-" \notin Flags /\ NumDigits = 0
      fw3 == IF zeros THEN PadsLeave(fw2, Width) ELSE fw2
      u == PrintUnsigned(Number, Base, NumDigits, fw3, Flags)
  IN [u EXCEPT !.head = (IF spaces THEN Rep(" ", Pads(fw1, Width)) ELSE <<>>)
                          \o sign
                          \o (IF zeros THEN Rep("0", Pads(fw2, Width)) ELSE <<>>)
                          \o @]

-----------------------------------------------------------------------------
(* The conversion specification behind a '%'.                              *)

(* The first position from i on whose character is not in S.               *)
Skip(f, i, S) == CHOOSE j \in i..Len(f) : f[j] \notin S /\ \A k \in i..j - 1 : f[k] \in S

DigitValue(c) ==
  IF c \in DigitChars THEN CHOOSE d \in 0..9 : Hex[d + 1] = c ELSE 0

NumberAt(f, i, j) ==
  LET val[k \in Nat] ==
        IF k = 0 THEN 0 ELSE 10 * val[k - 1] + DigitValue(f[i + k - 1])
  IN val[j - i]

(* Flags, field width, precision, length modifiers, specifier.  The loop   *)
(* that filters out length modifiers reads the first one twice, so that    *)
(* the character behind the specifier is passed over too.                  *)
Conversion(f, i) ==
  LET width == Skip(f, i, {"-", "0", "+", "#"})
      dot == Skip(f, width, DigitChars)
      len == IF f[dot] = "." THEN Skip(f, dot + 1, DigitChars) ELSE dot
      spec == Skip(f, len, {"l", "h"})
  IN [Flags |-> {f[k] : k \in i..width - 1},
      FieldWidth |-> NumberAt(f, width, dot),
      NumDigits |-> IF dot = len THEN 0 ELSE NumberAt(f, dot + 1, len),
      spec |-> f[spec],
      next |-> IF spec = len THEN spec + 1 ELSE spec + 2]

NumberSpecs == {"d", "u", "x", "X", "p"}

BaseOf(cv) == IF cv.spec \in {"d", "u"} THEN 10 ELSE 16

(* What the conversion cv of a number stores.                              *)
NumberJob(cv, v) ==
  IF cv.spec = "d"
    THEN PrintInt(v, BaseOf(cv), cv.NumDigits, cv.FieldWidth, cv.Flags)
  ELSE IF cv.spec = "p"
    THEN PrintUnsigned(v % Word, BaseOf(cv), PtrDigits, PtrDigits, {})
  ELSE PrintUnsigned(v % Word, BaseOf(cv), cv.NumDigits, cv.FieldWidth, cv.Flags)

(* What SEGGER_RTT_Write() of n characters may return.                     *)
WriteResults(n) ==
  CASE mode = "BLOCK" -> {n}
    [] mode = "SKIP" -> {0, n}
    [] mode = "TRIM" -> 0..n

(* Mutant: the buffer is emptied whatever the write returned.              *)
StoreChar_emptied(c) ==
  LET full == Append(acBuffer, c) IN
  IF Len(full) < BufferSize
    THEN /\ acBuffer' = full
         /\ ReturnValue' = ReturnValue + 1
         /\ UNCHANGED stored
    ELSE \E r \in WriteResults(BufferSize) :
           /\ stored' = stored \o SubSeq(full, 1, r)
           /\ ReturnValue' = ReturnValue + 1
           /\ acBuffer' = <<>>

(* Mutant: a character is stored without looking for room.                 *)
StoreChar_unchecked(c) ==
  LET buf == Append(acBuffer, c) IN
  IF Len(buf) < BufferSize
    THEN /\ acBuffer' = buf
         /\ ReturnValue' = ReturnValue + 1
         /\ UNCHANGED stored
    ELSE \E r \in WriteResults(BufferSize) :
           /\ stored' = stored \o SubSeq(buf, 1, r)
           /\ acBuffer' = IF r = BufferSize THEN <<>> ELSE buf
           /\ ReturnValue' = IF r = BufferSize THEN ReturnValue + 1 ELSE -1

(* _StoreChar(): a buffer that could not be written stays full, and the    *)
(* next character, which it does not take, only tries again.               *)
StoreChar(c) ==
  LET fits == Len(acBuffer) < BufferSize
      buf == IF fits THEN Append(acBuffer, c) ELSE acBuffer
      count == IF fits THEN ReturnValue + 1 ELSE ReturnValue
  IN IF Len(buf) < BufferSize
       THEN acBuffer' = buf /\ ReturnValue' = count /\ UNCHANGED stored
       ELSE \E r \in WriteResults(BufferSize) :
              /\ stored' = stored \o SubSeq(buf, 1, r)
              /\ acBuffer' = IF r = BufferSize THEN <<>> ELSE buf
              /\ ReturnValue' = IF r = BufferSize THEN count ELSE -1

-----------------------------------------------------------------------------
(* What the notes at SEGGER_RTT_printf() promise, independent of the code: *)
(* the digits by position, then sign and padding.                          *)
Power(Base) ==
  LET p[k \in Nat] == IF k = 0 THEN 1 ELSE Base * p[k - 1] IN p

DigitAt(v, Base, i) == Hex[((v \div Power(Base)[i]) % Base) + 1]

RefNumber(sign, v, Base, cv) ==
  LET Enough(k) == v < Power(Base)[k] /\ k >= cv.NumDigits
      n == CHOOSE k \in 1..Word : Enough(k) /\ \A m \in 1..k - 1 : ~Enough(m)
      digits == [i \in 1..n |-> DigitAt(v, Base, n - i)]
      used == n + Len(sign)
      pad == IF cv.FieldWidth > used THEN cv.FieldWidth - used ELSE 0
  IN IF "-" \in cv.Flags THEN sign \o digits \o Rep(" ", pad)
     ELSE IF "0" \in cv.Flags /\ cv.NumDigits = 0
       THEN sign \o Rep("0", pad) \o digits
     ELSE Rep(" ", pad) \o sign \o digits

RefPointer(v) == [i \in 1..PtrDigits |-> DigitAt(v, 16, PtrDigits - i)]

SignOf(v, Flags) ==
  IF v < 0 THEN <<"-">> ELSE IF "+" \in Flags THEN <<"+">> ELSE <<>>

NumberRef(cv, v) ==
  IF cv.spec = "d"
    THEN RefNumber(SignOf(v, cv.Flags), IF v < 0 THEN -v ELSE v, BaseOf(cv), cv)
  ELSE IF cv.spec = "p" THEN RefPointer(v % Word)
  ELSE RefNumber(<<>>, v % Word, BaseOf(cv), cv)

-----------------------------------------------------------------------------
(* P holds the places of f where the loop looks for the next character or  *)
(* conversion.  The loop stays inside the format, a field width fits into  *)
(* its variable, and Digit can count the digits that a precision asks for: *)
(* otherwise C leaves open what happens, or numbers wrap around.           *)
Reads(f, P) ==
  /\ 1 \in P
  /\ \A i \in P :
       LET cv == Conversion(f, i + 1) IN
       \/ f[i] = "NUL"
       \/ f[i] \notin {"%", "NUL"} /\ i + 1 \in P
       \/ /\ f[i] = "%" /\ cv.next \in P /\ cv.FieldWidth < Word
          /\ cv.NumDigits > 0 => Power(BaseOf(cv))[cv.NumDigits - 1] < Word

(* Formats are fit to be read, and a pointer has just PtrDigits digits.    *)
ASSUME PrintfAssumption ==
  /\ \A f \in Formats :
       /\ f \in Seq(STRING) /\ f # <<>> /\ f[Len(f)] = "NUL"
       /\ \E P \in SUBSET (1..Len(f)) : Reads(f, P)
  /\ Strings \subseteq Seq(STRING)
  /\ Word \in Nat \ {0} /\ PtrDigits \in Nat \ {0} /\ Word = Power(16)[PtrDigits]
  /\ \A v \in Ints : v \in Int /\ -Word <= 2 * v /\ 2 * v < Word
  /\ Modes \subseteq {"SKIP", "TRIM", "BLOCK"}
  /\ BufferSize \in Nat \ {0}

-----------------------------------------------------------------------------
Idle == pos = 0

(* A call of SEGGER_RTT_printf().                                          *)
vprintf(f, m) ==
  /\ Idle
  /\ sFormat' = f /\ pos' = 1 /\ mode' = m
  /\ acBuffer' = <<>> /\ ReturnValue' = 0 /\ job' = NoJob
  /\ stored' = <<>> /\ text' = <<>>

(* Top of the loop: the last conversion is done and none has failed.       *)
AtTop == ~Idle /\ job = NoJob /\ ReturnValue >= 0 /\ pos <= Len(sFormat)

Expand(j, reference, next) ==
  /\ job' = j
  /\ text' = text \o reference
  /\ pos' = next
  /\ UNCHANGED <<sFormat, mode, acBuffer, ReturnValue, stored>>

Text(s) == [NoJob EXCEPT !.head = s]

literal ==
  /\ AtTop
  /\ sFormat[pos] \notin {"%", "NUL"}
  /\ Expand(Text(<<sFormat[pos]>>), <<sFormat[pos]>>, pos + 1)

(* %d, %u, %x, %X and %p.                                                  *)
conv_number ==
  /\ AtTop /\ sFormat[pos] = "%"
  /\ LET cv == Conversion(sFormat, pos + 1) IN
     /\ cv.spec \in NumberSpecs
     /\ \E v \in Ints : Expand(NumberJob(cv, v), NumberRef(cv, v), cv.next)

(* The other specifiers; an unknown one prints nothing.                    *)
conv_text ==
  /\ AtTop /\ sFormat[pos] = "%"
  /\ LET cv == Conversion(sFormat, pos + 1) IN
     \/ cv.spec = "c" /\ \E c \in Chars : Expand(Text(<<c>>), <<c>>, cv.next)
     \/ cv.spec = "s" /\ \E s \in Strings : Expand(Text(s), s, cv.next)
     \/ cv.spec = "%" /\ Expand(Text(<<"%">>), <<"%">>, cv.next)
     \/ /\ cv.spec \notin {"c", "s", "%"} \cup NumberSpecs
        /\ Expand(NoJob, <<>>, cv.next)

(* The conversion stores its next character.  A failed write ends it, but  *)
(* in the digits only the loop around them.                                *)
store_head ==
  /\ job.head # <<>>
  /\ StoreChar(Head(job.head))
  /\ job' = IF ReturnValue' < 0 THEN NoJob ELSE [job EXCEPT !.head = Tail(@)]
  /\ UNCHANGED <<sFormat, pos, mode, text>>

store_digit ==
  /\ job.head = <<>> /\ job.digits # <<>>
  /\ StoreChar(Head(job.digits))
  /\ job' = [job EXCEPT !.digits = IF ReturnValue' < 0 THEN <<>> ELSE Tail(@)]
  /\ UNCHANGED <<sFormat, pos, mode, text>>

store_tail ==
  /\ job.head = <<>> /\ job.digits = <<>> /\ job.tail # <<>>
  /\ StoreChar(Head(job.tail))
  /\ job' = [job EXCEPT !.tail = IF ReturnValue' < 0 THEN <<>> ELSE Tail(@)]
  /\ UNCHANGED <<sFormat, pos, mode, text>>

(* The end of the format, or of a call that failed: the rest of the buffer *)
(* is written, whatever comes of it, and counted.                          *)
finish ==
  /\ ~Idle /\ job = NoJob
  /\ ReturnValue < 0 \/ (pos <= Len(sFormat) /\ sFormat[pos] = "NUL")
  /\ pos' = 0
  /\ IF ReturnValue > 0
       THEN /\ ReturnValue' = ReturnValue + Len(acBuffer)
            /\ IF acBuffer # <<>>
                 THEN \E r \in WriteResults(Len(acBuffer)) :
                        stored' = stored \o SubSeq(acBuffer, 1, r)
                 ELSE UNCHANGED stored
       ELSE UNCHANGED <<ReturnValue, stored>>
  /\ UNCHANGED <<sFormat, mode, acBuffer, job, text>>

Next ==
  \/ \E f \in Formats, m \in Modes : vprintf(f, m)
  \/ literal \/ conv_number \/ conv_text
  \/ store_head \/ store_digit \/ store_tail
  \/ finish

Spec == Init /\ [][Next]_vars

-----------------------------------------------------------------------------
(* Type invariant; the buffer never holds more than BufferSize.            *)
TypeOK ==
  /\ sFormat \in Formats \cup {<<"NUL">>}
  /\ pos \in 0..Len(sFormat)
  /\ mode \in Modes
  /\ Len(acBuffer) <= BufferSize
  /\ ReturnValue \in Nat \cup {-1}

(* How the buffer, the conversion under way and the result go together.    *)
(* Only an error leaves the buffer full, and then no more than one further *)
(* character is tried; unless trimmed, what is stored and what waits in    *)
(* the buffer are in order; blocking writes give no error.                 *)
BufferInv ==
  /\ acBuffer \in Seq(Characters) /\ stored \in Seq(Characters) /\ text \in Seq(Characters)
  /\ job \in [head : Seq(Characters), digits : Seq(Characters), tail : Seq(Characters)]
  /\ Idle => job = NoJob
  /\ ~Idle /\ ReturnValue >= 0 =>
       Len(acBuffer) < BufferSize /\ Len(acBuffer) <= ReturnValue
  /\ ReturnValue < 0 =>
       /\ mode # "BLOCK" /\ job.head = <<>> /\ job.digits = <<>>
       /\ job.tail # <<>> => Len(acBuffer) = BufferSize
  /\ mode # "TRIM" => IsPrefix(IF Idle THEN stored ELSE stored \o acBuffer, text)

(* As long as nothing failed, what the host got, what the buffer holds and *)
(* what the conversion under way still stores make up exactly the text     *)
(* that the notes at SEGGER_RTT_printf() promise.                          *)
NothingLost ==
  ~Idle /\ ReturnValue >= 0 =>
    stored \o acBuffer \o job.head \o job.digits \o job.tail = text

(* A call that reports no error has lost at most the last partial buffer,  *)
(* whose write it does not check.                                          *)
LossIsTail ==
  Idle /\ ReturnValue >= 0 =>
    IsPrefix(stored, text) /\ Len(text) - Len(stored) < BufferSize
=============================================================================
