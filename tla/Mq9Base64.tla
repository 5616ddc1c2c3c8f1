----------------------------- MODULE Mq9Base64 -----------------------------
(***************************************************************************)
(* The base64 decoder of the Rust SDK, which is written by hand: the loop  *)
(* over the characters of a payload field, with its accumulator of bits.   *)
(*                                                                         *)
(* A character is the number the decoder's TABLE has for it: its digit, 64 *)
(* for "=", and 255 for all others, those beyond ASCII included.  The text *)
(* is either what an encoder made of a payload, as the server's envelopes  *)
(* hold it, or anything at all.                                            *)
(***************************************************************************)
EXTENDS Integers, Sequences

CONSTANTS
  Payloads,   \* the byte strings that are encoded
  Texts,      \* what else may be in a payload field
  Anything    \* in place of a payload: the text was not made by an encoder

Byte == 0..255
Digit == 0..63
Pad == 64
NoDigit == 255
Chars == Digit \cup {Pad, NoDigit}

ASSUME Base64Assumption ==
  /\ Payloads \subseteq Seq(Byte)
  /\ Texts \subseteq Seq(Chars)
  /\ Anything \notin Payloads

VARIABLES
  payload,   \* the payload that was encoded, or Anything
  text,      \* the characters to decode
  end,       \* how many are left after the padding at the end is cut off
  pos,       \* how many have been read
  out,       \* the bytes decoded
  buf,       \* the accumulator
  bits,      \* how many bits in it wait to be part of a byte
  phase      \* "trim", "read", "ok" or "err"

vars == <<payload, text, end, pos, out, buf, bits, phase>>

-----------------------------------------------------------------------------
(***************************************************************************)
(* The encoder of the tests, and of any server that sends base64: groups   *)
(* of three bytes, a missing one counted as zero, give four characters.    *)
(***************************************************************************)

ByteOf(data, k) == IF k \in DOMAIN data THEN data[k] ELSE 0

\* The four digits of three bytes.
DigitsOf(b0, b1, b2) ==
  <<b0 \div 4, (b0 % 4) * 16 + b1 \div 16, (b1 % 16) * 4 + b2 \div 64, b2 % 64>>

\* The number of digits, before the padding.
Digits(data) == (4 * Len(data) + 2) \div 3

CharOf(data, i) ==
  LET k == 3 * ((i - 1) \div 4)
  IN  IF i > Digits(data) THEN Pad
      ELSE DigitsOf(ByteOf(data, k + 1), ByteOf(data, k + 2), ByteOf(data, k + 3))[((i - 1) % 4) + 1]

Encode(data) == [i \in 1..(4 * ((Len(data) + 2) \div 3)) |-> CharOf(data, i)]

-----------------------------------------------------------------------------
Init ==
  /\ \/ payload \in Payloads /\ text = Encode(payload)
     \/ payload = Anything /\ text \in Texts
  /\ end = Len(text)
  /\ pos = 0
  /\ out = <<>>
  /\ buf = 0
  /\ bits = 0
  /\ phase = "trim"

\* Faulty: one "=" is cut off, not all there are.
TrimOne ==
  /\ phase = "trim"
  /\ end' = IF end > 0 /\ text[end] = Pad THEN end - 1 ELSE end
  /\ phase' = "read"
  /\ UNCHANGED <<payload, text, pos, out, buf, bits>>

\* The "=" at the end are cut off.
Trim ==
  /\ phase = "trim"
  /\ IF end > 0 /\ text[end] = Pad
     THEN end' = end - 1 /\ UNCHANGED phase
     ELSE phase' = "read" /\ UNCHANGED end
  /\ UNCHANGED <<payload, text, pos, out, buf, bits>>

\* (acc << 6) | v.  The number of "=" has a seventh bit, which comes to lie on
\* the lowest bit of what was there.
ShiftIn(acc, v) == IF v = Pad THEN (acc + 1 - (acc % 2)) * 64 ELSE acc * 64 + v

\* 1 << b, for the numbers of bits that are left over.
Unit(b) == IF b = 0 THEN 1 ELSE IF b = 2 THEN 4 ELSE 16

\* Faulty: what is no digit is skipped.
RefuseNothing ==
  /\ phase = "read"
  /\ pos < end
  /\ text[pos + 1] = NoDigit
  /\ pos' = pos + 1
  /\ UNCHANGED <<payload, text, end, out, buf, bits, phase>>

\* A character that is no digit, but not "=", is an error.
Refuse ==
  /\ phase = "read"
  /\ pos < end
  /\ text[pos + 1] = NoDigit
  /\ phase' = "err"
  /\ UNCHANGED <<payload, text, end, pos, out, buf, bits>>

\* The bits of the next character are shifted in; eight of them make a byte.
\* Whatever is above them, the conversion to u8 cuts it off.
Read ==
  LET acc == ShiftIn(buf, text[pos + 1])
      left == bits - 2
  IN  /\ phase = "read"
      /\ pos < end
      /\ text[pos + 1] # NoDigit
      /\ pos' = pos + 1
      /\ IF bits + 6 >= 8
         THEN /\ bits' = left
              /\ out' = Append(out, (acc \div Unit(left)) % 256)
              /\ buf' = acc % Unit(left)
         ELSE /\ bits' = bits + 6
              /\ buf' = acc
              /\ UNCHANGED out
      /\ UNCHANGED <<payload, text, end, phase>>

\* Bits that do not make up a byte are dropped, whatever they are.
Finish ==
  /\ phase = "read"
  /\ pos = end
  /\ phase' = "ok"
  /\ UNCHANGED <<payload, text, end, pos, out, buf, bits>>

Next == Trim \/ Refuse \/ Read \/ Finish

Spec == Init /\ [][Next]_vars

-----------------------------------------------------------------------------
(***************************************************************************)
(* Properties.                                                             *)
(***************************************************************************)

\* The variables keep their shape.  Whatever is read, the accumulator holds at
\* most seven bits, so the shift of a u32 never loses one.
TypeOK ==
  /\ text \in Seq(Chars)
  /\ end \in 0..Len(text) /\ pos \in 0..Len(text)
  /\ out \in Seq(Byte)
  /\ bits \in {0, 2, 4, 6}
  /\ buf \in 0..127
  /\ bits < 6 => buf < Unit(bits)
  /\ phase \in {"trim", "read", "ok", "err"}

\* What an encoder made of a payload is accepted, and decodes to that payload,
\* whatever its length leaves in the last group.
RoundTrip ==
  payload # Anything => phase # "err" /\ (phase = "ok" => out = payload)

\* The three things the decoder accepts that no encoder produces: a "=" that is
\* not at the end, a digit too many, and left-over bits that are not zero.
Lenient ==
  \/ \E i \in 1..end : text[i] = Pad
  \/ end % 4 = 1
  \/ buf # 0

\* All other texts it accepts are those an encoder produces, up to the padding:
\* encoding the result gives the text back, so nothing in it was overlooked.
AcceptsEncodings ==
  phase = "ok" /\ ~Lenient =>
    /\ end = Digits(out)
    /\ \A i \in 1..end : text[i] = CharOf(out, i)
=============================================================================
