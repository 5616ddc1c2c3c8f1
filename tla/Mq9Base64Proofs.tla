-------------------------- MODULE Mq9Base64Proofs --------------------------
(***************************************************************************)
(* The decoder of Mq9Base64 gives back every payload that was encoded,     *)
(* whatever its length; whatever it reads, its accumulator never outgrows  *)
(* a few bits; and but for the flaws it does not mind, what it accepts is  *)
(* what an encoder makes of what it puts out.                              *)
(***************************************************************************)
EXTENDS Mq9Base64, TLAPS

\* How far the decoder has come in the payload p: it has q groups of four
\* digits behind it and none to three digits of the next, whose bits are the
\* bytes it has put out and, in the accumulator, the beginning of the next.
Progress(p, q) ==
  \/ pos = 4 * q /\ Len(out) = 3 * q /\ bits = 0 /\ buf = 0
  \/ pos = 4 * q + 1 /\ Len(out) = 3 * q /\ bits = 6
       /\ buf = ByteOf(p, 3 * q + 1) \div 4
  \/ pos = 4 * q + 2 /\ Len(out) = 3 * q + 1 /\ bits = 4
       /\ buf = ByteOf(p, 3 * q + 2) \div 16
  \/ pos = 4 * q + 3 /\ Len(out) = 3 * q + 2 /\ bits = 2
       /\ buf = ByteOf(p, 3 * q + 3) \div 64

\* What holds while the text of an encoder is decoded.
Decodes ==
  /\ payload \in Payloads
  /\ text = Encode(payload)
  /\ phase \in {"trim", "read", "ok"}
  /\ end \in Digits(payload)..Len(text)
  /\ phase # "trim" => end = Digits(payload)
  /\ phase = "trim" => pos = 0
  /\ pos \in 0..Digits(payload)
  /\ phase = "ok" => pos = end
  /\ out \in Seq(Byte)
  /\ \E q \in Nat : Progress(payload, q)
  /\ \A k \in 1..Len(out) : k \in DOMAIN payload /\ out[k] = payload[k]

IInv == payload # Anything => Decodes

-----------------------------------------------------------------------------
\* A byte of a payload, or the zero in place of a missing one, is a byte.
LEMMA ByteOfIsByte ==
  ASSUME NEW p \in Seq(Byte), NEW k \in Nat
  PROVE  ByteOf(p, k) \in Byte
<1>1. 0 \in Byte
  BY DEF Byte
<1>2. k \in DOMAIN p => p[k] \in Byte
  OBVIOUS
<1> QED
  BY <1>1, <1>2 DEF ByteOf

\* The digits of three bytes are digits.
LEMMA DigitsOfAreDigits ==
  ASSUME NEW b0 \in Byte, NEW b1 \in Byte, NEW b2 \in Byte, NEW place \in 0..3
  PROVE  DigitsOf(b0, b1, b2)[place + 1] \in Digit
<1>1. b0 \div 4 \in Digit
  BY DEF Byte, Digit
<1>2. (b0 % 4) * 16 + b1 \div 16 \in Digit
  BY DEF Byte, Digit
<1>3. (b1 % 16) * 4 + b2 \div 64 \in Digit
  BY DEF Byte, Digit
<1>4. b2 % 64 \in Digit
  BY DEF Byte, Digit
<1>5. place + 1 \in 1..4
  OBVIOUS
<1> QED
  BY <1>1, <1>2, <1>3, <1>4, <1>5 DEF DigitsOf

\* The encoded text: its length, its padding, and the digits of group q.
LEMMA Encoded ==
  ASSUME NEW p \in Seq(Byte)
  PROVE  /\ Digits(p) \in Nat
         /\ Len(Encode(p)) \in Nat
         /\ Digits(p) <= Len(Encode(p))
         /\ \A i \in 1..Len(Encode(p)) :
              Encode(p)[i] = CharOf(p, i) /\ (i > Digits(p) => Encode(p)[i] = Pad)
<1>1. Len(p) \in Nat
  OBVIOUS
<1>2. Digits(p) \in Nat /\ 4 * ((Len(p) + 2) \div 3) \in Nat
  BY <1>1 DEF Digits
<1>3. Digits(p) <= 4 * ((Len(p) + 2) \div 3)
  BY <1>1 DEF Digits
<1>4. Len(Encode(p)) = 4 * ((Len(p) + 2) \div 3)
  BY <1>2 DEF Encode
<1>5. \A i \in 1..Len(Encode(p)) : Encode(p)[i] = CharOf(p, i)
  BY <1>2, <1>4 DEF Encode
<1>6. \A i \in 1..Len(Encode(p)) : i > Digits(p) => CharOf(p, i) = Pad
  BY <1>2 DEF CharOf
<1> QED
  BY <1>2, <1>3, <1>4, <1>5, <1>6

\* The character at a place of group q, if it is not padding.
LEMMA GroupChar ==
  ASSUME NEW p \in Seq(Byte), NEW q \in Nat, NEW place \in 0..3,
         4 * q + place + 1 <= Digits(p)
  PROVE  CharOf(p, 4 * q + place + 1) =
           DigitsOf(ByteOf(p, 3 * q + 1), ByteOf(p, 3 * q + 2), ByteOf(p, 3 * q + 3))[place + 1]
<1>1. Digits(p) \in Nat
  BY DEF Digits
<1>2. (4 * q + place) \div 4 = q /\ (4 * q + place) % 4 = place
  OBVIOUS
<1>3. (4 * q + place + 1) - 1 = 4 * q + place
  OBVIOUS
<1> QED
  BY <1>1, <1>2, <1>3 DEF CharOf

\* The digits of a payload are digits, not padding.
LEMMA DigitsAreDigits ==
  ASSUME NEW p \in Seq(Byte), NEW i \in 1..Digits(p)
  PROVE  CharOf(p, i) \in Digit
<1> DEFINE q == (i - 1) \div 4
           place == (i - 1) % 4
<1>1. Digits(p) \in Nat
  BY DEF Digits
<1>2. q \in Nat /\ place \in 0..3
  BY <1>1
<1>3. CharOf(p, i) =
        DigitsOf(ByteOf(p, 3 * q + 1), ByteOf(p, 3 * q + 2), ByteOf(p, 3 * q + 3))[place + 1]
  BY <1>1 DEF CharOf
<1> HIDE DEF q, place
<1>4. /\ ByteOf(p, 3 * q + 1) \in Byte
      /\ ByteOf(p, 3 * q + 2) \in Byte
      /\ ByteOf(p, 3 * q + 3) \in Byte
  BY <1>2, ByteOfIsByte
<1> QED
  BY <1>2, <1>3, <1>4, DigitsOfAreDigits

\* Shifting the digits of three bytes into the accumulator, one after the other,
\* gives the bytes and leaves the beginning of the next.
LEMMA Regroup ==
  ASSUME NEW b0 \in Byte, NEW b1 \in Byte, NEW b2 \in Byte
  PROVE  LET d == DigitsOf(b0, b1, b2)
         IN  /\ ShiftIn(0, d[1]) = b0 \div 4
             /\ (ShiftIn(b0 \div 4, d[2]) \div 16) % 256 = b0
             /\ ShiftIn(b0 \div 4, d[2]) % 16 = b1 \div 16
             /\ (ShiftIn(b1 \div 16, d[3]) \div 4) % 256 = b1
             /\ ShiftIn(b1 \div 16, d[3]) % 4 = b2 \div 64
             /\ (ShiftIn(b2 \div 64, d[4]) \div 1) % 256 = b2
             /\ ShiftIn(b2 \div 64, d[4]) % 1 = 0
<1> DEFINE d == DigitsOf(b0, b1, b2)
<1>1. /\ d[1] = b0 \div 4
      /\ d[2] = (b0 % 4) * 16 + b1 \div 16
      /\ d[3] = (b1 % 16) * 4 + b2 \div 64
      /\ d[4] = b2 % 64
  BY DEF DigitsOf
<1>2. /\ b0 \in 0..255 /\ b1 \in 0..255 /\ b2 \in 0..255
      /\ d[1] \in 0..63 /\ d[2] \in 0..63 /\ d[3] \in 0..63 /\ d[4] \in 0..63
  BY <1>1 DEF Byte
<1> HIDE DEF d
<1>3. \A acc \in Nat, v \in 0..63 : ShiftIn(acc, v) = acc * 64 + v
  BY DEF ShiftIn, Pad
<1>4. /\ ShiftIn(0, d[1]) = d[1]
      /\ ShiftIn(b0 \div 4, d[2]) = (b0 \div 4) * 64 + d[2]
      /\ ShiftIn(b1 \div 16, d[3]) = (b1 \div 16) * 64 + d[3]
      /\ ShiftIn(b2 \div 64, d[4]) = (b2 \div 64) * 64 + d[4]
  <2>1. 0 \in Nat /\ b0 \div 4 \in Nat /\ b1 \div 16 \in Nat /\ b2 \div 64 \in Nat
    BY <1>2
  <2>2. \A x \in 0..63 : 0 * 64 + x = x
    OBVIOUS
  <2>3. /\ ShiftIn(0, d[1]) = 0 * 64 + d[1]
        /\ ShiftIn(b0 \div 4, d[2]) = (b0 \div 4) * 64 + d[2]
        /\ ShiftIn(b1 \div 16, d[3]) = (b1 \div 16) * 64 + d[3]
        /\ ShiftIn(b2 \div 64, d[4]) = (b2 \div 64) * 64 + d[4]
    BY <1>2, <1>3, <2>1, Zenon
  <2> QED
    BY <1>2, <2>2, <2>3
<1>5. ShiftIn(0, d[1]) = b0 \div 4
  BY <1>1, <1>4
<1>6. ShiftIn(b0 \div 4, d[2]) = 16 * b0 + b1 \div 16
  BY <1>1, <1>2, <1>4
<1>7. ShiftIn(b1 \div 16, d[3]) = 4 * b1 + b2 \div 64
  BY <1>1, <1>2, <1>4
<1>8. ShiftIn(b2 \div 64, d[4]) = b2
  BY <1>1, <1>2, <1>4
<1>9. (16 * b0 + b1 \div 16) \div 16 = b0 /\ (16 * b0 + b1 \div 16) % 16 = b1 \div 16
  BY <1>2
<1>10. (4 * b1 + b2 \div 64) \div 4 = b1 /\ (4 * b1 + b2 \div 64) % 4 = b2 \div 64
  BY <1>2
<1>11. /\ b0 % 256 = b0 /\ b1 % 256 = b1
       /\ (b2 \div 1) % 256 = b2 /\ b2 % 1 = 0
  BY <1>2
<1> QED
  BY <1>5, <1>6, <1>7, <1>8, <1>9, <1>10, <1>11 DEF d

-----------------------------------------------------------------------------
\* A payload that is encoded is a sequence of bytes.
LEMMA PayloadTyped ==
  ASSUME Base64Assumption, Decodes
  PROVE  payload \in Seq(Byte) /\ payload # Anything
BY DEF Base64Assumption, Decodes

LEMMA InitDecodes ==
  ASSUME Base64Assumption, Init, payload # Anything
  PROVE  Decodes
<1>1. payload \in Payloads /\ text = Encode(payload)
  BY DEF Init
<1>2. payload \in Seq(Byte)
  BY <1>1 DEF Base64Assumption
<1>3. end \in Digits(payload)..Len(text) /\ pos \in 0..Digits(payload)
  BY <1>1, <1>2, Encoded DEF Init
<1>4. Progress(payload, 0)
  BY DEF Init, Progress
<1>5. out \in Seq(Byte) /\ Len(out) = 0
  BY DEF Init
<1> QED
  BY <1>1, <1>3, <1>4, <1>5 DEF Init, Decodes

\* Cutting off the padding stops at the last digit.
LEMMA TrimDecodes ==
  ASSUME Base64Assumption, Decodes, Trim
  PROVE  Decodes'
<1>1. payload \in Seq(Byte)
  BY PayloadTyped
<1>2. /\ payload' = payload /\ text' = text /\ pos' = pos
      /\ out' = out /\ buf' = buf /\ bits' = bits
  BY DEF Trim
<1>3. Digits(payload) \in Nat /\ Len(text) \in Nat
  BY <1>1, Encoded DEF Decodes
<1>4. \A i \in 1..Len(text) : text[i] = Pad <=> i > Digits(payload)
  <2> TAKE i \in 1..Len(text)
  <2>1. i <= Digits(payload) => CharOf(payload, i) \in Digit
    BY <1>1, <1>3, DigitsAreDigits
  <2>2. Digit \cap {Pad} = {}
    BY DEF Digit, Pad
  <2> QED
    BY <1>1, <1>3, <2>1, <2>2, Encoded DEF Decodes
<1>5. /\ phase' \in {"trim", "read"}
      /\ end' \in Digits(payload)..Len(text)
      /\ phase' # "trim" => end' = Digits(payload)
  BY <1>3, <1>4 DEF Trim, Decodes
<1>6. \E q \in Nat : Progress(payload, q)'
  BY <1>2 DEF Decodes, Progress
<1>7. pos = 0
  BY DEF Decodes, Trim
<1> QED
  BY <1>2, <1>5, <1>6, <1>7 DEF Decodes

\* A digit is read.
LEMMA ReadDecodes ==
  ASSUME Base64Assumption, Decodes, Read
  PROVE  Decodes'
<1> DEFINE p == payload
           v == text[pos + 1]
<1>1. payload \in Seq(Byte)
  BY PayloadTyped
<1>2. /\ payload' = p /\ text' = text /\ end' = end /\ phase' = phase
      /\ phase = "read" /\ pos < end /\ pos' = pos + 1
  BY DEF Read
<1>3. Digits(p) \in Nat /\ end = Digits(p) /\ pos \in Nat /\ pos + 1 <= Digits(p)
  BY <1>1, <1>2, Encoded DEF Decodes
<1>4. v = CharOf(p, pos + 1)
  BY <1>1, <1>3, Encoded DEF Decodes
<1>5. PICK q \in Nat : Progress(p, q)
  BY DEF Decodes
<1> DEFINE b0 == ByteOf(p, 3 * q + 1)
           b1 == ByteOf(p, 3 * q + 2)
           b2 == ByteOf(p, 3 * q + 3)
<1>6. b0 \in Byte /\ b1 \in Byte /\ b2 \in Byte
  BY <1>1, ByteOfIsByte
<1>7. \A place \in 0..3 :
        pos = 4 * q + place => v = DigitsOf(b0, b1, b2)[place + 1]
  BY <1>1, <1>3, <1>4, GroupChar
<1>8. /\ pos = 4 * q => v = DigitsOf(b0, b1, b2)[1]
      /\ pos = 4 * q + 1 => v = DigitsOf(b0, b1, b2)[2]
      /\ pos = 4 * q + 2 => v = DigitsOf(b0, b1, b2)[3]
      /\ pos = 4 * q + 3 => v = DigitsOf(b0, b1, b2)[4]
  <2>1. pos = 4 * q => v = DigitsOf(b0, b1, b2)[0 + 1]
    BY <1>7
  <2> QED
    BY <1>7, <2>1
<1>9. Len(p) \in Nat /\ DOMAIN p = 1..Len(p) /\ Len(out) \in Nat /\ out \in Seq(Byte)
  BY <1>1 DEF Decodes
<1>10. /\ 4 * q + 2 <= Digits(p) => 3 * q + 1 \in DOMAIN p
       /\ 4 * q + 3 <= Digits(p) => 3 * q + 2 \in DOMAIN p
       /\ 4 * q + 4 <= Digits(p) => 3 * q + 3 \in DOMAIN p
  BY <1>9 DEF Digits
<1>11. \A k \in 1..Len(out) : k \in DOMAIN p /\ out[k] = p[k]
  BY DEF Decodes
<1>12. ASSUME NEW b \in Byte, out' = Append(out, b),
              Len(out) + 1 \in DOMAIN p, b = ByteOf(p, Len(out) + 1)
       PROVE  /\ out' \in Seq(Byte) /\ Len(out') = Len(out) + 1
              /\ \A k \in 1..Len(out') : k \in DOMAIN p /\ out'[k] = p[k]
  BY <1>9, <1>11, <1>12 DEF ByteOf
<1>13. SUFFICES
         /\ out' \in Seq(Byte)
         /\ \E r \in Nat : Progress(p, r)'
         /\ \A k \in 1..Len(out') : k \in DOMAIN p /\ out'[k] = p[k]
  BY <1>2, <1>3 DEF Decodes
<1> HIDE DEF p, v, b0, b1, b2
<1>14. CASE pos = 4 * q /\ Len(out) = 3 * q /\ bits = 0 /\ buf = 0
  <2>1. bits' = 6 /\ buf' = b0 \div 4 /\ out' = out
    BY <1>6, <1>8, <1>14, Regroup DEF Read, v
  <2>2. Progress(p, q)'
    BY <1>2, <1>14, <2>1 DEF Progress, b0, p
  <2> QED
    BY <1>9, <1>11, <2>1, <2>2
<1>15. CASE pos = 4 * q + 1 /\ Len(out) = 3 * q /\ bits = 6 /\ buf = b0 \div 4
  <2>1. bits' = 4 /\ buf' = b1 \div 16 /\ out' = Append(out, b0)
    BY <1>6, <1>8, <1>15, Regroup DEF Read, Unit, v
  <2>2. 3 * q + 1 \in DOMAIN p
    BY <1>3, <1>10, <1>15
  <2>3. /\ out' \in Seq(Byte) /\ Len(out') = 3 * q + 1
        /\ \A k \in 1..Len(out') : k \in DOMAIN p /\ out'[k] = p[k]
    BY <1>6, <1>12, <1>15, <2>1, <2>2 DEF b0
  <2>4. Progress(p, q)'
    BY <1>2, <1>15, <2>1, <2>3 DEF Progress, b1, p
  <2> QED
    BY <2>3, <2>4
<1>16. CASE pos = 4 * q + 2 /\ Len(out) = 3 * q + 1 /\ bits = 4 /\ buf = b1 \div 16
  <2>1. bits' = 2 /\ buf' = b2 \div 64 /\ out' = Append(out, b1)
    BY <1>6, <1>8, <1>16, Regroup DEF Read, Unit, v
  <2>2. 3 * q + 2 \in DOMAIN p /\ 3 * q + 2 = (3 * q + 1) + 1
    BY <1>3, <1>10, <1>16
  <2>3. /\ out' \in Seq(Byte) /\ Len(out') = 3 * q + 2
        /\ \A k \in 1..Len(out') : k \in DOMAIN p /\ out'[k] = p[k]
    BY <1>6, <1>12, <1>16, <2>1, <2>2 DEF b1
  <2>4. Progress(p, q)'
    BY <1>2, <1>16, <2>1, <2>3 DEF Progress, b2, p
  <2> QED
    BY <2>3, <2>4
<1>17. CASE pos = 4 * q + 3 /\ Len(out) = 3 * q + 2 /\ bits = 2 /\ buf = b2 \div 64
  <2>1. bits' = 0 /\ buf' = 0 /\ out' = Append(out, b2)
    BY <1>6, <1>8, <1>17, Regroup DEF Read, Unit, v
  <2>2. 3 * q + 3 \in DOMAIN p /\ 3 * q + 3 = (3 * q + 2) + 1
    BY <1>3, <1>10, <1>17
  <2>3. /\ out' \in Seq(Byte) /\ Len(out') = 3 * q + 3
        /\ \A k \in 1..Len(out') : k \in DOMAIN p /\ out'[k] = p[k]
    BY <1>6, <1>12, <1>17, <2>1, <2>2 DEF b2
  <2>4. Progress(p, q + 1)'
    BY <1>2, <1>17, <2>1, <2>3 DEF Progress, p
  <2> QED
    BY <2>3, <2>4
<1> QED
  BY <1>5, <1>14, <1>15, <1>16, <1>17 DEF Progress, b0, b1, b2

\* After the last digit every byte is out.
LEMMA FinishDecodes ==
  ASSUME Base64Assumption, Decodes, Finish
  PROVE  Decodes'
BY DEF Decodes, Finish, Progress

\* No digit of an encoded payload is refused.
LEMMA NeverRefused ==
  ASSUME Base64Assumption, Decodes, Refuse
  PROVE  FALSE
<1>1. payload \in Seq(Byte)
  BY PayloadTyped
<1>2. /\ Digits(payload) \in Nat /\ end = Digits(payload)
      /\ pos \in Nat /\ pos + 1 \in 1..Digits(payload)
  BY <1>1, Encoded DEF Decodes, Refuse
<1>3. text[pos + 1] = CharOf(payload, pos + 1)
  BY <1>1, <1>2, Encoded DEF Decodes
<1>4. text[pos + 1] \in Digit
  BY <1>1, <1>2, <1>3, DigitsAreDigits
<1> QED
  BY <1>4 DEF Refuse, Digit, NoDigit

LEMMA DecodesStutters ==
  ASSUME Decodes, UNCHANGED vars
  PROVE  Decodes'
BY DEF Decodes, Progress, vars

\* When the decoder is done, it has put out the payload.
LEMMA DecodedIsPayload ==
  ASSUME Base64Assumption, Decodes, phase = "ok"
  PROVE  out = payload
<1>1. payload \in Seq(Byte) /\ out \in Seq(Byte)
  BY PayloadTyped DEF Decodes
<1>2. Len(payload) \in Nat /\ Len(out) \in Nat
  BY <1>1
<1>3. pos = Digits(payload)
  BY DEF Decodes
<1>4. PICK q \in Nat : Progress(payload, q)
  BY DEF Decodes
<1>5. Len(out) = Len(payload)
  BY <1>2, <1>3, <1>4 DEF Progress, Digits
<1>6. \A k \in 1..Len(out) : out[k] = payload[k]
  BY DEF Decodes
<1> QED
  BY <1>1, <1>5, <1>6

\* Whatever payload was encoded, b64_decode accepts the text and gives back the
\* payload: for every length, whatever it leaves in the last group.
THEOREM PayloadComesBack == Base64Assumption /\ Spec => []RoundTrip
<1>1. Base64Assumption /\ Init => IInv
  BY InitDecodes DEF IInv
<1>2. Base64Assumption /\ IInv /\ [Next]_vars => IInv'
  <2> SUFFICES ASSUME Base64Assumption, IInv, [Next]_vars, payload' # Anything
               PROVE  Decodes'
    BY DEF IInv
  <2>1. payload' = payload
    BY DEF Next, Trim, Refuse, Read, Finish, vars
  <2>2. Decodes
    BY <2>1 DEF IInv
  <2>3. CASE Trim
    BY <2>2, <2>3, TrimDecodes
  <2>4. CASE Refuse
    BY <2>2, <2>4, NeverRefused
  <2>5. CASE Read
    BY <2>2, <2>5, ReadDecodes
  <2>6. CASE Finish
    BY <2>2, <2>6, FinishDecodes
  <2>7. CASE UNCHANGED vars
    BY <2>2, <2>7, DecodesStutters
  <2> QED
    BY <2>3, <2>4, <2>5, <2>6, <2>7 DEF Next
<1>3. Base64Assumption /\ IInv => RoundTrip
  <2>1. ASSUME Base64Assumption, Decodes
        PROVE  phase # "err" /\ (phase = "ok" => out = payload)
    BY <2>1, DecodedIsPayload DEF Decodes
  <2> QED
    BY <2>1 DEF IInv, RoundTrip
<1> QED
  BY <1>1, <1>2, <1>3, Base64Assumption, PTL DEF Spec

-----------------------------------------------------------------------------
\* An encoded payload is a text of characters.
LEMMA EncodeTyped ==
  ASSUME NEW p \in Seq(Byte)
  PROVE  Encode(p) \in Seq(Chars)
<1>1. 4 * ((Len(p) + 2) \div 3) \in Nat
  OBVIOUS
<1>2. \A i \in 1..(4 * ((Len(p) + 2) \div 3)) : CharOf(p, i) \in Chars
  <2> TAKE i \in 1..(4 * ((Len(p) + 2) \div 3))
  <2>1. Digits(p) \in Nat /\ i \in Nat
    BY <1>1 DEF Digits
  <2>2. i > Digits(p) => CharOf(p, i) = Pad
    BY DEF CharOf
  <2>3. i <= Digits(p) => CharOf(p, i) \in Digit
    BY <1>1, <2>1, DigitsAreDigits
  <2> QED
    BY <2>1, <2>2, <2>3 DEF Chars
<1> QED
  BY <1>1, <1>2 DEF Encode

\* Reading a character, whatever it is, keeps the accumulator small.
LEMMA ReadTyped ==
  ASSUME TypeOK, Read
  PROVE  TypeOK'
<1> DEFINE v == text[pos + 1]
           acc == ShiftIn(buf, v)
           left == bits - 2
<1>1. pos \in Nat /\ end \in Nat /\ pos < end /\ end <= Len(text) /\ Len(text) \in Nat
  BY DEF TypeOK, Read
<1>2. v \in 0..64
  <2>1. v \in Chars /\ v # NoDigit
    <3>1. text \in Seq(Chars) /\ text[pos + 1] # NoDigit
      BY DEF TypeOK, Read
    <3> QED
      BY <1>1, <3>1
  <2> QED
    BY <2>1 DEF Chars, Digit, Pad, NoDigit
<1>3. acc \in Nat /\ (buf = 0 => acc \in 0..127)
  <2>1. CASE v = Pad
    BY <2>1 DEF ShiftIn, TypeOK, Pad
  <2>2. CASE v # Pad
    <3>1. v \in 0..63 /\ buf \in 0..127
      BY <1>2, <2>2 DEF TypeOK, Pad
    <3>2. acc = buf * 64 + v
      BY <2>2 DEF ShiftIn
    <3> HIDE DEF v, acc
    <3> QED
      BY <3>1, <3>2
  <2> QED
    BY <2>1, <2>2
<1> HIDE DEF v, acc
<1>4. /\ text' = text /\ end' = end /\ phase' = phase /\ pos' = pos + 1
      /\ IF bits + 6 >= 8
         THEN /\ bits' = left
              /\ out' = Append(out, (acc \div Unit(left)) % 256)
              /\ buf' = acc % Unit(left)
         ELSE bits' = bits + 6 /\ buf' = acc /\ out' = out
  BY DEF Read, v, acc
<1>5. out \in Seq(Byte) /\ bits \in {0, 2, 4, 6} /\ (bits < 6 => buf < Unit(bits)) /\ buf \in Nat
  BY DEF TypeOK
<1>6. \A b \in {0, 2, 4} : (acc \div Unit(b)) % 256 \in Byte /\ acc % Unit(b) \in 0..(Unit(b) - 1)
  <2>1. \A m \in {1, 4, 16} : (acc \div m) % 256 \in 0..255 /\ acc % m \in 0..(m - 1)
    BY <1>3
  <2>2. \A b \in {0, 2, 4} : Unit(b) \in {1, 4, 16}
    BY DEF Unit
  <2> QED
    BY <2>1, <2>2 DEF Byte
<1>7. out' \in Seq(Byte) /\ bits' \in {0, 2, 4, 6} /\ buf' \in 0..127 /\ (bits' < 6 => buf' < Unit(bits'))
  <2>1. CASE bits = 0
    <3>1. buf = 0
      BY <1>5, <2>1 DEF Unit
    <3> QED
      BY <1>3, <1>4, <1>5, <2>1, <3>1
  <2>2. CASE bits \in {2, 4, 6}
    <3>1. /\ bits' = left /\ left \in {0, 2, 4}
          /\ out' = Append(out, (acc \div Unit(left)) % 256) /\ buf' = acc % Unit(left)
      BY <1>4, <2>2
    <3> HIDE DEF left
    <3>2. Unit(left) \in {1, 4, 16}
      BY DEF Unit
    <3>3. (acc \div Unit(left)) % 256 \in Byte /\ acc % Unit(left) \in 0..(Unit(left) - 1)
      BY <1>6, <3>1
    <3>4. out' \in Seq(Byte)
      BY <1>5, <3>1, <3>3
    <3>5. buf' \in 0..127 /\ buf' < Unit(bits')
      <4>1. \A u \in {1, 4, 16} : \A x \in 0..(u - 1) : x \in 0..127 /\ x < u
        OBVIOUS
      <4> QED
        BY <3>1, <3>2, <3>3, <4>1
    <3> QED
      BY <3>1, <3>4, <3>5
  <2> QED
    BY <1>5, <2>1, <2>2
<1> QED
  BY <1>1, <1>4, <1>7 DEF TypeOK

\* Whatever text b64_decode is given, what it puts out are bytes and its u32
\* accumulator never has more than seven bits to shift.
THEOREM TypeCorrect == Base64Assumption /\ Spec => []TypeOK
<1>1. Base64Assumption /\ Init => TypeOK
  <2> SUFFICES ASSUME Base64Assumption, Init
               PROVE  TypeOK
    OBVIOUS
  <2>1. text \in Seq(Chars)
    <3>1. CASE payload \in Payloads /\ text = Encode(payload)
      BY <3>1, EncodeTyped DEF Base64Assumption
    <3>2. CASE text \in Texts
      BY <3>2 DEF Base64Assumption
    <3> QED
      BY <3>1, <3>2 DEF Init
  <2>2. Len(text) \in Nat
    BY <2>1
  <2> QED
    BY <2>1, <2>2 DEF Init, TypeOK, Unit
<1>2. TypeOK /\ [Next]_vars => TypeOK'
  <2> SUFFICES ASSUME TypeOK, [Next]_vars
               PROVE  TypeOK'
    OBVIOUS
  <2>1. CASE Trim
    BY <2>1 DEF TypeOK, Trim
  <2>2. CASE Refuse
    BY <2>2 DEF TypeOK, Refuse
  <2>3. CASE Read
    BY <2>3, ReadTyped
  <2>4. CASE Finish
    BY <2>4 DEF TypeOK, Finish
  <2>5. CASE UNCHANGED vars
    BY <2>5 DEF TypeOK, vars
  <2> QED
    BY <2>1, <2>2, <2>3, <2>4, <2>5 DEF Next
<1> QED
  BY <1>1, <1>2, Base64Assumption, PTL DEF Spec

-----------------------------------------------------------------------------
(***************************************************************************)
(* The other way round: what was decoded from a text, encoded again.       *)
(***************************************************************************)

Group(p, q) == DigitsOf(ByteOf(p, 3 * q + 1), ByteOf(p, 3 * q + 2), ByteOf(p, 3 * q + 3))

\* The two bytes in which digits overlap, and the third.
FirstByte(d1, d2) == d1 * 4 + d2 \div 16
SecondByte(d2, d3) == (d2 % 16) * 16 + d3 \div 4
ThirdByte(d3, d4) == (d3 % 4) * 64 + d4

\* The decoder has q groups of four digits behind it, and none to three digits
\* of the next, which are in the bytes it has put out and in the accumulator.
Regrouped(q) ==
  \/ pos = 4 * q /\ Len(out) = 3 * q /\ bits = 0 /\ buf = 0
  \/ pos = 4 * q + 1 /\ Len(out) = 3 * q /\ bits = 6 /\ buf = text[4 * q + 1]
  \/ /\ pos = 4 * q + 2 /\ Len(out) = 3 * q + 1 /\ bits = 4 /\ buf = text[4 * q + 2] % 16
     /\ out[3 * q + 1] = FirstByte(text[4 * q + 1], text[4 * q + 2])
  \/ /\ pos = 4 * q + 3 /\ Len(out) = 3 * q + 2 /\ bits = 2 /\ buf = text[4 * q + 3] % 4
     /\ out[3 * q + 1] = FirstByte(text[4 * q + 1], text[4 * q + 2])
     /\ out[3 * q + 2] = SecondByte(text[4 * q + 2], text[4 * q + 3])

\* The groups behind it are those of the bytes it has put out.
GroupsKept(q) == \A j \in 0..(q - 1), place \in 0..3 : text[4 * j + place + 1] = Group(out, j)[place + 1]

DInv ==
  /\ TypeOK
  /\ pos <= end
  /\ phase = "trim" => pos = 0
  /\ phase = "ok" => pos = end
  /\ \A i \in 1..pos : text[i] # NoDigit
  /\ (\A i \in 1..pos : text[i] # Pad) => \E q \in Nat : Regrouped(q) /\ GroupsKept(q)

\* Four digits make three bytes, whose digits they are.
LEMMA BytesOfDigits ==
  ASSUME NEW d1 \in Digit, NEW d2 \in Digit, NEW d3 \in Digit, NEW d4 \in Digit
  PROVE  /\ ShiftIn(0, d1) = d1
         /\ (ShiftIn(d1, d2) \div 16) % 256 = FirstByte(d1, d2)
         /\ ShiftIn(d1, d2) % 16 = d2 % 16
         /\ (ShiftIn(d2 % 16, d3) \div 4) % 256 = SecondByte(d2, d3)
         /\ ShiftIn(d2 % 16, d3) % 4 = d3 % 4
         /\ (ShiftIn(d3 % 4, d4) \div 1) % 256 = ThirdByte(d3, d4)
         /\ ShiftIn(d3 % 4, d4) % 1 = 0
         /\ {FirstByte(d1, d2), SecondByte(d2, d3), ThirdByte(d3, d4)} \subseteq Byte
<1>1. d1 \in 0..63 /\ d2 \in 0..63 /\ d3 \in 0..63 /\ d4 \in 0..63
  BY DEF Digit
<1>2. \A acc \in Nat, v \in 0..63 : ShiftIn(acc, v) = acc * 64 + v
  BY DEF ShiftIn, Pad
<1>3. /\ ShiftIn(0, d1) = 0 * 64 + d1
      /\ ShiftIn(d1, d2) = d1 * 64 + d2
      /\ ShiftIn(d2 % 16, d3) = (d2 % 16) * 64 + d3
      /\ ShiftIn(d3 % 4, d4) = (d3 % 4) * 64 + d4
  <2>1. 0 \in Nat /\ d1 \in Nat /\ d2 % 16 \in Nat /\ d3 % 4 \in Nat
    BY <1>1
  <2> QED
    BY <1>1, <1>2, <2>1, Zenon
<1>4. 0 * 64 + d1 = d1
  BY <1>1
<1>5. /\ ((d1 * 64 + d2) \div 16) % 256 = d1 * 4 + d2 \div 16
      /\ (d1 * 64 + d2) % 16 = d2 % 16
      /\ d1 * 4 + d2 \div 16 \in 0..255
  BY <1>1
<1>6. /\ (((d2 % 16) * 64 + d3) \div 4) % 256 = (d2 % 16) * 16 + d3 \div 4
      /\ ((d2 % 16) * 64 + d3) % 4 = d3 % 4
      /\ (d2 % 16) * 16 + d3 \div 4 \in 0..255
  BY <1>1
<1>7. /\ (((d3 % 4) * 64 + d4) \div 1) % 256 = (d3 % 4) * 64 + d4
      /\ ((d3 % 4) * 64 + d4) % 1 = 0
      /\ (d3 % 4) * 64 + d4 \in 0..255
  BY <1>1
<1> QED
  BY <1>3, <1>4, <1>5, <1>6, <1>7 DEF FirstByte, SecondByte, ThirdByte, Byte

LEMMA DigitsOfBytes ==
  ASSUME NEW d1 \in Digit, NEW d2 \in Digit, NEW d3 \in Digit, NEW d4 \in Digit
  PROVE  /\ FirstByte(d1, d2) \div 4 = d1
         /\ (FirstByte(d1, d2) % 4) * 16 + SecondByte(d2, d3) \div 16 = d2
         /\ (SecondByte(d2, d3) % 16) * 4 + ThirdByte(d3, d4) \div 64 = d3
         /\ ThirdByte(d3, d4) % 64 = d4
         /\ d2 % 16 = 0 => (FirstByte(d1, d2) % 4) * 16 + 0 \div 16 = d2
         /\ d3 % 4 = 0 => (SecondByte(d2, d3) % 16) * 4 + 0 \div 64 = d3
<1>1. d1 \in 0..63 /\ d2 \in 0..63 /\ d3 \in 0..63 /\ d4 \in 0..63
  BY DEF Digit
<1>2. (d1 * 4 + d2 \div 16) \div 4 = d1 /\ (d1 * 4 + d2 \div 16) % 4 = d2 \div 16
  BY <1>1
<1>3. /\ ((d2 % 16) * 16 + d3 \div 4) \div 16 = d2 % 16
      /\ ((d2 % 16) * 16 + d3 \div 4) % 16 = d3 \div 4
  BY <1>1
<1>4. /\ ((d3 % 4) * 64 + d4) \div 64 = d3 % 4
      /\ ((d3 % 4) * 64 + d4) % 64 = d4
  BY <1>1
<1>5. (d2 \div 16) * 16 + (d2 % 16) = d2 /\ (d3 \div 4) * 4 + (d3 % 4) = d3
  BY <1>1
<1>6. 0 \div 16 = 0 /\ 0 \div 64 = 0
  OBVIOUS
<1>7. d2 \div 16 \in Nat /\ d3 \div 4 \in Nat
  BY <1>1
<1> QED
  BY <1>1, <1>2, <1>3, <1>4, <1>5, <1>6, <1>7 DEF FirstByte, SecondByte, ThirdByte

\* A byte more changes no byte that is there.
LEMMA ByteAppended ==
  ASSUME NEW p \in Seq(Byte), NEW x \in Byte
  PROVE  /\ Append(p, x) \in Seq(Byte) /\ Len(Append(p, x)) = Len(p) + 1 /\ Len(p) \in Nat
         /\ \A k \in 1..Len(p) : Append(p, x)[k] = p[k] /\ ByteOf(Append(p, x), k) = ByteOf(p, k)
         /\ Append(p, x)[Len(p) + 1] = x
  BY DEF ByteOf

LEMMA GroupsStay ==
  ASSUME TypeOK, NEW q \in Nat, GroupsKept(q), 3 * q <= Len(out), NEW x \in Byte,
         out' = Append(out, x), text' = text
  PROVE  GroupsKept(q)'
<1>1. out \in Seq(Byte)
  BY DEF TypeOK
<1>2. ASSUME NEW j \in 0..(q - 1) PROVE Group(out', j) = Group(out, j)
  <2>1. 3 * j + 1 \in 1..Len(out) /\ 3 * j + 2 \in 1..Len(out) /\ 3 * j + 3 \in 1..Len(out)
    BY <1>1
  <2> QED
    BY <1>1, <2>1, ByteAppended DEF Group
<1> QED
  BY <1>2 DEF GroupsKept

\* A digit is read.
LEMMA ReadRegroups ==
  ASSUME DInv, Read, \A i \in 1..pos' : text[i] # Pad
  PROVE  \E q \in Nat : Regrouped(q)' /\ GroupsKept(q)'
<1>1. /\ text' = text /\ pos' = pos + 1 /\ pos \in Nat /\ pos < end /\ text[pos + 1] # NoDigit
      /\ out \in Seq(Byte) /\ Len(out) \in Nat /\ end <= Len(text) /\ Len(text) \in Nat /\ end \in Nat
  BY DEF DInv, TypeOK, Read
<1>2. \A i \in 1..(pos + 1) : text[i] \in Digit
  <2> TAKE i \in 1..(pos + 1)
  <2>1. i \in 1..Len(text) /\ text[i] # Pad
    BY <1>1
  <2>2. text[i] \in Chars
    BY <2>1 DEF DInv, TypeOK
  <2>3. text[i] # NoDigit
    BY <1>1 DEF DInv
  <2> QED
    BY <2>1, <2>2, <2>3 DEF Chars
<1>3. PICK q \in Nat : Regrouped(q) /\ GroupsKept(q)
  BY <1>1 DEF DInv
<1> DEFINE d1 == text[4 * q + 1]
           d2 == text[4 * q + 2]
           d3 == text[4 * q + 3]
           d4 == text[4 * q + 4]
<1>4. 0 \in Digit
  BY DEF Digit
<1>5. CASE pos = 4 * q /\ Len(out) = 3 * q /\ bits = 0 /\ buf = 0
  <2>1. d1 \in Digit
    BY <1>1, <1>2, <1>5
  <2>2. ShiftIn(0, d1) = d1
    BY <1>4, <2>1, BytesOfDigits
  <2>3. bits' = 6 /\ buf' = d1 /\ out' = out
    BY <1>5, <2>2 DEF Read
  <2>4. Regrouped(q)'
    BY <1>1, <1>5, <2>3 DEF Regrouped
  <2> QED
    BY <1>1, <1>3, <2>3, <2>4 DEF GroupsKept
<1>6. CASE pos = 4 * q + 1 /\ Len(out) = 3 * q /\ bits = 6 /\ buf = d1
  <2>1. d1 \in Digit /\ d2 \in Digit /\ text[pos + 1] = d2
    BY <1>1, <1>2, <1>6
  <2>2. /\ (ShiftIn(d1, d2) \div 16) % 256 = FirstByte(d1, d2) /\ FirstByte(d1, d2) \in Byte
        /\ ShiftIn(d1, d2) % 16 = d2 % 16
    BY <1>4, <2>1, BytesOfDigits
  <2> HIDE DEF d1, d2
  <2>3. bits' = 4 /\ buf' = d2 % 16 /\ out' = Append(out, FirstByte(d1, d2))
    BY <1>6, <2>1, <2>2 DEF Read, Unit
  <2>4. Len(out') = 3 * q + 1 /\ out'[3 * q + 1] = FirstByte(d1, d2)
    BY <1>1, <1>6, <2>2, <2>3, ByteAppended
  <2>5. Regrouped(q)'
    BY <1>1, <1>6, <2>3, <2>4 DEF Regrouped, d1, d2
  <2>6. GroupsKept(q)'
    BY <1>1, <1>3, <1>6, <2>2, <2>3, GroupsStay DEF DInv
  <2> QED
    BY <2>5, <2>6
<1>7. CASE /\ pos = 4 * q + 2 /\ Len(out) = 3 * q + 1 /\ bits = 4 /\ buf = d2 % 16
           /\ out[3 * q + 1] = FirstByte(d1, d2)
  <2>1. d2 \in Digit /\ d3 \in Digit /\ text[pos + 1] = d3
    BY <1>1, <1>2, <1>7
  <2>2. /\ (ShiftIn(d2 % 16, d3) \div 4) % 256 = SecondByte(d2, d3) /\ SecondByte(d2, d3) \in Byte
        /\ ShiftIn(d2 % 16, d3) % 4 = d3 % 4
    BY <1>4, <2>1, BytesOfDigits
  <2> HIDE DEF d1, d2, d3
  <2>3. bits' = 2 /\ buf' = d3 % 4 /\ out' = Append(out, SecondByte(d2, d3))
    BY <1>7, <2>1, <2>2 DEF Read, Unit
  <2>4. /\ Len(out') = 3 * q + 2 /\ out'[3 * q + 2] = SecondByte(d2, d3)
        /\ out'[3 * q + 1] = FirstByte(d1, d2)
    <3>1. 3 * q + 1 \in 1..Len(out) /\ Len(out) + 1 = 3 * q + 2
      BY <1>7
    <3>2. /\ Len(out') = Len(out) + 1 /\ out'[Len(out) + 1] = SecondByte(d2, d3)
          /\ \A k \in 1..Len(out) : out'[k] = out[k]
          /\ out' \in Seq(Byte)
      BY <1>1, <2>2, <2>3, ByteAppended
    <3> QED
      BY <1>7, <3>1, <3>2
  <2>5. Regrouped(q)'
    BY <1>1, <1>7, <2>3, <2>4 DEF Regrouped, d1, d2, d3
  <2>6. GroupsKept(q)'
    BY <1>1, <1>3, <1>7, <2>2, <2>3, GroupsStay DEF DInv
  <2> QED
    BY <2>5, <2>6
<1>8. CASE /\ pos = 4 * q + 3 /\ Len(out) = 3 * q + 2 /\ bits = 2 /\ buf = d3 % 4
           /\ out[3 * q + 1] = FirstByte(d1, d2) /\ out[3 * q + 2] = SecondByte(d2, d3)
  <2>1. d1 \in Digit /\ d2 \in Digit /\ d3 \in Digit /\ d4 \in Digit /\ text[pos + 1] = d4
    BY <1>1, <1>2, <1>8
  <2>2. /\ (ShiftIn(d3 % 4, d4) \div 1) % 256 = ThirdByte(d3, d4) /\ ThirdByte(d3, d4) \in Byte
        /\ ShiftIn(d3 % 4, d4) % 1 = 0
    BY <2>1, BytesOfDigits
  <2> HIDE DEF d1, d2, d3, d4
  <2>3. bits' = 0 /\ buf' = 0 /\ out' = Append(out, ThirdByte(d3, d4))
    BY <1>8, <2>1, <2>2 DEF Read, Unit
  <2>4. /\ Len(out') = 3 * q + 3 /\ out'[3 * q + 3] = ThirdByte(d3, d4)
        /\ out'[3 * q + 1] = FirstByte(d1, d2) /\ out'[3 * q + 2] = SecondByte(d2, d3)
        /\ out' \in Seq(Byte)
    <3>1. 3 * q + 1 \in 1..Len(out) /\ 3 * q + 2 \in 1..Len(out) /\ Len(out) + 1 = 3 * q + 3
      BY <1>8
    <3>2. /\ Len(out') = Len(out) + 1 /\ out'[Len(out) + 1] = ThirdByte(d3, d4)
          /\ \A k \in 1..Len(out) : out'[k] = out[k]
          /\ out' \in Seq(Byte)
      BY <1>1, <2>2, <2>3, ByteAppended
    <3> QED
      BY <1>8, <3>1, <3>2
  <2>5. Regrouped(q + 1)'
    <3>1. pos' = 4 * (q + 1) /\ Len(out') = 3 * (q + 1)
      BY <1>1, <1>8, <2>4
    <3> QED
      BY <2>3, <3>1 DEF Regrouped
  <2>6. GroupsKept(q)'
    BY <1>1, <1>3, <1>8, <2>2, <2>3, GroupsStay DEF DInv
  <2>7. Group(out', q) = DigitsOf(FirstByte(d1, d2), SecondByte(d2, d3), ThirdByte(d3, d4))
    <3>1. 3 * q + 1 \in DOMAIN out' /\ 3 * q + 2 \in DOMAIN out' /\ 3 * q + 3 \in DOMAIN out'
      BY <2>4
    <3> QED
      BY <2>4, <3>1 DEF Group, ByteOf
  <2>8. Group(out', q) = <<d1, d2, d3, d4>>
    BY <2>1, <2>7, DigitsOfBytes DEF DigitsOf
  <2>9. GroupsKept(q + 1)'
    <3>1. ASSUME NEW j \in 0..q, NEW place \in 0..3
          PROVE  text'[4 * j + place + 1] = Group(out', j)[place + 1]
      <4>1. CASE j = q
        <5>1. \A n \in 0..3 : text[4 * q + n + 1] = <<d1, d2, d3, d4>>[n + 1]
          BY DEF d1, d2, d3, d4
        <5> QED
          BY <1>1, <2>8, <4>1, <5>1
      <4>2. CASE j # q
        BY <2>6, <4>2 DEF GroupsKept
      <4> QED
        BY <4>1, <4>2
    <3>2. q + 1 - 1 = q
      OBVIOUS
    <3> QED
      BY <3>1, <3>2 DEF GroupsKept
  <2>10. q + 1 \in Nat
    OBVIOUS
  <2> QED
    BY <2>5, <2>9, <2>10
<1> QED
  BY <1>3, <1>5, <1>6, <1>7, <1>8 DEF Regrouped

LEMMA DStep == DInv /\ TypeOK' /\ [Next]_vars => DInv'
<1> SUFFICES ASSUME DInv, TypeOK', [Next]_vars PROVE DInv'
  OBVIOUS
<1>1. CASE Read
  <2>1. /\ text' = text /\ end' = end /\ phase' = phase /\ pos' = pos + 1 /\ phase = "read"
        /\ pos \in Nat /\ end \in Nat /\ pos < end /\ text[pos + 1] # NoDigit
    BY <1>1 DEF DInv, TypeOK, Read
  <2>2. \A i \in 1..pos' : text'[i] # NoDigit
    BY <2>1 DEF DInv
  <2>3. (\A i \in 1..pos' : text'[i] # Pad) => \E q \in Nat : Regrouped(q)' /\ GroupsKept(q)'
    BY <1>1, <2>1, ReadRegroups
  <2> QED
    BY <2>1, <2>2, <2>3 DEF DInv
<1>2. CASE Trim
  <2>1. /\ UNCHANGED <<text, pos, out, buf, bits>> /\ pos = 0 /\ phase' \in {"trim", "read"}
        /\ end \in Nat /\ (end' = end \/ (end > 0 /\ end' = end - 1))
    BY <1>2 DEF DInv, TypeOK, Trim
  <2>2. pos' <= end'
    BY <2>1
  <2> QED
    BY <2>1, <2>2 DEF DInv, Regrouped, GroupsKept
<1>3. CASE Refuse \/ Finish \/ UNCHANGED vars
  BY <1>3 DEF DInv, TypeOK, Refuse, Finish, vars, Regrouped, GroupsKept
<1> QED
  BY <1>1, <1>2, <1>3 DEF Next

\* What the groups behind it and the last one say of the whole text.
LEMMA EncodedAgain ==
  ASSUME DInv
  PROVE  AcceptsEncodings
<1> SUFFICES ASSUME phase = "ok", ~Lenient
             PROVE  end = Digits(out) /\ \A i \in 1..end : text[i] = CharOf(out, i)
  BY DEF AcceptsEncodings
<1>1. /\ pos = end /\ end \in Nat /\ end % 4 # 1 /\ buf = 0 /\ out \in Seq(Byte) /\ Len(out) \in Nat
      /\ \A i \in 1..end : text[i] # Pad
      /\ end <= Len(text) /\ Len(text) \in Nat
  BY DEF DInv, TypeOK, Lenient
<1>2. PICK q \in Nat : Regrouped(q) /\ GroupsKept(q)
  BY <1>1 DEF DInv
<1>3. \A i \in 1..end : text[i] \in Digit
  <2> TAKE i \in 1..end
  <2>1. i \in 1..Len(text)
    BY <1>1
  <2>2. text[i] \in Chars /\ text[i] # NoDigit
    BY <1>1, <2>1 DEF DInv, TypeOK
  <2> QED
    BY <1>1, <2>2 DEF Chars
<1>4. pos # 4 * q + 1
  BY <1>1
<1>5. end = Digits(out) /\ end \in {4 * q, 4 * q + 2, 4 * q + 3}
  BY <1>1, <1>2, <1>4 DEF Regrouped, Digits
<1>6. \A j \in Nat, place \in 0..3 :
        4 * j + place + 1 <= end => CharOf(out, 4 * j + place + 1) = Group(out, j)[place + 1]
  BY <1>1, <1>5, GroupChar DEF Group
<1> DEFINE d1 == text[4 * q + 1]
           d2 == text[4 * q + 2]
           d3 == text[4 * q + 3]
<1>7. ASSUME NEW place \in 0..3, 4 * q + place + 1 <= end
      PROVE  text[4 * q + place + 1] = Group(out, q)[place + 1]
  <2>1. 0 \in Digit
    BY DEF Digit
  <2>2. CASE end = 4 * q + 2
    <3>1. d1 \in Digit /\ d2 \in Digit /\ place \in {0, 1}
      BY <1>3, <1>7, <2>2
    <3>2. Len(out) = 3 * q + 1 /\ d2 % 16 = 0 /\ out[3 * q + 1] = FirstByte(d1, d2)
      BY <1>1, <1>2, <2>2 DEF Regrouped
    <3>3. ByteOf(out, 3 * q + 1) = FirstByte(d1, d2) /\ ByteOf(out, 3 * q + 2) = 0
      BY <1>1, <3>2 DEF ByteOf
    <3>4. FirstByte(d1, d2) \div 4 = d1 /\ (FirstByte(d1, d2) % 4) * 16 + 0 \div 16 = d2
      BY <2>1, <3>1, <3>2, DigitsOfBytes
    <3>5. Group(out, q)[1] = d1 /\ Group(out, q)[2] = d2
      BY <3>3, <3>4 DEF Group, DigitsOf
    <3> QED
      BY <3>1, <3>5
  <2>3. CASE end = 4 * q + 3
    <3>1. d1 \in Digit /\ d2 \in Digit /\ d3 \in Digit /\ place \in {0, 1, 2}
      BY <1>3, <1>7, <2>3
    <3>2. /\ Len(out) = 3 * q + 2 /\ d3 % 4 = 0 /\ out[3 * q + 1] = FirstByte(d1, d2)
          /\ out[3 * q + 2] = SecondByte(d2, d3)
      BY <1>1, <1>2, <2>3 DEF Regrouped
    <3>3. /\ ByteOf(out, 3 * q + 1) = FirstByte(d1, d2) /\ ByteOf(out, 3 * q + 2) = SecondByte(d2, d3)
          /\ ByteOf(out, 3 * q + 3) = 0
      BY <1>1, <3>2 DEF ByteOf
    <3>4. /\ FirstByte(d1, d2) \div 4 = d1
          /\ (FirstByte(d1, d2) % 4) * 16 + SecondByte(d2, d3) \div 16 = d2
          /\ (SecondByte(d2, d3) % 16) * 4 + 0 \div 64 = d3
      BY <2>1, <3>1, <3>2, DigitsOfBytes
    <3>5. Group(out, q)[1] = d1 /\ Group(out, q)[2] = d2 /\ Group(out, q)[3] = d3
      BY <3>3, <3>4 DEF Group, DigitsOf
    <3> QED
      BY <3>1, <3>5
  <2>4. end # 4 * q
    BY <1>7
  <2> QED
    BY <1>5, <2>2, <2>3, <2>4
<1>8. ASSUME NEW i \in 1..end PROVE text[i] = CharOf(out, i)
  <2> DEFINE j == (i - 1) \div 4
             place == (i - 1) % 4
  <2>1. j \in Nat /\ place \in 0..3 /\ i = 4 * j + place + 1
    BY <1>1
  <2> HIDE DEF j, place
  <2>2. j <= q
    BY <1>5, <2>1
  <2>3. j < q => text[4 * j + place + 1] = Group(out, j)[place + 1]
    BY <1>2, <2>1 DEF GroupsKept
  <2>4. j = q => text[4 * j + place + 1] = Group(out, j)[place + 1]
    BY <1>1, <1>7, <2>1
  <2>5. text[4 * j + place + 1] = Group(out, j)[place + 1]
    BY <2>1, <2>2, <2>3, <2>4
  <2> QED
    BY <1>1, <1>6, <2>1, <2>5
<1> QED
  BY <1>5, <1>8

\* Unless a text has one of the three flaws the decoder does not mind, b64_decode
\* accepts it only if an encoder makes it, up to the padding, of what came out.
THEOREM OnlyEncodingsPass == Base64Assumption /\ Spec => []AcceptsEncodings
<1>1. Init /\ TypeOK => DInv
  <2> SUFFICES ASSUME Init, TypeOK PROVE DInv
    OBVIOUS
  <2>1. pos = 0 /\ out = <<>> /\ bits = 0 /\ buf = 0 /\ phase = "trim" /\ end \in Nat
    BY DEF Init, TypeOK
  <2>2. Regrouped(0) /\ GroupsKept(0)
    BY <2>1 DEF Regrouped, GroupsKept
  <2> QED
    BY <2>1, <2>2 DEF DInv
<1> QED
  BY <1>1, DStep, EncodedAgain, TypeCorrect, PTL DEF Spec
=============================================================================
