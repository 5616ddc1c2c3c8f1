------------------------------ MODULE MCBase64 ------------------------------
(***************************************************************************)
(* An instance of Mq9Base64 for TLC.                                       *)
(***************************************************************************)
EXTENDS Mq9Base64, SequencesExt

\* Bytes whose bits fall differently on the digits, in strings that fill a
\* group, leave one or two bytes in the last, and begin a second one.
SomePayloads == BoundedSeq({0, 1, 97, 255}, 4)

\* Two digits with different lowest bits and the largest, "=" and a character
\* outside the alphabet, anywhere in texts that begin a second group.
SomeTexts == BoundedSeq({0, 5, 63, Pad, NoDigit}, 5)
=============================================================================
