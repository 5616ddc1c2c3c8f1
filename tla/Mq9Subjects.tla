---------------------------- MODULE Mq9Subjects ----------------------------
(***************************************************************************)
(* The subjects of the mq9 protocol and how the SDKs build and read them.  *)
(*                                                                         *)
(* A subject is the sequence of its dot-separated words after the fixed    *)
(* "$mq9.AI.MAILBOX.".  A mail id is a sequence of words too: the server   *)
(* issues one-word ids for private mailboxes, and the id of a public one   *)
(* is its user-chosen name, which may hold dots ("task.queue").  No SDK    *)
(* inspects the id: all six concatenate, in the same way, so there is one  *)
(* operator per function.                                                  *)
(***************************************************************************)
EXTENDS Naturals, Sequences

Levels == {"critical", "urgent", "normal"}
Filters == Levels \cup {"*"}

MsgBase(mailId) == <<"MSG">> \o mailId

\* Normal messages go to the bare subject, the others to base.level.
SubjectMsg(mailId, level) ==
  IF level = "normal" THEN MsgBase(mailId) ELSE Append(MsgBase(mailId), level)

\* Faulty: the wildcard is forgotten.
SubjectSubBare(mailId, filter) == MsgBase(mailId)

\* Faulty: the wildcard takes the place of the last word of the mail id.
SubjectSubWide(mailId, filter) == Append(SubSeq(MsgBase(mailId), 1, Len(mailId)), "*")

SubjectSub(mailId, filter) ==
  IF filter = "normal" THEN MsgBase(mailId) ELSE Append(MsgBase(mailId), filter)

SubjectList(mailId) == <<"LIST">> \o mailId

\* Faulty: the message before the mailbox.
SubjectDeleteSwapped(mailId, msgId) == <<"DELETE", msgId>> \o mailId

SubjectDelete(mailId, msgId) == <<"DELETE">> \o Append(mailId, msgId)

\* Faulty: a level is forgotten.
FromStrTwoLevels(word) == IF word = "urgent" THEN word ELSE "normal"

FromStrLossy(word) == IF word \in {"critical", "urgent"} THEN word ELSE "normal"

\* The words a subject has after the base of a mailbox; none if it does not
\* start with that base.
SuffixOf(mailId, subject) ==
  LET n == Len(MsgBase(mailId))
  IN  IF Len(subject) > n /\ SubSeq(subject, 1, n) = MsgBase(mailId)
      THEN SubSeq(subject, n + 1, Len(subject))
      ELSE <<>>

\* The level the receiver reads off the subject: only a one-word suffix can
\* be the name of a level.
LevelOfSubject(mailId, subject) ==
  LET suffix == SuffixOf(mailId, subject)
  IN  IF Len(suffix) = 1 THEN FromStrLossy(suffix[1]) ELSE "normal"

(***************************************************************************)
(* The server's side (external).                                           *)
(***************************************************************************)

\* A subscription receives the subjects its pattern names.  A final "*"
\* stands for one word or, as the SDKs rely on, for no suffix at all.
Matches(pattern, subject) ==
  LET n == Len(pattern)
      front == SubSeq(pattern, 1, n - 1)
  IN  \/ subject = pattern
      \/ /\ pattern[n] = "*"
         /\ \/ subject = front
            \/ Len(subject) = n /\ SubSeq(subject, 1, n - 1) = front

\* Mail id b is mail id a with one word added.
AddsWord(b, a) == Len(b) = Len(a) + 1 /\ SubSeq(b, 1, Len(a)) = a

\* The mailbox and the message a DELETE names: message ids are one word.
DeleteTarget(subject) ==
  [mailId |-> SubSeq(subject, 2, Len(subject) - 1), msgId |-> subject[Len(subject)]]
=============================================================================
