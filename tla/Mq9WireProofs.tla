--------------------------- MODULE Mq9WireProofs ---------------------------
(***************************************************************************)
(* What the subjects tell apart, for mail ids of any number of words; that *)
(* mailboxes whose names are apart are therefore kept apart; and what      *)
(* becomes of payloads, ids and levels: for any number of mailboxes,       *)
(* messages and SDKs, and any payloads.                                    *)
(***************************************************************************)
EXTENDS Mq9Wire, SequenceTheorems, TLAPS

(***************************************************************************)
(* Subjects.                                                               *)
(***************************************************************************)

\* The words of subjects.  (All of them are strings; the provers need to be
\* told so of those the protocol fixes.)
Word == STRING \cup Levels \cup {"*", "MSG", "DELETE"}

LEMMA FixedWords == Levels \cup {"*", "MSG", "DELETE"} \subseteq Word
  BY DEF Word

\* Cutting the last word off a subject, and cutting it out.
LEMMA AppendPrefix ==
  ASSUME NEW s \in Seq(Word), NEW w \in Word
  PROVE  SubSeq(Append(s, w), 1, Len(s)) = s
<1>1. Len(s) \in Nat
  BY LenProperties
<1>2. \A i \in 1..Len(s) : Append(s, w)[i] = s[i] /\ s[i] \in Word
  BY AppendProperties, ElementOfSeq
<1>3. /\ SubSeq(Append(s, w), 1, Len(s)) \in Seq(Word)
      /\ Len(SubSeq(Append(s, w), 1, Len(s))) = Len(s)
      /\ \A i \in 1..Len(s) : SubSeq(Append(s, w), 1, Len(s))[i] = Append(s, w)[i]
  <2>1. \A i \in 1..Len(s) : Append(s, w)[i] \in Word
    BY <1>2
  <2> QED
    BY <1>1, <2>1, SubSeqProperties
<1> QED
  BY <1>2, <1>3, SeqEqual

LEMMA AppendLast ==
  ASSUME NEW s \in Seq(Word), NEW w \in Word
  PROVE  SubSeq(Append(s, w), Len(s) + 1, Len(s) + 1) = <<w>>
<1>1. /\ Append(s, w) \in Seq(Word)
      /\ Len(Append(s, w)) = Len(s) + 1
      /\ Append(s, w)[Len(s) + 1] = w
  BY AppendProperties
<1>2. Len(s) \in Nat
  BY LenProperties
<1>3. SubSeq(Append(s, w), Len(s) + 1, Len(s) + 1)
        = <<w>> \o SubSeq(Append(s, w), Len(s) + 2, Len(s) + 1)
  <2>1. /\ Len(s) + 1 \in 1..Len(Append(s, w))
        /\ Len(s) + 1 \in (Len(s) + 1)..Len(Append(s, w))
        /\ Len(s) + 1 + 1 = Len(s) + 2
    BY <1>1, <1>2
  <2> QED
    BY <1>1, <2>1, SubSeqRecursiveFirst
<1>4. SubSeq(Append(s, w), Len(s) + 2, Len(s) + 1) = <<>>
  BY <1>2, SubSeqEmpty
<1>5. <<w>> \in Seq(Word) /\ <<w>> \o <<>> = <<w>>
  BY ConcatEmptySeq
<1> QED
  BY <1>3, <1>4, <1>5

\* A mail id has words, and the subject of its mailbox one more, "MSG".
LEMMA MsgBaseWords ==
  ASSUME NEW id \in Seq(Word)
  PROVE  /\ MsgBase(id) \in Seq(Word)
         /\ Len(MsgBase(id)) = Len(id) + 1
         /\ MsgBase(id)[1] = "MSG"
         /\ \A i \in 1..Len(id) : MsgBase(id)[i + 1] = id[i]
<1>1. <<"MSG">> \in Seq(Word) /\ Len(<<"MSG">>) = 1 /\ <<"MSG">>[1] = "MSG"
  BY FixedWords
<1>2. Len(id) \in Nat
  BY LenProperties
<1> QED
  BY <1>1, <1>2, ConcatProperties DEF MsgBase

\* No two mail ids share a base subject (subject_msg_base).
LEMMA MsgBaseInjective ==
  ASSUME NEW a \in Seq(Word), NEW b \in Seq(Word), MsgBase(a) = MsgBase(b)
  PROVE  a = b
<1>1. Len(a) \in Nat /\ Len(b) \in Nat
  BY LenProperties
<1>2. Len(a) = Len(b)
  BY <1>1, MsgBaseWords
<1>3. \A i \in 1..Len(a) : MsgBase(a)[i + 1] = a[i]
  BY MsgBaseWords
<1>4. \A i \in 1..Len(a) : MsgBase(a)[i + 1] = b[i]
  BY <1>2, MsgBaseWords
<1> QED
  BY <1>2, <1>3, <1>4, SeqEqual

\* A base subject with one word added is the base subject of the mail id with
\* that word added.
LEMMA MsgBaseExtended ==
  ASSUME NEW a \in Seq(Word), NEW b \in Seq(Word), NEW w \in Word,
         MsgBase(b) = Append(MsgBase(a), w)
  PROVE  AddsWord(b, a)
<1>1. Len(a) \in Nat /\ Len(b) \in Nat
  BY LenProperties
<1>2. /\ Len(Append(MsgBase(a), w)) = Len(MsgBase(a)) + 1
      /\ \A i \in 1..Len(MsgBase(a)) : Append(MsgBase(a), w)[i] = MsgBase(a)[i]
  BY MsgBaseWords, AppendProperties
<1>3. Len(b) = Len(a) + 1
  BY <1>1, <1>2, MsgBaseWords
<1>4. \A i \in 1..Len(a) : b[i] = a[i]
  <2> TAKE i \in 1..Len(a)
  <2>1. i \in 1..Len(b) /\ i + 1 \in 1..Len(MsgBase(a))
    BY <1>1, <1>3, MsgBaseWords
  <2>2. MsgBase(b)[i + 1] = MsgBase(a)[i + 1]
    BY <1>2, <2>1
  <2> QED
    BY <2>1, <2>2, MsgBaseWords
<1>5. /\ SubSeq(b, 1, Len(a)) \in Seq(Word)
      /\ Len(SubSeq(b, 1, Len(a))) = Len(a)
      /\ \A i \in 1..Len(a) : SubSeq(b, 1, Len(a))[i] = b[i]
  <2>1. \A i \in 1..Len(a) : b[i] \in Word
    BY <1>1, <1>3, ElementOfSeq
  <2> QED
    BY <1>1, <2>1, SubSeqProperties
<1>6. SubSeq(b, 1, Len(a)) = a
  BY <1>4, <1>5, SeqEqual
<1> QED
  BY <1>3, <1>6 DEF AddsWord

\* A subject that is one word longer than its beginning s is s with that word.
LEMMA AppendOfPrefix ==
  ASSUME NEW s \in Seq(Word), NEW t \in Seq(Word),
         Len(t) = Len(s) + 1, SubSeq(t, 1, Len(s)) = s
  PROVE  t[Len(t)] \in Word /\ t = Append(s, t[Len(t)])
<1>1. Len(s) \in Nat /\ Len(t) \in 1..Len(t)
  BY LenProperties
<1>2. t[Len(t)] \in Word
  BY <1>1, ElementOfSeq
<1>3. /\ Append(s, t[Len(t)]) \in Seq(Word)
      /\ Len(Append(s, t[Len(t)])) = Len(t)
      /\ \A i \in 1..Len(s) : Append(s, t[Len(t)])[i] = s[i]
      /\ Append(s, t[Len(t)])[Len(s) + 1] = t[Len(t)]
  BY <1>2, AppendProperties
<1>4. \A i \in 1..Len(s) : s[i] = t[i]
  <2>1. \A i \in 1..Len(s) : t[i] \in Word
    BY <1>1, ElementOfSeq
  <2>2. \A i \in 1..Len(s) : SubSeq(t, 1, Len(s))[i] = t[i]
    BY <1>1, <2>1, SubSeqProperties
  <2> QED
    BY <2>2
<1>5. \A i \in 1..Len(t) : t[i] = Append(s, t[Len(t)])[i]
  <2> TAKE i \in 1..Len(t)
  <2>1. CASE i \in 1..Len(s)
    BY <1>3, <1>4, <2>1
  <2>2. CASE i = Len(s) + 1
    BY <1>3, <2>2
  <2> QED
    BY <1>1, <2>1, <2>2
<1> QED
  BY <1>2, <1>3, <1>5, SeqEqual

\* The base subject of a mail id without a wildcard does not end in one.
LEMMA MsgBaseEnd ==
  ASSUME NEW id \in Seq(Word), \A i \in DOMAIN id : id[i] # "*"
  PROVE  MsgBase(id)[Len(MsgBase(id))] # "*"
<1>1. Len(id) \in Nat /\ DOMAIN id = 1..Len(id)
  BY LenProperties
<1>2. /\ Len(MsgBase(id)) = Len(id) + 1
      /\ MsgBase(id)[1] = "MSG"
      /\ \A i \in 1..Len(id) : MsgBase(id)[i + 1] = id[i]
  BY MsgBaseWords
<1>3. CASE Len(id) = 0
  <2>1. Len(MsgBase(id)) = 1
    BY <1>3, <1>2
  <2> QED
    BY <1>2, <2>1
<1>4. CASE Len(id) # 0
  <2>1. Len(id) \in 1..Len(id)
    BY <1>1, <1>4
  <2>2. MsgBase(id)[Len(id) + 1] = id[Len(id)] /\ id[Len(id)] # "*"
    BY <1>1, <1>2, <2>1
  <2> QED
    BY <1>2, <2>2
<1> QED
  BY <1>3, <1>4

\* A subscription to a mailbox (subject_sub) receives what is sent to it
\* (subject_msg) at the levels of its filter, and nothing that is sent to
\* another, unless the name of one is that of the other with a word added.
THEOREM SubscriptionIsolation ==
  ASSUME NEW a \in Seq(Word), NEW b \in Seq(Word), NEW filter \in Filters, NEW level \in Levels,
         ~AddsWord(a, b), ~AddsWord(b, a), \A i \in DOMAIN a : a[i] # "*",
         Matches(SubjectSub(a, filter), SubjectMsg(b, level))
  PROVE  a = b /\ filter \in {"*", level}
<1>1. /\ MsgBase(a) \in Seq(Word) /\ MsgBase(b) \in Seq(Word)
      /\ Len(MsgBase(a)) \in Nat /\ Len(MsgBase(b)) \in Nat
      /\ filter \in Word /\ level \in Word
  BY MsgBaseWords, LenProperties, FixedWords DEF Filters
<1>2. MsgBase(a) # Append(MsgBase(b), level)
  BY <1>1, MsgBaseExtended
<1>3. CASE filter = "normal"
  <2>1. SubjectMsg(b, level) = MsgBase(a)
    BY <1>3, MsgBaseEnd DEF SubjectSub, Matches
  <2>2. level = "normal" /\ MsgBase(b) = MsgBase(a)
    BY <1>2, <2>1 DEF SubjectMsg
  <2> QED
    BY <1>3, <2>2, MsgBaseInjective
<1>4. CASE filter # "normal"
  <2>1. /\ SubjectSub(a, filter) = Append(MsgBase(a), filter)
        /\ Len(Append(MsgBase(a), filter)) = Len(MsgBase(a)) + 1
        /\ Append(MsgBase(a), filter)[Len(MsgBase(a)) + 1] = filter
        /\ SubSeq(Append(MsgBase(a), filter), 1, Len(MsgBase(a))) = MsgBase(a)
    BY <1>1, <1>4, AppendProperties, AppendPrefix DEF SubjectSub
  <2>2. Len(MsgBase(a)) + 1 - 1 = Len(MsgBase(a))
    BY <1>1
  <2>3. \/ SubjectMsg(b, level) = Append(MsgBase(a), filter)
        \/ /\ filter = "*"
           /\ \/ SubjectMsg(b, level) = MsgBase(a)
              \/ /\ Len(SubjectMsg(b, level)) = Len(MsgBase(a)) + 1
                 /\ SubSeq(SubjectMsg(b, level), 1, Len(MsgBase(a))) = MsgBase(a)
    BY <2>1, <2>2 DEF Matches
  <2>4. CASE level = "normal"
    <3>1. SubjectMsg(b, level) = MsgBase(b)
      BY <2>4 DEF SubjectMsg
    <3>2. \A w \in Word : MsgBase(b) # Append(MsgBase(a), w)
      BY MsgBaseExtended
    <3>3. ~(/\ Len(MsgBase(b)) = Len(MsgBase(a)) + 1
            /\ SubSeq(MsgBase(b), 1, Len(MsgBase(a))) = MsgBase(a))
      BY <1>1, <3>2, AppendOfPrefix
    <3>4. filter = "*" /\ MsgBase(b) = MsgBase(a)
      BY <1>1, <2>3, <3>1, <3>2, <3>3
    <3> QED
      BY <3>4, MsgBaseInjective
  <2>5. CASE level # "normal"
    <3>1. /\ SubjectMsg(b, level) = Append(MsgBase(b), level)
          /\ Len(Append(MsgBase(b), level)) = Len(MsgBase(b)) + 1
          /\ SubSeq(Append(MsgBase(b), level), 1, Len(MsgBase(b))) = MsgBase(b)
      BY <1>1, <2>5, AppendProperties, AppendPrefix DEF SubjectMsg
    <3>2. CASE Append(MsgBase(b), level) = Append(MsgBase(a), filter)
      <4>1. MsgBase(b) = MsgBase(a) /\ level = filter
        BY <1>1, <3>2, AppendInjective
      <4> QED
        BY <4>1, MsgBaseInjective
    <3>3. CASE /\ filter = "*"
               /\ Len(MsgBase(b)) + 1 = Len(MsgBase(a)) + 1
               /\ SubSeq(Append(MsgBase(b), level), 1, Len(MsgBase(a))) = MsgBase(a)
      <4>1. Len(MsgBase(a)) = Len(MsgBase(b))
        BY <1>1, <3>3
      <4>2. MsgBase(b) = MsgBase(a)
        BY <3>1, <3>3, <4>1
      <4> QED
        BY <3>3, <4>2, MsgBaseInjective
    <3> QED
      BY <1>2, <2>3, <3>1, <3>2, <3>3
  <2> QED
    BY <2>4, <2>5
<1> QED
  BY <1>3, <1>4

\* The level a receiver reads off the subject of a message of its mailbox is
\* the level the sender put there (subject_msg and parse_incoming).
THEOREM LevelRoundTrip ==
  ASSUME NEW id \in Seq(Word), NEW level \in Levels
  PROVE  LevelOfSubject(id, SubjectMsg(id, level)) = level
<1>1. /\ MsgBase(id) \in Seq(Word)
      /\ Len(MsgBase(id)) \in Nat
      /\ level \in Word
  BY MsgBaseWords, LenProperties, FixedWords
<1>2. CASE level = "normal"
  <2>1. SuffixOf(id, SubjectMsg(id, level)) = <<>>
    BY <1>1, <1>2 DEF SuffixOf, SubjectMsg
  <2>2. Len(<<>>) # 1
    OBVIOUS
  <2> QED
    BY <1>2, <2>1, <2>2 DEF LevelOfSubject
<1>3. CASE level # "normal"
  <2>1. SubSeq(Append(MsgBase(id), level), 1, Len(MsgBase(id))) = MsgBase(id)
    BY <1>1, AppendPrefix
  <2>2. SubSeq(Append(MsgBase(id), level), Len(MsgBase(id)) + 1, Len(MsgBase(id)) + 1) = <<level>>
    BY <1>1, AppendLast
  <2>3. Len(Append(MsgBase(id), level)) = Len(MsgBase(id)) + 1
    BY <1>1, AppendProperties
  <2>4. SuffixOf(id, SubjectMsg(id, level)) = <<level>>
    BY <1>1, <1>3, <2>1, <2>2, <2>3 DEF SuffixOf, SubjectMsg
  <2>5. Len(<<level>>) = 1 /\ <<level>>[1] = level
    OBVIOUS
  <2> QED
    BY <1>3, <2>4, <2>5 DEF LevelOfSubject, FromStrLossy, Levels
<1> QED
  BY <1>2, <1>3

\* DELETE names the mailbox and the message it was built from, whatever words
\* the mail id has (subject_delete).
THEOREM DeleteRoundTrip ==
  ASSUME NEW id \in Seq(Word), NEW msgId \in Word
  PROVE  DeleteTarget(SubjectDelete(id, msgId)) = [mailId |-> id, msgId |-> msgId]
<1>1. Append(id, msgId) \in Seq(Word) /\ Len(Append(id, msgId)) = Len(id) + 1
  BY AppendProperties
<1>2. <<"DELETE">> \in Seq(Word) /\ Len(<<"DELETE">>) = 1 /\ Len(id) \in Nat
  BY LenProperties, FixedWords
<1>3. /\ SubjectDelete(id, msgId) \in Seq(Word)
      /\ Len(SubjectDelete(id, msgId)) = Len(id) + 2
      /\ \A i \in 1..(Len(id) + 1) :
           SubjectDelete(id, msgId)[i + 1] = Append(id, msgId)[i]
  BY <1>1, <1>2, ConcatProperties DEF SubjectDelete
<1>4. SubjectDelete(id, msgId)[Len(id) + 2] = msgId
  BY <1>2, <1>3, AppendProperties
<1>5. /\ SubSeq(SubjectDelete(id, msgId), 2, Len(id) + 1) \in Seq(Word)
      /\ Len(SubSeq(SubjectDelete(id, msgId), 2, Len(id) + 1)) = Len(id)
      /\ \A i \in 1..Len(id) :
           SubSeq(SubjectDelete(id, msgId), 2, Len(id) + 1)[i] = SubjectDelete(id, msgId)[i + 1]
  <2>1. \A i \in 2..(Len(id) + 1) : SubjectDelete(id, msgId)[i] \in Word
    BY <1>2, <1>3, ElementOfSeq
  <2> QED
    BY <1>2, <2>1, SubSeqProperties
<1>6. \A i \in 1..Len(id) : SubjectDelete(id, msgId)[i + 1] = id[i]
  BY <1>2, <1>3, AppendProperties
<1>7. SubSeq(SubjectDelete(id, msgId), 2, Len(id) + 1) = id
  BY <1>5, <1>6, SeqEqual
<1>8. Len(SubjectDelete(id, msgId)) - 1 = Len(id) + 1
  BY <1>2, <1>3
<1> QED
  BY <1>3, <1>4, <1>7, <1>8 DEF DeleteTarget

(***************************************************************************)
(* Mailboxes.                                                              *)
(***************************************************************************)

\* What a subscription holds while there is one.
SubType == [mailId : MailIds, filter : Filters, sdk : Receivers]

(***************************************************************************)
(* The inductive invariant.                                                *)
(***************************************************************************)

SentType == sent \in Seq([mailId : MailIds, level : Levels, body : AppBodies])

\* A callback has been given nothing before it was subscribed, and then only
\* messages of its mailbox, at the levels of its filter.
InboxOwn ==
  \A n \in DOMAIN inbox :
    /\ n \in 1..Len(sent)
    /\ Subscribed
    /\ sent[n].mailId = sub.mailId
    /\ sub.filter \in {"*", sent[n].level}

IInv ==
  /\ SentType
  /\ Len(sent) <= MaxSends
  /\ sub \in SubType \cup {NoSub}
  /\ InboxOwn
  /\ refused = {}

LEMMA MailIdWords == MailIds \subseteq Seq(Word)
  BY WireAssumption, SeqMonotonic DEF Word

LEMMA InitIInv == Init => IInv
<1>1. Len(<<>>) = 0 /\ MaxSends \in Nat
  BY WireAssumption, LenProperties DEF MaxSends
<1> QED
  BY <1>1 DEF Init, IInv, SentType, InboxOwn

\* Receiving is what the naming of mailboxes matters for.
LEMMA ReceiveInboxOwn ==
  ASSUME NamesApart, IInv, NEW n \in 1..Len(sent), Receive(n)
  PROVE  InboxOwn'
<1>1. /\ Subscribed
      /\ sub \in SubType
      /\ sub.mailId \in MailIds /\ sub.filter \in Filters
  BY DEF IInv, Receive, Subscribed, SubType
<1>2. sent[n] \in [mailId : MailIds, level : Levels, body : AppBodies]
  BY ElementOfSeq DEF IInv, SentType
<1>3. sent[n].mailId \in MailIds /\ sent[n].level \in Levels
  BY <1>2
<1>4. Matches(SubjectSub(sub.mailId, sub.filter), SubjectMsg(sent[n].mailId, sent[n].level))
  BY DEF Receive, SubjectOf
<1>5. /\ sub.mailId \in Seq(Word) /\ sent[n].mailId \in Seq(Word)
      /\ ~AddsWord(sub.mailId, sent[n].mailId) /\ ~AddsWord(sent[n].mailId, sub.mailId)
      /\ \A i \in DOMAIN sub.mailId : sub.mailId[i] # "*"
  BY <1>1, <1>3, MailIdWords DEF NamesApart
<1>6. sub.mailId = sent[n].mailId /\ sub.filter \in {"*", sent[n].level}
  BY <1>1, <1>3, <1>4, <1>5, SubscriptionIsolation
<1>7. DOMAIN inbox' \subseteq DOMAIN inbox \cup {n} /\ UNCHANGED <<sent, sub>>
  BY DEF Receive
<1> QED
  BY <1>1, <1>6, <1>7 DEF IInv, InboxOwn, Subscribed

\* DELETE always names a message that is there.
LEMMA DeleteNotRefused ==
  ASSUME IInv, NEW n \in 1..Len(sent), Delete(n)
  PROVE  refused' = {}
<1>1. n \in DOMAIN inbox /\ Subscribed /\ sent[n].mailId = sub.mailId
  BY DEF IInv, InboxOwn, Delete
<1>2. sub.mailId \in Seq(Word)
  BY <1>1, MailIdWords DEF IInv, Subscribed, SubType
<1>3. MsgIds[n] \in Word
  <2>1. Len(sent) \in Nat /\ Len(MsgIds) \in Nat /\ Len(sent) <= Len(MsgIds)
    BY WireAssumption, LenProperties DEF IInv, SentType, MaxSends
  <2>2. MsgIds[n] \in STRING
    BY <2>1, WireAssumption, ElementOfSeq
  <2> QED
    BY <2>2 DEF Word
<1>4. DeleteTarget(SubjectDelete(sub.mailId, MsgIds[n]))
        = [mailId |-> sent[n].mailId, msgId |-> MsgIds[n]]
  BY <1>1, <1>2, <1>3, DeleteRoundTrip
<1> QED
  BY <1>4 DEF Delete, IInv

LEMMA StepIInv == NamesApart /\ IInv /\ [Next]_vars => IInv'
<1> SUFFICES ASSUME NamesApart, IInv, [Next]_vars
             PROVE  IInv'
  OBVIOUS
<1> USE DEF IInv
<1>1. ASSUME NEW mailId \in MailIds, NEW level \in Levels, NEW body \in AppBodies,
             Send(mailId, level, body)
      PROVE  IInv'
  <2> DEFINE rec == [mailId |-> mailId, level |-> level, body |-> body]
             Recs == [mailId : MailIds, level : Levels, body : AppBodies]
  <2>1. sent \in Seq(Recs) /\ rec \in Recs /\ sent' = Append(sent, rec)
    BY <1>1 DEF Send, SentType
  <2>2. /\ Append(sent, rec) \in Seq(Recs)
        /\ Len(Append(sent, rec)) = Len(sent) + 1
        /\ \A i \in 1..Len(sent) : Append(sent, rec)[i] = sent[i]
        /\ Len(sent) \in Nat
    <3> HIDE DEF rec, Recs
    <3> QED
      BY <2>1, AppendProperties, LenProperties
  <2>3. SentType'
    BY <2>1, <2>2 DEF SentType
  <2>4. Len(sent') <= MaxSends
    <3>1. Len(sent) < MaxSends /\ MaxSends \in Nat
      BY <1>1, WireAssumption, LenProperties DEF Send, MaxSends
    <3> QED
      BY <2>1, <2>2, <3>1
  <2>5. InboxOwn'
    <3>1. UNCHANGED <<inbox, sub>>
      BY <1>1 DEF Send
    <3>2. \A i \in 1..Len(sent) : i \in 1..Len(sent') /\ sent'[i] = sent[i]
      <4> HIDE DEF rec
      <4> QED
        BY <2>1, <2>2
    <3> QED
      BY <3>1, <3>2 DEF InboxOwn, Subscribed
  <2> QED
    BY <1>1, <2>3, <2>4, <2>5 DEF Send
<1>2. ASSUME NEW sdk \in Receivers, NEW mailId \in MailIds, NEW filter \in Filters,
             Subscribe(sdk, mailId, filter)
      PROVE  IInv'
  <2>1. DOMAIN inbox = {}
    BY <1>2 DEF Subscribe, InboxOwn
  <2>2. sub' \in SubType
    BY <1>2 DEF Subscribe, SubType
  <2> QED
    BY <1>2, <2>1, <2>2 DEF Subscribe, SentType, InboxOwn
<1>3. ASSUME NEW n \in 1..Len(sent), Receive(n)
      PROVE  IInv'
  <2>1. InboxOwn'
    BY <1>3, ReceiveInboxOwn
  <2> QED
    BY <1>3, <2>1 DEF Receive, SentType
<1>4. ASSUME NEW n \in 1..Len(sent), Delete(n)
      PROVE  IInv'
  <2>1. refused' = {}
    BY <1>4, DeleteNotRefused
  <2> QED
    BY <1>4, <2>1 DEF Delete, SentType, InboxOwn, Subscribed
<1>5. CASE UNCHANGED vars
  BY <1>5 DEF vars, SentType, InboxOwn, Subscribed
<1> QED
  BY <1>1, <1>2, <1>3, <1>4, <1>5 DEF Next

LEMMA Invariance == ASSUME NamesApart PROVE Spec => []IInv
<1>1. Init => IInv
  BY InitIInv
<1>2. IInv /\ [Next]_vars => IInv'
  BY StepIInv
<1> QED
  BY <1>1, <1>2, PTL DEF Spec

(***************************************************************************)
(* The theorems.                                                           *)
(***************************************************************************)

\* Mailboxes are kept apart: a callback is only given messages of the mailbox
\* it subscribed to.
THEOREM MailboxIsolation == ASSUME NamesApart PROVE Spec => []OwnMailboxOnly
<1>1. IInv => OwnMailboxOnly
  BY DEF IInv, InboxOwn, OwnMailboxOnly
<1> QED
  BY <1>1, Invariance, PTL

\* Every DELETE of a message a callback was given finds it.
THEOREM DeleteRouting == ASSUME NamesApart PROVE Spec => []DeleteFinds
<1>1. IInv => DeleteFinds
  BY DEF IInv, DeleteFinds
<1> QED
  BY <1>1, Invariance, PTL

(***************************************************************************)
(* Parsing: what the six SDKs make of the server's envelopes and, where it *)
(* sends none, of the payloads themselves.                                 *)
(***************************************************************************)

\* No payload can be taken for an envelope.
PayloadsApart == \A body \in AppBodies : ~HasId(body)

\* Every parser takes the id of an envelope and decodes its payload, but for an
\* empty one in Python; and if the envelope and the subject agree on the level,
\* so does the parser.
LEMMA EnvelopeParsed ==
  ASSUME NEW sdk \in SDKs, NEW seen, NEW level, NEW body
  PROVE  LET parsed == Parse(sdk, seen, ServerEnvelope(level, body))
         IN  /\ parsed.id = "given"
             /\ parsed.payload # "raised"
             /\ \/ parsed.payload = (IF body.kind = "nothing" THEN "none" ELSE "decoded")
                \/ sdk = "python" /\ body.kind = "nothing"
             /\ seen = level /\ level \in Levels => parsed.level = level
<1> DEFINE env == ServerEnvelope(level, body)
<1>1. /\ env.kind = "object" /\ env.id = "string" /\ env.level = level
      /\ env.payload = IF body.kind = "nothing" THEN "empty" ELSE "base64"
  BY DEF ServerEnvelope
<1>2. /\ HasId(env) /\ TextId(env) = "given"
      /\ level \in Levels => ToPriority(env) = level /\ JavaLevel(env) = level
  <2> HIDE DEF env
  <2> QED
    BY <1>1 DEF HasId, TextId, ToPriority, JavaLevel, FromStrLossy, Levels
<1> HIDE DEF env
<1>3. CASE sdk = "rust"
  BY <1>1, <1>2, <1>3 DEF Parse, RustParse, RustPayload, env
<1>4. CASE sdk = "python"
  BY <1>1, <1>2, <1>4 DEF Parse, PythonParse, PythonPayload, PythonId, env
<1>5. CASE sdk = "go"
  BY <1>1, <1>2, <1>5 DEF Parse, GoParse, GoPayload, env
<1>6. CASE sdk = "javascript"
  BY <1>1, <1>2, <1>6 DEF Parse, JsParse, JsPayload, JsId, env
<1>7. CASE sdk = "java"
  BY <1>1, <1>2, <1>7 DEF Parse, JavaParse, JavaPayload, env
<1>8. CASE sdk = "csharp"
  BY <1>1, <1>2, <1>8 DEF Parse, CsParse, CsPayload, env
<1> QED
  BY <1>3, <1>4, <1>5, <1>6, <1>7, <1>8 DEF SDKs

\* What is no envelope every parser hands on as it is, but for Python, which
\* raises on bytes that are not text.
LEMMA RawParsed ==
  ASSUME NEW sdk \in SDKs, NEW seen, NEW body, ~HasId(body)
  PROVE  \/ Parse(sdk, seen, body) = RawMessage(seen)
         \/ Parse(sdk, seen, body) = Raised /\ sdk = "python" /\ body.kind = "binary"
<1>1. CASE sdk = "python"
  <2>1. Parse(sdk, seen, body) = PythonParse(seen, body)
    BY <1>1 DEF Parse
  <2>2. CASE body.kind = "binary"
    BY <1>1, <2>1, <2>2 DEF PythonParse
  <2>3. CASE body.kind # "binary"
    BY <2>1, <2>3 DEF PythonParse
  <2> QED
    BY <2>2, <2>3
<1>2. CASE sdk # "python"
  BY <1>2 DEF SDKs, Parse, RustParse, GoParse, JsParse, JavaParse, CsParse
<1> QED
  BY <1>1, <1>2

\* What the server pushes of a body sent at a level.
Wire(level, body) == IF Enveloped THEN ServerEnvelope(level, body) ELSE body

\* Both together: what a parser makes of a body sent at a level if it has seen
\* some level in the subject.
Faithful(parsed, sdk, seen, level, body) ==
  /\ parsed.payload # "raised"
  /\ parsed.id = IF Enveloped THEN "given" ELSE ""
  /\ \/ parsed.payload = (IF ~Enveloped THEN "whole"
                          ELSE IF body.kind = "nothing" THEN "none" ELSE "decoded")
     \/ Enveloped /\ sdk = "python" /\ body.kind = "nothing"
  /\ seen = level /\ level \in Levels => parsed.level = level

Unreadable(parsed, sdk, body) ==
  parsed.payload = "raised" /\ ~Enveloped /\ sdk = "python" /\ body.kind = "binary"

LEMMA RawFaithful ==
  ASSUME ~Enveloped, NEW sdk, NEW seen, NEW level, NEW body, NEW parsed,
         \/ parsed = RawMessage(seen)
         \/ parsed = Raised /\ sdk = "python" /\ body.kind = "binary"
  PROVE  Faithful(parsed, sdk, seen, level, body) \/ Unreadable(parsed, sdk, body)
<1>1. CASE parsed = RawMessage(seen)
  <2>1. parsed.payload = "whole" /\ parsed.id = "" /\ parsed.level = seen
    BY <1>1 DEF RawMessage
  <2> QED
    BY <2>1 DEF Faithful
<1>2. CASE parsed = Raised /\ sdk = "python" /\ body.kind = "binary"
  BY <1>2 DEF Raised, Unreadable
<1> QED
  BY <1>1, <1>2

LEMMA WireParsed ==
  ASSUME Enveloped \/ PayloadsApart,
         NEW sdk \in SDKs, NEW seen, NEW level, NEW body \in AppBodies
  PROVE  \/ Faithful(Parse(sdk, seen, Wire(level, body)), sdk, seen, level, body)
         \/ Unreadable(Parse(sdk, seen, Wire(level, body)), sdk, body)
<1>1. CASE Enveloped
  <2>1. Wire(level, body) = ServerEnvelope(level, body)
    BY <1>1 DEF Wire
  <2> QED
    BY <1>1, <2>1, EnvelopeParsed DEF Faithful
<1>2. CASE ~Enveloped
  <2>1. ~HasId(body) /\ Wire(level, body) = body
    BY <1>2 DEF PayloadsApart, Wire
  <2>2. \/ Parse(sdk, seen, Wire(level, body)) = RawMessage(seen)
        \/ /\ Parse(sdk, seen, Wire(level, body)) = Raised
           /\ sdk = "python" /\ body.kind = "binary"
    BY <2>1, RawParsed
  <2> QED
    BY <1>2, <2>2, RawFaithful
<1> QED
  BY <1>1, <1>2

(***************************************************************************)
(* The inductive invariants.                                               *)
(***************************************************************************)

\* However mailboxes are named: what a callback was given, or its parser raised
\* on, was sent.
Shape ==
  /\ SentType
  /\ sub \in SubType \cup {NoSub}
  /\ \A n \in DOMAIN inbox \cup raised : n \in 1..Len(sent) /\ Subscribed

\* A callback sees the id and the payload that were sent ...
AsSent(n) ==
  /\ inbox[n].id = IF Enveloped THEN "given" ELSE ""
  /\ PayloadIsSent(n) \/ (Enveloped /\ sub.sdk = "python" /\ sent[n].body.kind = "nothing")

PayloadsAsSent ==
  /\ \A n \in DOMAIN inbox : AsSent(n)
  /\ \A n \in raised : ~Enveloped /\ sub.sdk = "python" /\ sent[n].body.kind = "binary"

\* ... and, if mailboxes are named apart, the level.
LevelsAsSent == \A n \in DOMAIN inbox : inbox[n].level = sent[n].level

\* Sending changes nothing about what was sent before.
LEMMA SendKeepsSent ==
  ASSUME SentType, NEW mailId \in MailIds, NEW level \in Levels, NEW body \in AppBodies,
         Send(mailId, level, body)
  PROVE  /\ SentType'
         /\ \A i \in 1..Len(sent) : i \in 1..Len(sent') /\ sent'[i] = sent[i]
<1> DEFINE rec == [mailId |-> mailId, level |-> level, body |-> body]
           Recs == [mailId : MailIds, level : Levels, body : AppBodies]
<1>1. sent \in Seq(Recs) /\ rec \in Recs /\ sent' = Append(sent, rec)
  BY DEF Send, SentType
<1>2. /\ sent' \in Seq(Recs)
      /\ \A i \in 1..Len(sent) : i \in 1..Len(sent') /\ sent'[i] = sent[i]
  <2> HIDE DEF rec, Recs
  <2>1. /\ Append(sent, rec) \in Seq(Recs)
        /\ Len(Append(sent, rec)) = Len(sent) + 1
        /\ \A i \in 1..Len(sent) : Append(sent, rec)[i] = sent[i]
        /\ Len(sent) \in Nat
    BY <1>1, AppendProperties, LenProperties
  <2> QED
    BY <1>1, <2>1
<1> QED
  BY <1>2 DEF SentType

LEMMA StepShape == Shape /\ [Next]_vars => Shape'
<1> SUFFICES ASSUME Shape, [Next]_vars PROVE Shape'
  OBVIOUS
<1> USE DEF Shape
<1>1. ASSUME NEW mailId \in MailIds, NEW level \in Levels, NEW body \in AppBodies,
             Send(mailId, level, body)
      PROVE  Shape'
  BY <1>1, SendKeepsSent DEF Send, Subscribed
<1>2. ASSUME NEW sdk \in Receivers, NEW mailId \in MailIds, NEW filter \in Filters,
             Subscribe(sdk, mailId, filter)
      PROVE  Shape'
  BY <1>2 DEF Subscribe, SubType, SentType
<1>3. ASSUME NEW n \in 1..Len(sent), Receive(n)
      PROVE  Shape'
  <2>1. /\ UNCHANGED <<sent, sub>> /\ Subscribed
        /\ DOMAIN inbox' \subseteq DOMAIN inbox \cup {n} /\ raised' \subseteq raised \cup {n}
    BY <1>3 DEF Receive
  <2> QED
    BY <2>1 DEF SentType, Subscribed
<1>4. ASSUME NEW n \in 1..Len(sent), Delete(n)
      PROVE  Shape'
  BY <1>4 DEF Delete, SentType, Subscribed
<1>5. CASE UNCHANGED vars
  BY <1>5 DEF vars, SentType, Subscribed
<1> QED
  BY <1>1, <1>2, <1>3, <1>4, <1>5 DEF Next

\* What the parser of the receiver makes of the n-th message.
ParsedOf(n) == Parse(sub.sdk, LevelOfSubject(sub.mailId, SubjectOf(n)), OnWire(n))

LEMMA ReceiveParses ==
  ASSUME Enveloped \/ PayloadsApart, Shape, NEW n \in 1..Len(sent), Receive(n)
  PROVE  \/ /\ Faithful(ParsedOf(n), sub.sdk, LevelOfSubject(sub.mailId, SubjectOf(n)),
                        sent[n].level, sent[n].body)
            /\ inbox' = [k \in DOMAIN inbox \cup {n} |-> IF k = n THEN ParsedOf(n) ELSE inbox[k]]
            /\ UNCHANGED raised
         \/ /\ Unreadable(ParsedOf(n), sub.sdk, sent[n].body)
            /\ raised' = raised \cup {n} /\ UNCHANGED inbox
<1>1. sub.sdk \in SDKs
  BY WireAssumption DEF Receive, Subscribed, Shape, SubType
<1>2. sent[n].body \in AppBodies
  <2>1. sent[n] \in [mailId : MailIds, level : Levels, body : AppBodies]
    BY ElementOfSeq DEF Shape, SentType
  <2> QED
    BY <2>1
<1>3. ParsedOf(n) = Parse(sub.sdk, LevelOfSubject(sub.mailId, SubjectOf(n)),
                          Wire(sent[n].level, sent[n].body))
  BY DEF ParsedOf, OnWire, Wire
<1>4. /\ ParsedOf(n).payload = "raised" => raised' = raised \cup {n} /\ UNCHANGED inbox
      /\ ParsedOf(n).payload # "raised" =>
           /\ inbox' = [k \in DOMAIN inbox \cup {n} |-> IF k = n THEN ParsedOf(n) ELSE inbox[k]]
           /\ UNCHANGED raised
  BY DEF Receive, ParsedOf
<1>5. \/ Faithful(ParsedOf(n), sub.sdk, LevelOfSubject(sub.mailId, SubjectOf(n)),
                  sent[n].level, sent[n].body)
      \/ Unreadable(ParsedOf(n), sub.sdk, sent[n].body)
  BY <1>1, <1>2, <1>3, WireParsed
<1> QED
  BY <1>4, <1>5 DEF Faithful, Unreadable

LEMMA StepPayloadsAsSent ==
  ASSUME Enveloped \/ PayloadsApart, Shape, PayloadsAsSent, [Next]_vars
  PROVE  PayloadsAsSent'
<1> USE DEF PayloadsAsSent, AsSent, PayloadIsSent
<1>1. ASSUME NEW mailId \in MailIds, NEW level \in Levels, NEW body \in AppBodies,
             Send(mailId, level, body)
      PROVE  PayloadsAsSent'
  <2>1. \A i \in 1..Len(sent) : sent'[i] = sent[i]
    BY <1>1, SendKeepsSent DEF Shape
  <2> QED
    BY <1>1, <2>1 DEF Send, Shape
<1>2. ASSUME NEW sdk \in Receivers, NEW mailId \in MailIds, NEW filter \in Filters,
             Subscribe(sdk, mailId, filter)
      PROVE  PayloadsAsSent'
  BY <1>2 DEF Subscribe, Shape
<1>3. ASSUME NEW n \in 1..Len(sent), Receive(n)
      PROVE  PayloadsAsSent'
  <2>1. UNCHANGED <<sent, sub>>
    BY <1>3 DEF Receive
  <2>2. CASE /\ Faithful(ParsedOf(n), sub.sdk, LevelOfSubject(sub.mailId, SubjectOf(n)),
                         sent[n].level, sent[n].body)
             /\ inbox' = [k \in DOMAIN inbox \cup {n} |-> IF k = n THEN ParsedOf(n) ELSE inbox[k]]
             /\ UNCHANGED raised
    BY <2>1, <2>2 DEF Faithful
  <2>3. CASE /\ Unreadable(ParsedOf(n), sub.sdk, sent[n].body)
             /\ raised' = raised \cup {n} /\ UNCHANGED inbox
    BY <2>1, <2>3 DEF Unreadable
  <2> QED
    BY <1>3, <2>2, <2>3, ReceiveParses
<1>4. ASSUME NEW n \in 1..Len(sent), Delete(n)
      PROVE  PayloadsAsSent'
  BY <1>4 DEF Delete
<1>5. CASE UNCHANGED vars
  BY <1>5 DEF vars
<1> QED
  BY <1>1, <1>2, <1>3, <1>4, <1>5 DEF Next

LEMMA StepLevelsAsSent ==
  ASSUME NamesApart, Enveloped \/ PayloadsApart, Shape, IInv, IInv', LevelsAsSent, [Next]_vars
  PROVE  LevelsAsSent'
<1> USE DEF LevelsAsSent
<1>1. ASSUME NEW mailId \in MailIds, NEW level \in Levels, NEW body \in AppBodies,
             Send(mailId, level, body)
      PROVE  LevelsAsSent'
  <2>1. \A i \in 1..Len(sent) : sent'[i] = sent[i]
    BY <1>1, SendKeepsSent DEF Shape
  <2> QED
    BY <1>1, <2>1 DEF Send, Shape
<1>2. ASSUME NEW n \in 1..Len(sent), Receive(n)
      PROVE  LevelsAsSent'
  <2>1. Subscribed /\ sub.mailId \in Seq(Word) /\ UNCHANGED <<sent, sub>>
    BY <1>2, MailIdWords DEF Receive, Shape, Subscribed, SubType
  <2>2. sent[n].level \in Levels
    <3>1. sent[n] \in [mailId : MailIds, level : Levels, body : AppBodies]
      BY ElementOfSeq DEF IInv, SentType
    <3> QED
      BY <3>1
  <2>3. n \in DOMAIN inbox' => LevelOfSubject(sub.mailId, SubjectOf(n)) = sent[n].level
    <3>1. n \in DOMAIN inbox' => sent[n].mailId = sub.mailId
      BY <2>1 DEF IInv, InboxOwn
    <3> QED
      BY <2>1, <2>2, <3>1, LevelRoundTrip DEF SubjectOf
  <2>4. CASE /\ Faithful(ParsedOf(n), sub.sdk, LevelOfSubject(sub.mailId, SubjectOf(n)),
                         sent[n].level, sent[n].body)
             /\ inbox' = [k \in DOMAIN inbox \cup {n} |-> IF k = n THEN ParsedOf(n) ELSE inbox[k]]
    BY <2>1, <2>2, <2>3, <2>4 DEF Faithful
  <2>5. CASE UNCHANGED inbox
    BY <2>1, <2>5
  <2> QED
    BY <1>2, <2>4, <2>5, ReceiveParses
<1>3. CASE \/ \E sdk \in Receivers, mailId \in MailIds, filter \in Filters :
                 Subscribe(sdk, mailId, filter)
           \/ \E n \in 1..Len(sent) : Delete(n)
           \/ UNCHANGED vars
  BY <1>3 DEF Subscribe, Delete, vars
<1> QED
  BY <1>1, <1>2, <1>3 DEF Next

LEMMA PayloadInvariance ==
  ASSUME Enveloped \/ PayloadsApart
  PROVE  Spec => [](Shape /\ PayloadsAsSent)
<1>1. Init => Shape /\ PayloadsAsSent
  <2>1. <<>> \in Seq([mailId : MailIds, level : Levels, body : AppBodies])
    OBVIOUS
  <2> QED
    BY <2>1 DEF Init, Shape, SentType, PayloadsAsSent
<1>2. (Shape /\ PayloadsAsSent) /\ [Next]_vars => (Shape /\ PayloadsAsSent)'
  BY StepShape, StepPayloadsAsSent
<1> QED
  BY <1>1, <1>2, PTL DEF Spec

LEMMA LevelInvariance ==
  ASSUME NamesApart, Enveloped \/ PayloadsApart
  PROVE  Spec => []LevelsAsSent
<1>1. Init => LevelsAsSent
  BY DEF Init, LevelsAsSent
<1>2. IInv /\ IInv' /\ Shape /\ LevelsAsSent /\ [Next]_vars => LevelsAsSent'
  BY StepLevelsAsSent
<1> QED
  BY <1>1, <1>2, Invariance, PayloadInvariance, PTL DEF Spec

(***************************************************************************)
(* The theorems.                                                           *)
(***************************************************************************)

\* With a broker that sends envelopes, or with payloads no parser takes for one,
\* a callback of any SDK sees the level the sender chose, and only levels its
\* filter admits, provided that mailboxes are named apart.
THEOREM LevelsKept ==
  ASSUME NamesApart, Enveloped \/ PayloadsApart
  PROVE  Spec => []LevelKept
<1>1. IInv /\ LevelsAsSent => LevelKept
  BY DEF IInv, InboxOwn, LevelsAsSent, LevelKept
<1> QED
  BY <1>1, Invariance, LevelInvariance, PTL

\* However mailboxes are named, a callback sees an id exactly if the broker sends
\* envelopes: it is the broker's, not one found in a payload.
THEOREM IdsAreServers ==
  ASSUME Enveloped \/ PayloadsApart
  PROVE  Spec => []IdIsServers
<1>1. PayloadsAsSent => IdIsServers
  BY WireAssumption DEF PayloadsAsSent, AsSent, IdIsServers
<1> QED
  BY <1>1, PayloadInvariance, PTL

\* With envelopes no message makes a parser raise ...
THEOREM NothingIsDropped == ASSUME Enveloped PROVE Spec => []NothingDropped
<1>1. PayloadsAsSent => NothingDropped
  BY DEF PayloadsAsSent, NothingDropped
<1>2. Spec => [](Shape /\ PayloadsAsSent)
  BY PayloadInvariance
<1> QED
  BY <1>1, <1>2, PTL

\* ... and a callback sees the bytes the sender passed to send(), those that look
\* like an envelope themselves included, but for Python's of an empty payload.
THEOREM EnvelopesKeepPayloads == ASSUME Enveloped PROVE Spec => []PayloadKeptButEmpty
<1>1. PayloadsAsSent => PayloadKeptButEmpty
  BY DEF PayloadsAsSent, AsSent, PayloadKeptButEmpty
<1>2. Spec => [](Shape /\ PayloadsAsSent)
  BY PayloadInvariance
<1> QED
  BY <1>1, <1>2, PTL

\* Without envelopes, and with payloads no parser takes for one, a callback sees
\* the bytes the sender passed to send() ...
THEOREM PlainPayloadsKept ==
  ASSUME ~Enveloped, PayloadsApart
  PROVE  Spec => []PayloadKept
<1>1. PayloadsAsSent => PayloadKept
  BY DEF PayloadsAsSent, AsSent, PayloadKept
<1>2. Spec => [](Shape /\ PayloadsAsSent)
  BY PayloadInvariance
<1> QED
  BY <1>1, <1>2, PTL

\* ... and of such payloads the only ones a parser raises on are those Python
\* cannot decode.
THEOREM OnlyPythonDrops ==
  ASSUME Enveloped \/ PayloadsApart
  PROVE  Spec => []OnlyBinaryDropped
<1>1. PayloadsAsSent => OnlyBinaryDropped
  BY DEF PayloadsAsSent, OnlyBinaryDropped
<1>2. Spec => [](Shape /\ PayloadsAsSent)
  BY PayloadInvariance
<1> QED
  BY <1>1, <1>2, PTL
=============================================================================
