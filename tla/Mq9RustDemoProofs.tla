-------------------------- MODULE Mq9RustDemoProofs --------------------------
(***************************************************************************)
(* Proofs about Mq9RustDemo: what list() returns, when a request is        *)
(* refused and in which order the callback is given its messages, whatever *)
(* the channel and the buffer hold and however often the connection is     *)
(* lost.                                                                   *)
(***************************************************************************)
EXTENDS Mq9RustDemo, FiniteSetTheorems, SequenceTheorems, TLAPS

IsRequest(cmd) == cmd.op \notin Unawaited

HasRequest(cmds) == \E i \in DOMAIN cmds : IsRequest(cmds[i])

\* Only the last command may be a request.
RequestLast(cmds) == \A i \in DOMAIN cmds : IsRequest(cmds[i]) => i = Len(cmds)

\* No message is published twice.
Distinct(cmds) ==
  \A i, j \in DOMAIN cmds :
    cmds[i].op = "publish" /\ cmds[j].op = "publish" /\ cmds[i].msg = cmds[j].msg => i = j

\* A flush is over when it is taken out of the channel.
NoFlush(cmds) == \A i \in DOMAIN cmds : cmds[i].op # "flush"

\* A request is that of the given step; what it deletes was listed.
Fits(cmd, step, msgs) ==
  IsRequest(cmd) =>
    /\ step \in DOMAIN Script /\ cmd.op = Script[step].op
    /\ cmd.op = "delete" => cmd.msg \in msgs

AllFit(cmds, step, msgs) == \A i \in DOMAIN cmds : Fits(cmds[i], step, msgs)

HasReply(packets) == \E k \in DOMAIN packets : packets[k].kind # "message"

OneReply(packets) ==
  \A k, l \in DOMAIN packets : packets[k].kind # "message" /\ packets[l].kind # "message" => k = l

\* The messages whose send() has returned: message m is sent in step m + 1.
Accepted(step) == {m \in Sent : m + 1 < step}

Queued == Published(written) \cup Published(channel)

\* What list() should return when gone are lost and queued still on their way.
TrueList(msgs, gone, queued) == msgs = Sent \ gone /\ queued = {}

\* The reply fits the step main() waits in and the state of the mailbox.
TrueReply(r, step, box, content, gone, queued) ==
  /\ r = Refusal => box = "expired"
  /\ step = 1 => box # "absent"
  /\ step = 6 /\ r # Refusal =>
       /\ r.kind = "listed" /\ TrueList(r.msgs, gone, queued)
       /\ box = "there" => r.msgs \subseteq content
  /\ step # 6 => r.kind # "listed"

AllTrue(packets, step, box, content, gone, queued) ==
  \A k \in DOMAIN packets :
    packets[k].kind # "message" => TrueReply(packets[k], step, box, content, gone, queued)

-----------------------------------------------------------------------------
(***************************************************************************)
(* The inductive invariant.                                                *)
(***************************************************************************)

\* The requests that are under way are the one main() waits for.
OneRequest ==
  /\ RequestLast(written) /\ RequestLast(channel)
  /\ HasRequest(written) => channel = <<>>
  /\ HasRequest(written) \/ HasRequest(channel) =>
       main \notin {"starting", "ready"} /\ answer = NoAnswer /\ ~HasReply(incoming)
  /\ AllFit(written, pc, listed) /\ AllFit(channel, pc, listed)
  /\ NoFlush(written)

\* Every message that was sent is on its way, stored, or lost.
SendsKept ==
  /\ Distinct(written) /\ Distinct(channel)
  /\ Published(written) \cap Published(channel) = {}
  /\ Queued \cup stored \cup lost \subseteq Accepted(pc)
  /\ Queued \cap (stored \cup lost) = {}
  /\ stored \cap lost = {}
  /\ pc <= 6 /\ mailbox = "there" => Accepted(pc) \subseteq Queued \cup stored \cup lost

RepliesTrue ==
  /\ OneReply(incoming)
  /\ HasReply(incoming) => main \notin {"starting", "ready"} /\ answer = NoAnswer
  /\ AllTrue(incoming, pc, mailbox, stored, lost, Queued)
  /\ main = "waiting" /\ answer # NoAnswer =>
       TrueReply(answer, pc, mailbox, stored, lost, Queued)

\* While the mailbox is there, what is about to be deleted is in it.
ListedTrue ==
  /\ pc > 6 => TrueList(listed, lost, Queued)
  /\ pc = 7 /\ mailbox = "there" /\ (main = "ready" \/ HasRequest(written) \/ HasRequest(channel)) =>
       listed \subseteq stored

MailboxMade ==
  /\ pc > 1 => mailbox # "absent"
  /\ mailbox # "there" => stored = {}
  /\ main = "refused" => mailbox = "expired"
  /\ main = "starting" => pc = 1
  /\ main \in {"ready", "waiting"} => pc \in DOMAIN Script
  /\ main = "waiting" => IsRequest(Script[pc])
  /\ ~up => written = <<>>

IInv ==
  /\ TypeOK
  /\ OneRequest
  /\ SendsKept
  /\ RepliesTrue
  /\ ListedTrue
  /\ MailboxMade

-----------------------------------------------------------------------------
(***************************************************************************)
(* The script, and queues of commands and of packets.                      *)
(***************************************************************************)

LEMMA ScriptSteps ==
  /\ Len(Script) = 9 /\ DOMAIN Script = 1..9
  /\ Script[1] = [op |-> "create"]
  /\ \A m \in 1..3 : Script[m + 1] = [op |-> "publish", msg |-> m]
  /\ Script[5] = [op |-> "subscribe"] /\ Script[6] = [op |-> "list"]
  /\ Script[7] = [op |-> "delete"] /\ Script[8] = [op |-> "createPublic"]
  /\ Script[9] = [op |-> "flush"]
<1>1. Script[2] = [op |-> "publish", msg |-> 1] /\ Script[3] = [op |-> "publish", msg |-> 2]
      /\ Script[4] = [op |-> "publish", msg |-> 3]
  BY DEF Script, Flush
<1>2. \A m \in 1..3 : Script[m + 1] = [op |-> "publish", msg |-> m]
  <2> SUFFICES ASSUME NEW m \in 1..3 PROVE Script[m + 1] = [op |-> "publish", msg |-> m]
    OBVIOUS
  <2>1. CASE m = 1
    BY <1>1, <2>1
  <2>2. CASE m = 2
    BY <1>1, <2>2
  <2>3. CASE m = 3
    BY <1>1, <2>3
  <2> QED
    BY <2>1, <2>2, <2>3
<1> QED
  BY <1>2 DEF Script, Flush

\* The operations, step by step.
LEMMA ScriptOps ==
  /\ Script[1].op = "create" /\ Script[5].op = "subscribe" /\ Script[6].op = "list"
  /\ Script[7].op = "delete" /\ Script[8].op = "createPublic" /\ Script[9].op = "flush"
  /\ Script[2].op = "publish" /\ Script[3].op = "publish" /\ Script[4].op = "publish"
  /\ Script[2].msg = 1 /\ Script[3].msg = 2 /\ Script[4].msg = 3
  BY DEF Script, Flush

LEMMA SentMessages == Sent = 1..3
<1>1. \A m : m \in Sent <=> \E i \in 1..9 : Script[i].op = "publish" /\ m = Script[i].msg
  BY ScriptSteps DEF Sent, Published, Range
<1>2. \A i \in 1..9 : Script[i].op = "publish" <=> i \in 2..4
  BY ScriptOps
<1>3. \A i \in 2..4 : Script[i].msg = i - 1
  BY ScriptOps
<1>4. \A m : m \in Sent <=> \E i \in 2..4 : m = i - 1
  BY <1>1, <1>2, <1>3
<1>5. \A m : (\E i \in 2..4 : m = i - 1) <=> m \in 1..3
  <2>1. ASSUME NEW m \in 1..3 PROVE m + 1 \in 2..4 /\ m = (m + 1) - 1
    OBVIOUS
  <2> QED
    BY <2>1
<1> QED
  BY <1>4, <1>5

LEMMA Steps == StepOf("list") = 6 /\ StepOf("delete") = 7
<1>1. \A i \in 1..9 : (Script[i].op = "list" => i = 6) /\ (Script[i].op = "delete" => i = 7)
  BY ScriptOps
<1> QED
  BY <1>1, ScriptOps, ScriptSteps DEF StepOf

\* Which step is which.
LEMMA StepOps ==
  ASSUME NEW i \in DOMAIN Script
  PROVE  /\ i \in 1..9
         /\ Script[i].op = "create" <=> i = 1
         /\ Script[i].op = "publish" <=> i \in 2..4
         /\ i \in 2..4 => Script[i].msg = i - 1
         /\ Script[i].op = "subscribe" <=> i = 5
         /\ Script[i].op = "list" <=> i = 6
         /\ Script[i].op = "delete" <=> i = 7
         /\ Script[i].op = "createPublic" <=> i = 8
         /\ Script[i].op = "flush" <=> i = 9
         /\ IsRequest(Script[i]) <=> i \notin 2..5
<1>1. i \in 1..9
  BY ScriptSteps
<1>2. /\ Script[i].op = "create" <=> i = 1
      /\ Script[i].op = "publish" <=> i \in 2..4
      /\ Script[i].op = "subscribe" <=> i = 5
      /\ Script[i].op = "list" <=> i = 6
      /\ Script[i].op = "delete" <=> i = 7
      /\ Script[i].op = "createPublic" <=> i = 8
      /\ Script[i].op = "flush" <=> i = 9
  BY <1>1, ScriptOps
<1>3. i \in 2..4 => Script[i].msg = i - 1
  BY ScriptOps
<1> QED
  BY <1>1, <1>2, <1>3 DEF IsRequest, Unawaited

LEMMA ScriptCommands == \A i \in 1..9 : Script[i] \in Commands
  BY ScriptSteps DEF Commands

\* A message is among the published if some command publishes it.
LEMMA PublishedBy ==
  \A s, m : m \in Published(s) <=> \E i \in DOMAIN s : s[i].op = "publish" /\ s[i].msg = m
  BY DEF Published, Range

LEMMA EmptyQueue ==
  /\ Published(<<>>) = {} /\ ~HasRequest(<<>>) /\ RequestLast(<<>>) /\ Distinct(<<>>)
  /\ NoFlush(<<>>)
  /\ \A step, msgs : AllFit(<<>>, step, msgs)
<1>1. DOMAIN <<>> = {}
  OBVIOUS
<1> QED
  BY <1>1, PublishedBy DEF HasRequest, RequestLast, Distinct, AllFit, NoFlush

LEMMA QueueAppend ==
  ASSUME NEW s \in Seq(Commands), NEW c \in Commands
  PROVE  /\ Append(s, c) \in Seq(Commands)
         /\ Published(Append(s, c)) =
              Published(s) \cup (IF c.op = "publish" THEN {c.msg} ELSE {})
         /\ HasRequest(Append(s, c)) <=> HasRequest(s) \/ IsRequest(c)
         /\ ~HasRequest(s) => RequestLast(Append(s, c))
         /\ Distinct(s) /\ (c.op = "publish" => c.msg \notin Published(s)) => Distinct(Append(s, c))
         /\ NoFlush(s) /\ c.op # "flush" => NoFlush(Append(s, c))
         /\ \A step, msgs :
              AllFit(s, step, msgs) /\ Fits(c, step, msgs) => AllFit(Append(s, c), step, msgs)
<1> DEFINE t == Append(s, c)
<1>1. /\ t \in Seq(Commands) /\ Len(t) = Len(s) + 1
      /\ DOMAIN t = 1..(Len(s) + 1) /\ DOMAIN s = 1..Len(s) /\ Len(s) \in Nat
      /\ \A i \in 1..Len(s) : t[i] = s[i]
      /\ t[Len(s) + 1] = c
  OBVIOUS
<1> HIDE DEF t
<1>2. Published(t) = Published(s) \cup (IF c.op = "publish" THEN {c.msg} ELSE {})
  <2>1. \A m : m \in Published(t) <=> m \in Published(s) \/ (c.op = "publish" /\ c.msg = m)
    BY <1>1, PublishedBy
  <2> QED
    BY <2>1
<1>3. HasRequest(t) <=> HasRequest(s) \/ IsRequest(c)
  BY <1>1 DEF HasRequest, IsRequest
<1>4. ~HasRequest(s) => RequestLast(t)
  BY <1>1 DEF HasRequest, RequestLast, IsRequest
<1>5. Distinct(s) /\ (c.op = "publish" => c.msg \notin Published(s)) => Distinct(t)
  BY <1>1, PublishedBy DEF Distinct
<1>6. \A step, msgs : AllFit(s, step, msgs) /\ Fits(c, step, msgs) => AllFit(t, step, msgs)
  BY <1>1 DEF AllFit
<1>7. NoFlush(s) /\ c.op # "flush" => NoFlush(t)
  BY <1>1 DEF NoFlush
<1> QED
  BY <1>1, <1>2, <1>3, <1>4, <1>5, <1>6, <1>7 DEF t

\* A queue without requests fits whatever main() waits for.
LEMMA NoRequestFits ==
  ASSUME NEW s, ~HasRequest(s)
  PROVE  \A step, msgs : AllFit(s, step, msgs)
  BY DEF HasRequest, AllFit, Fits

LEMMA QueueTail ==
  ASSUME NEW s \in Seq(Commands), s # <<>>
  PROVE  /\ Head(s) \in Commands /\ Tail(s) \in Seq(Commands)
         /\ Head(s) = s[1] /\ 1 \in DOMAIN s
         /\ Published(s) =
              Published(Tail(s)) \cup (IF Head(s).op = "publish" THEN {Head(s).msg} ELSE {})
         /\ HasRequest(s) <=> HasRequest(Tail(s)) \/ IsRequest(Head(s))
         /\ RequestLast(s) => RequestLast(Tail(s)) /\ (IsRequest(Head(s)) => Tail(s) = <<>>)
         /\ Distinct(s) =>
              Distinct(Tail(s)) /\ (Head(s).op = "publish" => Head(s).msg \notin Published(Tail(s)))
         /\ NoFlush(s) => NoFlush(Tail(s)) /\ Head(s).op # "flush"
         /\ \A step, msgs :
              AllFit(s, step, msgs) => AllFit(Tail(s), step, msgs) /\ Fits(Head(s), step, msgs)
<1> DEFINE t == Tail(s)
<1>1. /\ t \in Seq(Commands) /\ Len(s) = Len(t) + 1 /\ Len(t) \in Nat
      /\ DOMAIN t = 1..Len(t) /\ DOMAIN s = 1..(Len(t) + 1)
      /\ \A i \in 1..Len(t) : t[i] = s[i + 1]
      /\ Head(s) = s[1] /\ s[1] \in Commands
  <2>1. t \in Seq(Commands) /\ Len(t) = Len(s) - 1 /\ \A i \in 1..Len(t) : t[i] = s[i + 1]
    BY HeadTailProperties
  <2>2. Len(t) \in Nat /\ DOMAIN t = 1..Len(t) /\ Len(s) \in Nat /\ DOMAIN s = 1..Len(s)
    BY <2>1, LenProperties
  <2>3. Head(s) = s[1] /\ s[1] \in Commands
    BY <2>1, <2>2, HeadTailProperties
  <2> QED
    BY <2>1, <2>2, <2>3
<1>0. Len(t) = 0 => t = <<>>
  BY <1>1, EmptySeq
<1> HIDE DEF t
<1>2. \A j \in DOMAIN s : j = 1 \/ (j - 1 \in DOMAIN t /\ t[j - 1] = s[j])
  BY <1>1
<1>3. \A i \in DOMAIN t : i + 1 \in DOMAIN s /\ t[i] = s[i + 1] /\ i + 1 # 1
  BY <1>1
<1>8. 1 \in DOMAIN s
  BY <1>1
<1>4. Published(s) = Published(t) \cup (IF Head(s).op = "publish" THEN {Head(s).msg} ELSE {})
  <2>1. ASSUME NEW m, m \in Published(s)
        PROVE  m \in Published(t) \/ (s[1].op = "publish" /\ s[1].msg = m)
    BY <1>2, <2>1, PublishedBy
  <2>2. ASSUME NEW m, m \in Published(t)
        PROVE  m \in Published(s)
    <3>1. PICK i \in DOMAIN t : t[i].op = "publish" /\ t[i].msg = m
      BY <2>2, PublishedBy
    <3>2. i + 1 \in DOMAIN s /\ s[i + 1] = t[i]
      BY <1>3
    <3> QED
      BY <3>1, <3>2, PublishedBy
  <2>3. s[1].op = "publish" => s[1].msg \in Published(s)
    BY <1>8, PublishedBy
  <2> QED
    BY <1>1, <2>1, <2>2, <2>3
<1>5. HasRequest(s) <=> HasRequest(t) \/ IsRequest(Head(s))
  <2>1. HasRequest(s) => HasRequest(t) \/ IsRequest(s[1])
    BY <1>2 DEF HasRequest
  <2>2. ASSUME HasRequest(t) PROVE HasRequest(s)
    <3>1. PICK i \in DOMAIN t : IsRequest(t[i])
      BY <2>2 DEF HasRequest
    <3>2. i + 1 \in DOMAIN s /\ s[i + 1] = t[i]
      BY <1>3
    <3> QED
      BY <3>1, <3>2 DEF HasRequest
  <2>3. IsRequest(s[1]) => HasRequest(s)
    BY <1>8 DEF HasRequest
  <2> QED
    BY <1>1, <2>1, <2>2, <2>3
<1>6. RequestLast(s) => RequestLast(t) /\ (IsRequest(Head(s)) => t = <<>>)
  BY <1>0, <1>1 DEF RequestLast, IsRequest
<1>7. Distinct(s) => Distinct(t) /\ (Head(s).op = "publish" => Head(s).msg \notin Published(t))
  <2> SUFFICES ASSUME Distinct(s)
               PROVE  Distinct(t) /\ (s[1].op = "publish" => s[1].msg \notin Published(t))
    BY <1>1
  <2>1. ASSUME NEW i \in DOMAIN t, NEW j \in DOMAIN t,
               t[i].op = "publish", t[j].op = "publish", t[i].msg = t[j].msg
        PROVE  i = j
    <3>1. i + 1 \in DOMAIN s /\ s[i + 1] = t[i] /\ j + 1 \in DOMAIN s /\ s[j + 1] = t[j]
      BY <1>3
    <3>2. i + 1 = j + 1
      BY <2>1, <3>1 DEF Distinct
    <3> QED
      BY <1>1, <3>2
  <2>2. ASSUME s[1].op = "publish", s[1].msg \in Published(t) PROVE FALSE
    <3>1. PICK i \in DOMAIN t : t[i].op = "publish" /\ t[i].msg = s[1].msg
      BY <2>2, PublishedBy
    <3>2. i + 1 \in DOMAIN s /\ s[i + 1] = t[i] /\ i + 1 # 1
      BY <1>3
    <3> QED
      BY <1>8, <2>2, <3>1, <3>2 DEF Distinct
  <2> QED
    BY <2>1, <2>2 DEF Distinct
<1>9. \A step, msgs :
        AllFit(s, step, msgs) => AllFit(t, step, msgs) /\ Fits(Head(s), step, msgs)
  BY <1>1, <1>3, <1>8 DEF AllFit
<1>10. NoFlush(s) => NoFlush(t) /\ Head(s).op # "flush"
  BY <1>1, <1>3, <1>8 DEF NoFlush
<1> QED
  BY <1>1, <1>8, <1>9, <1>10, <1>4, <1>5, <1>6, <1>7 DEF t

-----------------------------------------------------------------------------
(***************************************************************************)
(* Packets.                                                                *)
(***************************************************************************)

Packets == Replies \cup [kind : {"message"}, msg : Sent]

LEMMA NoPackets ==
  /\ ~HasReply(<<>>) /\ OneReply(<<>>)
  /\ \A step, box, content, gone, queued : AllTrue(<<>>, step, box, content, gone, queued)
<1>1. DOMAIN <<>> = {}
  OBVIOUS
<1> QED
  BY <1>1 DEF HasReply, OneReply, AllTrue

LEMMA NoReplyIsTrue ==
  ASSUME NEW s, ~HasReply(s)
  PROVE  \A step, box, content, gone, queued : AllTrue(s, step, box, content, gone, queued)
  BY DEF HasReply, AllTrue

LEMMA PacketAppend ==
  ASSUME NEW s \in Seq(Packets), NEW p \in Packets
  PROVE  /\ Append(s, p) \in Seq(Packets)
         /\ HasReply(Append(s, p)) <=> HasReply(s) \/ p.kind # "message"
         /\ OneReply(s) /\ (p.kind = "message" \/ ~HasReply(s)) => OneReply(Append(s, p))
         /\ \A step, box, content, gone, queued :
              /\ AllTrue(s, step, box, content, gone, queued)
              /\ p.kind = "message" \/ TrueReply(p, step, box, content, gone, queued)
              => AllTrue(Append(s, p), step, box, content, gone, queued)
<1> DEFINE t == Append(s, p)
<1>1. /\ t \in Seq(Packets) /\ Len(s) \in Nat
      /\ DOMAIN t = 1..(Len(s) + 1) /\ DOMAIN s = 1..Len(s)
      /\ \A i \in 1..Len(s) : t[i] = s[i]
      /\ t[Len(s) + 1] = p
  OBVIOUS
<1> HIDE DEF t
<1>2. HasReply(t) <=> HasReply(s) \/ p.kind # "message"
  BY <1>1 DEF HasReply
<1>3. OneReply(s) /\ (p.kind = "message" \/ ~HasReply(s)) => OneReply(t)
  BY <1>1 DEF OneReply, HasReply
<1>4. \A step, box, content, gone, queued :
        /\ AllTrue(s, step, box, content, gone, queued)
        /\ p.kind = "message" \/ TrueReply(p, step, box, content, gone, queued)
        => AllTrue(t, step, box, content, gone, queued)
  BY <1>1 DEF AllTrue
<1> QED
  BY <1>1, <1>2, <1>3, <1>4 DEF t

LEMMA PacketTail ==
  ASSUME NEW s \in Seq(Packets), s # <<>>
  PROVE  /\ Head(s) \in Packets /\ Tail(s) \in Seq(Packets)
         /\ HasReply(s) <=> HasReply(Tail(s)) \/ Head(s).kind # "message"
         /\ OneReply(s) => OneReply(Tail(s)) /\ (Head(s).kind # "message" => ~HasReply(Tail(s)))
         /\ \A step, box, content, gone, queued :
              AllTrue(s, step, box, content, gone, queued) =>
                /\ AllTrue(Tail(s), step, box, content, gone, queued)
                /\ Head(s).kind # "message" =>
                     TrueReply(Head(s), step, box, content, gone, queued)
<1> DEFINE t == Tail(s)
<1>1. /\ t \in Seq(Packets) /\ Len(s) = Len(t) + 1 /\ Len(t) \in Nat
      /\ DOMAIN t = 1..Len(t) /\ DOMAIN s = 1..(Len(t) + 1)
      /\ \A i \in 1..Len(t) : t[i] = s[i + 1]
      /\ Head(s) = s[1] /\ s[1] \in Packets
  <2>1. t \in Seq(Packets) /\ Len(t) = Len(s) - 1 /\ \A i \in 1..Len(t) : t[i] = s[i + 1]
    BY HeadTailProperties
  <2>2. Len(t) \in Nat /\ DOMAIN t = 1..Len(t) /\ Len(s) \in Nat /\ DOMAIN s = 1..Len(s)
    BY <2>1, LenProperties
  <2>3. Head(s) = s[1] /\ s[1] \in Packets
    BY <2>1, <2>2, HeadTailProperties
  <2> QED
    BY <2>1, <2>2, <2>3
<1> HIDE DEF t
<1>2. \A j \in DOMAIN s : j = 1 \/ (j - 1 \in DOMAIN t /\ t[j - 1] = s[j])
  BY <1>1
<1>3. \A i \in DOMAIN t : i + 1 \in DOMAIN s /\ t[i] = s[i + 1] /\ i + 1 # 1
  BY <1>1
<1>4. 1 \in DOMAIN s
  BY <1>1
<1>5. HasReply(s) <=> HasReply(t) \/ Head(s).kind # "message"
  <2>1. HasReply(s) => HasReply(t) \/ s[1].kind # "message"
    BY <1>2 DEF HasReply
  <2>2. ASSUME HasReply(t) PROVE HasReply(s)
    <3>1. PICK i \in DOMAIN t : t[i].kind # "message"
      BY <2>2 DEF HasReply
    <3>2. i + 1 \in DOMAIN s /\ s[i + 1] = t[i]
      BY <1>3
    <3> QED
      BY <3>1, <3>2 DEF HasReply
  <2>3. s[1].kind # "message" => HasReply(s)
    BY <1>4 DEF HasReply
  <2> QED
    BY <1>1, <2>1, <2>2, <2>3
<1>6. OneReply(s) => OneReply(t) /\ (Head(s).kind # "message" => ~HasReply(t))
  <2> SUFFICES ASSUME OneReply(s)
               PROVE  OneReply(t) /\ (s[1].kind # "message" => ~HasReply(t))
    BY <1>1
  <2>1. ASSUME NEW i \in DOMAIN t, NEW j \in DOMAIN t,
               t[i].kind # "message", t[j].kind # "message"
        PROVE  i = j
    <3>1. i + 1 \in DOMAIN s /\ s[i + 1] = t[i] /\ j + 1 \in DOMAIN s /\ s[j + 1] = t[j]
      BY <1>3
    <3>2. i + 1 = j + 1
      BY <2>1, <3>1 DEF OneReply
    <3> QED
      BY <1>1, <3>2
  <2>2. ASSUME s[1].kind # "message", HasReply(t) PROVE FALSE
    <3>1. PICK i \in DOMAIN t : t[i].kind # "message"
      BY <2>2 DEF HasReply
    <3>2. i + 1 \in DOMAIN s /\ s[i + 1] = t[i] /\ i + 1 # 1
      BY <1>3
    <3> QED
      BY <1>4, <2>2, <3>1, <3>2 DEF OneReply
  <2> QED
    BY <2>1, <2>2 DEF OneReply
<1>7. \A step, box, content, gone, queued :
        AllTrue(s, step, box, content, gone, queued) =>
          /\ AllTrue(t, step, box, content, gone, queued)
          /\ Head(s).kind # "message" => TrueReply(Head(s), step, box, content, gone, queued)
  BY <1>1, <1>3, <1>4 DEF AllTrue
<1> QED
  BY <1>1, <1>5, <1>6, <1>7 DEF t

LEMMA ReplyKinds ==
  /\ Ok.kind = "ok" /\ Refusal.kind = "refused" /\ NoAnswer.kind = "none"
  /\ \A S : Listed(S).kind = "listed" /\ Listed(S).msgs = S
  /\ Ok # NoAnswer /\ Refusal # NoAnswer /\ Ok # Refusal
  /\ \A S : Listed(S) # NoAnswer /\ Listed(S) # Refusal
  /\ \A r \in Replies : r.kind # "message" /\ r # NoAnswer
  /\ Ok \in Replies /\ Refusal \in Replies
  /\ \A S : S \subseteq Sent => Listed(S) \in Replies
<1>1. Ok.kind = "ok" /\ Refusal.kind = "refused" /\ NoAnswer.kind = "none"
  BY DEF Ok, Refusal, NoAnswer
<1>2. \A S : Listed(S).kind = "listed" /\ Listed(S).msgs = S
  BY DEF Listed
<1>3. Ok \in Replies /\ Refusal \in Replies /\ \A S : S \subseteq Sent => Listed(S) \in Replies
  BY DEF Replies
<1>4. \A r \in Replies : r.kind # "message" /\ r # NoAnswer
  <2> SUFFICES ASSUME NEW r \in Replies PROVE r.kind # "message" /\ r.kind # "none"
    BY <1>1
  <2>1. r = Ok \/ r = Refusal \/ \E S \in SUBSET Sent : r = Listed(S)
    BY DEF Replies
  <2> QED
    BY <1>1, <1>2, <2>1
<1> QED
  BY <1>1, <1>2, <1>3, <1>4

-----------------------------------------------------------------------------
(***************************************************************************)
(* The steps of main().                                                    *)
(***************************************************************************)

LEMMA InitHolds ==
  ASSUME TransportAssumption, Init
  PROVE  IInv
<1> USE DEF Init, TransportInit
<1>1. TypeOK
  <2>1. 1 \in 1..(Len(Script) + 1)
    BY ScriptSteps
  <2>2. Len(<<>>) = 0 /\ 0 <= ChannelCap /\ 0 <= BufferCap /\ 0 \in 0..MaxDisconnects
    BY DEF TransportAssumption
  <2>3. \A S : <<>> \in Seq(S)
    OBVIOUS
  <2> QED
    BY <2>1, <2>2, <2>3 DEF TypeOK
<1>2. OneRequest
  BY EmptyQueue DEF OneRequest
<1>3. SendsKept
  BY EmptyQueue DEF SendsKept, Queued, Accepted
<1>4. RepliesTrue
  BY NoPackets DEF RepliesTrue
<1>5. ListedTrue
  BY DEF ListedTrue
<1>6. MailboxMade
  BY DEF MailboxMade
<1> QED
  BY <1>1, <1>2, <1>3, <1>4, <1>5, <1>6 DEF IInv

LEMMA ConnectKeeps ==
  ASSUME IInv, Connect
  PROVE  IInv'
<1> USE DEF Connect, Connected, serverVars, clientVars, linkVars, transportVars
<1>1. TypeOK'
  BY DEF IInv, TypeOK, Ends
<1>2. OneRequest'
  BY DEF IInv, OneRequest
<1>3. SendsKept'
  BY DEF IInv, SendsKept, Queued
<1>4. RepliesTrue'
  BY DEF IInv, RepliesTrue, Queued
<1>5. ListedTrue'
  BY DEF IInv, ListedTrue, Queued, MailboxMade
<1>6. MailboxMade'
  BY ScriptSteps DEF IInv, MailboxMade
<1> QED
  BY <1>1, <1>2, <1>3, <1>4, <1>5, <1>6 DEF IInv

\* send() or subscribe().
LEMMA IssueKeeps ==
  ASSUME TransportAssumption, IInv, Issue
  PROVE  IInv'
<1> DEFINE cmd == Script[pc]
<1>1. /\ pc \in 2..5 /\ pc \in DOMAIN Script /\ cmd \in Commands /\ ~IsRequest(cmd)
      /\ cmd.op = "publish" <=> pc # 5
      /\ pc # 5 => cmd.msg = pc - 1
  BY StepOps, ScriptSteps, ScriptCommands DEF IInv, MailboxMade, Issue, IsRequest
<1>2. /\ channel \in Seq(Commands) /\ channel' = Append(channel, cmd)
      /\ pc' = pc + 1 /\ main = "ready" /\ main' = "ready" /\ answer' = NoAnswer
      /\ Len(channel) < ChannelCap
      /\ UNCHANGED <<known, buffer, overrun, linkVars, serverVars, listed, handled>>
  BY DEF Issue, Accepts, IInv, TypeOK
<1> HIDE DEF cmd
<1> USE DEF linkVars, serverVars
<1>3. ~HasRequest(written) /\ ~HasRequest(channel) /\ ~HasReply(incoming)
  BY <1>2 DEF IInv, OneRequest, RepliesTrue
<1>4. /\ channel' \in Seq(Commands) /\ ~HasRequest(channel') /\ RequestLast(channel')
      /\ Published(channel') = Published(channel) \cup (IF pc # 5 THEN {pc - 1} ELSE {})
      /\ Distinct(channel) /\ (pc # 5 => pc - 1 \notin Published(channel)) => Distinct(channel')
  BY <1>1, <1>2, <1>3, QueueAppend
<1>5. Accepted(pc') = Accepted(pc) \cup (IF pc # 5 THEN {pc - 1} ELSE {})
      /\ (pc # 5 => pc - 1 \notin Accepted(pc))
  BY <1>1, <1>2, SentMessages DEF Accepted
<1>6. TypeOK'
  <2>1. Len(channel') <= ChannelCap
    BY <1>2 DEF TransportAssumption
  <2>2. pc' \in 1..(Len(Script) + 1)
    BY <1>1, <1>2, ScriptSteps
  <2> QED
    BY <1>2, <1>4, <2>1, <2>2 DEF IInv, TypeOK
<1>7. OneRequest'
  BY <1>2, <1>3, <1>4, NoRequestFits DEF IInv, OneRequest
<1>8. SendsKept'
  BY <1>1, <1>2, <1>4, <1>5 DEF IInv, SendsKept, Queued
<1>9. RepliesTrue'
  BY <1>2, <1>3, NoReplyIsTrue DEF IInv, RepliesTrue
<1>10. ListedTrue'
  BY <1>1, <1>2 DEF ListedTrue
<1>11. MailboxMade'
  BY <1>1, <1>2, ScriptSteps DEF IInv, MailboxMade
<1> QED
  BY <1>6, <1>7, <1>8, <1>9, <1>10, <1>11 DEF IInv

\* create(), list(), delete() or close().
LEMMA AskKeeps ==
  ASSUME TransportAssumption, IInv, Ask
  PROVE  IInv'
<1>1. PICK cmd \in Requests(Script[pc]) : Accepts(cmd)
  BY DEF Ask
<1>2. /\ pc \in DOMAIN Script /\ pc \in 1..9 \ 2..5
      /\ IsRequest(Script[pc])
  BY StepOps DEF IInv, MailboxMade, Ask, IsRequest
<1>3. /\ cmd \in Commands /\ cmd.op = Script[pc].op
      /\ cmd.op = "delete" => cmd.msg \in listed
  <2>1. CASE Script[pc].op = "delete"
    <3>1. PICK m \in listed : cmd = [op |-> "delete", msg |-> m]
      BY <1>1, <2>1 DEF Requests
    <3>2. m \in Sent
      BY DEF IInv, TypeOK
    <3> QED
      BY <2>1, <3>1, <3>2 DEF Commands
  <2>2. CASE Script[pc].op # "delete"
    BY <1>1, <1>2, <2>2, ScriptSteps, ScriptCommands DEF Requests
  <2> QED
    BY <2>1, <2>2
<1>4. /\ IsRequest(cmd) /\ Fits(cmd, pc, listed) /\ cmd.op # "publish"
  BY <1>2, <1>3 DEF IsRequest, Fits, Unawaited
<1>5. /\ channel \in Seq(Commands) /\ channel' = Append(channel, cmd)
      /\ main = "ready" /\ main' = "waiting" /\ answer' = NoAnswer
      /\ Len(channel) < ChannelCap
      /\ UNCHANGED <<pc, known, buffer, overrun, linkVars, serverVars, listed, handled>>
  BY <1>1 DEF Ask, Accepts, IInv, TypeOK
<1> USE DEF linkVars, serverVars
<1>6. ~HasRequest(written) /\ ~HasRequest(channel) /\ ~HasReply(incoming)
  BY <1>5 DEF IInv, OneRequest, RepliesTrue
<1>7. /\ channel' \in Seq(Commands) /\ RequestLast(channel')
      /\ Published(channel') = Published(channel)
      /\ Distinct(channel) => Distinct(channel')
      /\ AllFit(channel', pc, listed)
  BY <1>3, <1>4, <1>5, <1>6, QueueAppend, NoRequestFits
<1>8. TypeOK'
  <2>1. Len(channel') <= ChannelCap
    BY <1>5 DEF TransportAssumption
  <2> QED
    BY <1>5, <1>7, <2>1 DEF IInv, TypeOK
<1>9. OneRequest'
  BY <1>5, <1>6, <1>7, NoRequestFits DEF IInv, OneRequest
<1>10. SendsKept'
  BY <1>5, <1>7 DEF IInv, SendsKept, Queued
<1>11. RepliesTrue'
  BY <1>5, <1>6, NoReplyIsTrue DEF IInv, RepliesTrue
<1>12. ListedTrue'
  BY <1>5, <1>7 DEF IInv, ListedTrue, Queued
<1>13. MailboxMade'
  BY <1>2, <1>5 DEF IInv, MailboxMade
<1> QED
  BY <1>8, <1>9, <1>10, <1>11, <1>12, <1>13 DEF IInv

LEMMA NothingToDeleteKeeps ==
  ASSUME IInv, NothingToDelete
  PROVE  IInv'
<1>1. pc \in DOMAIN Script /\ pc = 7
  BY StepOps DEF IInv, MailboxMade, NothingToDelete
<1>2. /\ main = "ready" /\ pc' = 8
      /\ UNCHANGED <<main, listed, handled, linkVars, serverVars, clientVars>>
  BY <1>1 DEF NothingToDelete, transportVars
<1> USE DEF linkVars, serverVars, clientVars
<1>3. ~HasRequest(written) /\ ~HasRequest(channel) /\ ~HasReply(incoming)
  BY <1>2 DEF IInv, OneRequest, RepliesTrue
<1>4. Accepted(pc) \subseteq Accepted(pc')
  BY <1>1, <1>2, SentMessages DEF Accepted
<1>5. TypeOK'
  BY <1>2, ScriptSteps DEF IInv, TypeOK
<1>6. OneRequest'
  BY <1>2, <1>3, NoRequestFits DEF IInv, OneRequest
<1>7. SendsKept'
  BY <1>1, <1>2, <1>4 DEF IInv, SendsKept, Queued
<1>8. RepliesTrue'
  BY <1>2, <1>3, NoReplyIsTrue DEF IInv, RepliesTrue
<1>9. ListedTrue'
  BY <1>1, <1>2 DEF IInv, ListedTrue, Queued
<1>10. MailboxMade'
  BY <1>1, <1>2, ScriptSteps DEF IInv, MailboxMade
<1> QED
  BY <1>5, <1>6, <1>7, <1>8, <1>9, <1>10 DEF IInv

\* The answer is there.
LEMMA ReturnKeeps ==
  ASSUME IInv, Return
  PROVE  IInv'
<1>1. /\ pc \in DOMAIN Script /\ pc \in 1..9 \ 2..5
  BY StepOps DEF IInv, MailboxMade, Return
<1>2. /\ main = "waiting" /\ answer # NoAnswer /\ answer # Refusal
      /\ main' = IF pc = 9 THEN "done" ELSE "ready"
      /\ pc' = pc + 1
      /\ listed' = IF answer.kind = "listed" THEN answer.msgs ELSE listed
      /\ UNCHANGED <<handled, linkVars, serverVars, clientVars>>
  BY ScriptSteps DEF Return, transportVars, Answered
<1> USE DEF linkVars, serverVars, clientVars
<1>3. ~HasRequest(written) /\ ~HasRequest(channel) /\ ~HasReply(incoming)
  BY <1>2 DEF IInv, OneRequest, RepliesTrue
<1>4. Accepted(pc) \subseteq Accepted(pc') /\ (pc = 1 => Accepted(pc') = Accepted(pc))
  BY <1>1, <1>2, SentMessages DEF Accepted
<1>5. TrueReply(answer, pc, mailbox, stored, lost, Queued)
  BY <1>2 DEF IInv, RepliesTrue
<1>6. answer.kind = "listed" <=> pc = 6
  BY <1>2, <1>5 DEF TrueReply
<1>7. pc = 6 => /\ TrueList(answer.msgs, lost, Queued)
                /\ mailbox = "there" => answer.msgs \subseteq stored
  BY <1>2, <1>5 DEF TrueReply
<1>8. TypeOK'
  <2>1. listed' \subseteq Sent
    BY <1>2, <1>6, <1>7 DEF TrueList, IInv, TypeOK
  <2> QED
    BY <1>1, <1>2, <2>1, ScriptSteps DEF IInv, TypeOK, Ends
<1>9. OneRequest'
  BY <1>2, <1>3, NoRequestFits DEF IInv, OneRequest
<1>10. SendsKept'
  BY <1>1, <1>2, <1>4 DEF IInv, SendsKept, Queued
<1>11. RepliesTrue'
  BY <1>2, <1>3, NoReplyIsTrue DEF IInv, RepliesTrue
<1>12. ListedTrue'
  BY <1>1, <1>2, <1>3, <1>6, <1>7 DEF IInv, ListedTrue, Queued
<1>13. MailboxMade'
  BY <1>1, <1>2, <1>5, ScriptSteps DEF IInv, MailboxMade, TrueReply
<1> QED
  BY <1>8, <1>9, <1>10, <1>11, <1>12, <1>13 DEF IInv

\* The refusal is there, or the time is over.
LEMMA FailKeeps ==
  ASSUME IInv, Fail \/ TimeOut
  PROVE  IInv'
<1>1. /\ main = "waiting" /\ main' \in {"refused", "timed out"}
      /\ main' = "refused" => answer = Refusal
      /\ UNCHANGED <<pc, listed, handled, linkVars, serverVars, clientVars>>
  BY DEF Fail, TimeOut, transportVars
<1> USE DEF linkVars, serverVars, clientVars
<1>2. TypeOK'
  BY <1>1 DEF IInv, TypeOK, Ends
<1>3. OneRequest'
  BY <1>1 DEF IInv, OneRequest
<1>4. SendsKept'
  BY <1>1 DEF IInv, SendsKept, Queued
<1>5. RepliesTrue'
  BY <1>1 DEF IInv, RepliesTrue, Queued
<1>6. ListedTrue'
  BY <1>1 DEF IInv, ListedTrue, Queued
<1>7. main' = "refused" => mailbox = "expired"
  BY <1>1, ReplyKinds DEF IInv, RepliesTrue, TrueReply
<1>8. MailboxMade'
  BY <1>1, <1>7 DEF IInv, MailboxMade
<1> QED
  BY <1>2, <1>3, <1>4, <1>5, <1>6, <1>8 DEF IInv

LEMMA CallbackKeeps ==
  ASSUME TransportAssumption, IInv, Callback
  PROVE  IInv'
<1>1. /\ buffer # <<>> /\ buffer' = Tail(buffer) /\ handled' = Append(handled, Head(buffer))
      /\ UNCHANGED <<channel, known, answer, overrun, linkVars, serverVars, main, pc, listed>>
  BY DEF Callback, StreamNext
<1> USE DEF linkVars, serverVars
<1>2. TypeOK'
  <2>1. buffer \in Seq(Sent) /\ Len(buffer) \in Nat /\ Len(buffer) <= BufferCap /\ handled \in Seq(Sent)
    BY DEF IInv, TypeOK
  <2>2. Head(buffer) \in Sent /\ Tail(buffer) \in Seq(Sent) /\ Len(Tail(buffer)) = Len(buffer) - 1
    BY <1>1, <2>1, HeadTailProperties
  <2>3. handled' \in Seq(Sent)
    BY <1>1, <2>1, <2>2, AppendProperties
  <2>4. Len(buffer') <= BufferCap
    BY <1>1, <2>1, <2>2 DEF TransportAssumption
  <2> QED
    BY <1>1, <2>2, <2>3, <2>4 DEF IInv, TypeOK
<1>3. OneRequest' /\ SendsKept' /\ RepliesTrue' /\ ListedTrue' /\ MailboxMade'
  BY <1>1 DEF IInv, OneRequest, SendsKept, RepliesTrue, ListedTrue, MailboxMade, Queued
<1> QED
  BY <1>2, <1>3 DEF IInv

-----------------------------------------------------------------------------
(***************************************************************************)
(* The steps of the connection's task and of the network.                  *)
(***************************************************************************)

LEMMA WriteOutKeeps ==
  ASSUME TransportAssumption, IInv, WriteOut, UNCHANGED demoVars
  PROVE  IInv'
<1> DEFINE cmd == Head(channel)
<1>1. /\ up /\ channel # <<>> /\ channel' = Tail(channel)
      /\ IF cmd.op = "flush"
         THEN answer' = Ok /\ UNCHANGED <<known, written>>
         ELSE /\ known' = (known \/ cmd.op = "subscribe")
              /\ written' = Append(written, cmd) /\ UNCHANGED answer
      /\ UNCHANGED <<up, incoming, lost, disconnects, buffer, overrun, serverVars, demoVars>>
  BY DEF WriteOut
<1>2. channel \in Seq(Commands) /\ written \in Seq(Commands)
      /\ Len(channel) \in Nat /\ Len(channel) <= ChannelCap
  BY DEF IInv, TypeOK
<1>3. /\ cmd \in Commands /\ channel' \in Seq(Commands) /\ Len(channel') = Len(channel) - 1
      /\ Published(channel) =
           Published(channel') \cup (IF cmd.op = "publish" THEN {cmd.msg} ELSE {})
      /\ HasRequest(channel) <=> HasRequest(channel') \/ IsRequest(cmd)
      /\ RequestLast(channel) => RequestLast(channel') /\ (IsRequest(cmd) => channel' = <<>>)
      /\ Distinct(channel) =>
           Distinct(channel') /\ (cmd.op = "publish" => cmd.msg \notin Published(channel'))
      /\ AllFit(channel, pc, listed) => AllFit(channel', pc, listed) /\ Fits(cmd, pc, listed)
  BY <1>1, <1>2, QueueTail, HeadTailProperties
<1> HIDE DEF cmd
<1> USE DEF serverVars, demoVars
<1>4. Len(channel') <= ChannelCap
  BY <1>2, <1>3 DEF TransportAssumption
<1>5. ~HasRequest(written)
  BY <1>1 DEF IInv, OneRequest
<1>6. CASE cmd.op = "flush"
  <2>1. IsRequest(cmd) /\ cmd.op # "publish"
    BY <1>6 DEF IsRequest, Unawaited
  <2>2. /\ channel' = <<>> /\ answer' = Ok /\ written' = written
        /\ UNCHANGED <<known, up, incoming, lost, disconnects, buffer, overrun, serverVars, demoVars>>
        /\ HasRequest(channel)
    BY <1>1, <1>3, <1>6, <2>1 DEF IInv, OneRequest
  <2>3. main \notin {"starting", "ready"} /\ ~HasReply(incoming)
    BY <2>2 DEF IInv, OneRequest
  <2>4. pc = 9
    <3>1. Fits(cmd, pc, listed)
      BY <1>3 DEF IInv, OneRequest
    <3>2. pc \in DOMAIN Script /\ Script[pc].op = "flush"
      BY <1>6, <2>1, <3>1 DEF Fits
    <3> QED
      BY <3>2, StepOps
  <2>5. Published(channel') = Published(channel) /\ ~HasRequest(channel')
    BY <1>3, <2>1, <2>2, EmptyQueue
  <2>6. TypeOK'
    BY <1>3, <1>4, <2>2, ReplyKinds DEF IInv, TypeOK
  <2>7. OneRequest'
    BY <1>5, <2>2, <2>5, EmptyQueue DEF IInv, OneRequest
  <2>8. SendsKept'
    BY <2>2, <2>5, EmptyQueue DEF IInv, SendsKept, Queued
  <2>9. RepliesTrue'
    BY <2>2, <2>3, <2>4, NoReplyIsTrue, ReplyKinds DEF IInv, RepliesTrue, TrueReply
  <2>10. ListedTrue'
    BY <2>2, <2>4, <2>5 DEF IInv, ListedTrue, Queued
  <2>11. MailboxMade'
    BY <2>2 DEF IInv, MailboxMade
  <2> QED
    BY <2>6, <2>7, <2>8, <2>9, <2>10, <2>11 DEF IInv
<1>7. CASE cmd.op # "flush"
  <2>1. /\ known' = (known \/ cmd.op = "subscribe")
        /\ written' = Append(written, cmd)
        /\ UNCHANGED <<answer, up, incoming, lost, disconnects, buffer, overrun, serverVars, demoVars>>
    BY <1>1, <1>7
  <2>2. cmd.op = "publish" => cmd.msg \notin Published(written)
    BY <1>3 DEF IInv, SendsKept
  <2>3. Fits(cmd, pc, listed)
    BY <1>3 DEF IInv, OneRequest
  <2>4. /\ written' \in Seq(Commands)
        /\ Published(written') =
             Published(written) \cup (IF cmd.op = "publish" THEN {cmd.msg} ELSE {})
        /\ HasRequest(written') <=> IsRequest(cmd)
        /\ RequestLast(written')
        /\ Distinct(written) => Distinct(written')
        /\ AllFit(written, pc, listed) => AllFit(written', pc, listed)
        /\ NoFlush(written) => NoFlush(written')
    BY <1>7, <1>2, <1>3, <1>5, <2>1, <2>2, <2>3, QueueAppend
  <2>5. Queued' = Queued
    BY <1>3, <2>4 DEF Queued
  <2>6. TypeOK'
    BY <1>3, <1>4, <2>1, <2>4 DEF IInv, TypeOK
  <2>7. OneRequest'
    BY <1>3, <2>1, <2>4 DEF IInv, OneRequest
  <2>8. SendsKept'
    <3>1. Distinct(written') /\ Distinct(channel')
      BY <1>3, <2>4 DEF IInv, SendsKept
    <3>2. Published(written') \cap Published(channel') = {}
      BY <1>3, <2>4 DEF IInv, SendsKept
    <3> QED
      BY <2>1, <2>5, <3>1, <3>2 DEF IInv, SendsKept
  <2>9. RepliesTrue'
    BY <2>1, <2>5 DEF IInv, RepliesTrue
  <2>10. ListedTrue'
    BY <1>3, <2>1, <2>4, <2>5 DEF IInv, ListedTrue
  <2>11. MailboxMade'
    BY <1>1, <2>1 DEF IInv, MailboxMade
  <2> QED
    BY <2>6, <2>7, <2>8, <2>9, <2>10, <2>11 DEF IInv
<1> QED
  BY <1>6, <1>7

LEMMA ReadReplyKeeps ==
  ASSUME IInv, ReadReply, UNCHANGED demoVars
  PROVE  IInv'
<1> DEFINE r == Head(incoming)
<1>1. /\ incoming # <<>> /\ r.kind # "message"
      /\ incoming' = Tail(incoming) /\ answer' = r
      /\ UNCHANGED <<up, written, lost, disconnects, channel, known, buffer, overrun,
                     serverVars, demoVars>>
  BY DEF ReadReply
<1>2. incoming \in Seq(Packets)
  BY DEF IInv, TypeOK, Packets
<1>3. /\ r \in Packets /\ incoming' \in Seq(Packets)
      /\ HasReply(incoming)
      /\ OneReply(incoming) => OneReply(incoming') /\ ~HasReply(incoming')
      /\ AllTrue(incoming, pc, mailbox, stored, lost, Queued) =>
           TrueReply(r, pc, mailbox, stored, lost, Queued)
  BY <1>1, <1>2, PacketTail
<1> HIDE DEF r
<1> USE DEF serverVars, demoVars
<1>4. r \in Replies
  BY <1>1, <1>3 DEF Packets
<1>5. ~HasRequest(written) /\ ~HasRequest(channel) /\ main \notin {"starting", "ready"}
      /\ ~HasReply(incoming') /\ OneReply(incoming')
  BY <1>3 DEF IInv, OneRequest, RepliesTrue
<1>6. TypeOK'
  BY <1>1, <1>3, <1>4 DEF IInv, TypeOK, Packets
<1>7. OneRequest'
  BY <1>1, <1>5 DEF IInv, OneRequest
<1>8. SendsKept'
  BY <1>1 DEF IInv, SendsKept, Queued
<1>9. RepliesTrue'
  <2>1. TrueReply(r, pc, mailbox, stored, lost, Queued)
    BY <1>3 DEF IInv, RepliesTrue
  <2>2. Queued' = Queued
    BY <1>1 DEF Queued
  <2> QED
    BY <1>1, <1>5, <2>1, <2>2, NoReplyIsTrue DEF IInv, RepliesTrue
<1>10. ListedTrue' /\ MailboxMade'
  BY <1>1 DEF IInv, ListedTrue, MailboxMade, Queued
<1> QED
  BY <1>6, <1>7, <1>8, <1>9, <1>10 DEF IInv

LEMMA ReadMessageKeeps ==
  ASSUME TransportAssumption, IInv, ReadMessage, UNCHANGED demoVars
  PROVE  IInv'
<1> DEFINE p == Head(incoming)
<1>1. /\ incoming # <<>> /\ p.kind = "message" /\ incoming' = Tail(incoming)
      /\ IF Len(buffer) < BufferCap
         THEN buffer' = Append(buffer, p.msg) /\ UNCHANGED overrun
         ELSE overrun' = overrun \cup {p.msg} /\ UNCHANGED buffer
      /\ UNCHANGED <<up, written, lost, disconnects, channel, known, answer, serverVars, demoVars>>
  BY DEF ReadMessage
<1>2. incoming \in Seq(Packets)
  BY DEF IInv, TypeOK, Packets
<1>3. /\ p \in Packets /\ incoming' \in Seq(Packets)
      /\ HasReply(incoming) <=> HasReply(incoming')
      /\ OneReply(incoming) => OneReply(incoming')
      /\ AllTrue(incoming, pc, mailbox, stored, lost, Queued) =>
           AllTrue(incoming', pc, mailbox, stored, lost, Queued)
  BY <1>1, <1>2, PacketTail
<1> HIDE DEF p
<1> USE DEF serverVars, demoVars
<1>4. p.msg \in Sent
  BY <1>1, <1>3, ReplyKinds DEF Packets
<1>5. buffer' \in Seq(Sent) /\ Len(buffer') <= BufferCap /\ overrun' \subseteq Sent
  <2>1. buffer \in Seq(Sent) /\ Len(buffer) \in Nat /\ Len(buffer) <= BufferCap /\ overrun \subseteq Sent
    BY DEF IInv, TypeOK
  <2>2. Append(buffer, p.msg) \in Seq(Sent) /\ Len(Append(buffer, p.msg)) = Len(buffer) + 1
    BY <1>4, <2>1, AppendProperties
  <2>3. CASE Len(buffer) < BufferCap
    <3>1. Len(buffer) + 1 <= BufferCap
      BY <2>1, <2>3 DEF TransportAssumption
    <3>2. buffer' = Append(buffer, p.msg) /\ overrun' = overrun
      BY <1>1, <2>3
    <3> QED
      BY <2>1, <2>2, <3>1, <3>2
  <2>4. CASE ~(Len(buffer) < BufferCap)
    <3>1. buffer' = buffer /\ overrun' = overrun \cup {p.msg}
      BY <1>1, <2>4
    <3> QED
      BY <1>4, <2>1, <3>1
  <2> QED
    BY <2>3, <2>4
<1>6. TypeOK'
  BY <1>1, <1>3, <1>5 DEF IInv, TypeOK, Packets
<1>7. OneRequest'
  BY <1>1, <1>3 DEF IInv, OneRequest
<1>8. SendsKept' /\ ListedTrue' /\ MailboxMade'
  BY <1>1 DEF IInv, SendsKept, ListedTrue, MailboxMade, Queued
<1>9. RepliesTrue'
  <2>1. Queued' = Queued
    BY <1>1 DEF Queued
  <2> QED
    BY <1>1, <1>3, <2>1 DEF IInv, RepliesTrue
<1> QED
  BY <1>6, <1>7, <1>8, <1>9 DEF IInv

LEMMA DisconnectKeeps ==
  ASSUME TransportAssumption, IInv, Disconnect, UNCHANGED demoVars
  PROVE  IInv'
<1>1. /\ up' = FALSE /\ disconnects < MaxDisconnects /\ disconnects' = disconnects + 1
      /\ lost' = lost \cup Published(written)
      /\ written' = <<>> /\ incoming' = <<>> /\ subscribed' = FALSE /\ pending' = <<>>
      /\ UNCHANGED <<mailbox, stored, clientVars, demoVars>>
  BY DEF Disconnect
<1> USE DEF clientVars, demoVars
<1>2. /\ Queued' = Published(channel) /\ Queued' \subseteq Queued
      /\ Queued' \cup lost' = Queued \cup lost
      /\ Queued = {} => lost' = lost /\ Queued' = {}
  BY <1>1, EmptyQueue DEF Queued
<1>3. TypeOK'
  <2>1. lost' \subseteq Sent
    BY <1>1 DEF IInv, TypeOK, SendsKept, Queued, Accepted
  <2>2. disconnects' \in 0..MaxDisconnects
    BY <1>1 DEF IInv, TypeOK, TransportAssumption
  <2>3. \A S : <<>> \in Seq(S)
    OBVIOUS
  <2> QED
    BY <1>1, <2>1, <2>2, <2>3 DEF IInv, TypeOK
<1>4. OneRequest'
  BY <1>1, EmptyQueue, NoPackets DEF IInv, OneRequest
<1>5. SendsKept'
  <2>1. Distinct(written') /\ Distinct(channel') /\ Published(written') \cap Published(channel') = {}
    BY <1>1, EmptyQueue DEF IInv, SendsKept
  <2>2. Queued' \cup stored \cup lost' = Queued \cup stored \cup lost
    BY <1>2
  <2>3. Queued' \cap (stored \cup lost') = {} /\ stored \cap lost' = {}
    BY <1>1, <1>2 DEF IInv, SendsKept, Queued
  <2> QED
    BY <1>1, <2>1, <2>2, <2>3 DEF IInv, SendsKept
<1>6. RepliesTrue'
  BY <1>1, <1>2, NoPackets DEF IInv, RepliesTrue, TrueReply, TrueList
<1>7. ListedTrue'
  BY <1>1, <1>2, EmptyQueue DEF IInv, ListedTrue, TrueList
<1>8. MailboxMade'
  BY <1>1 DEF IInv, MailboxMade
<1> QED
  BY <1>3, <1>4, <1>5, <1>6, <1>7, <1>8 DEF IInv

LEMMA ReconnectKeeps ==
  ASSUME IInv, Reconnect, UNCHANGED demoVars
  PROVE  IInv'
<1>1. /\ ~up /\ up' = TRUE
      /\ written' = IF known THEN <<[op |-> "subscribe"]>> ELSE <<>>
      /\ UNCHANGED <<incoming, lost, disconnects, serverVars, clientVars, demoVars>>
  BY DEF Reconnect
<1> USE DEF serverVars, clientVars, demoVars
<1>2. written = <<>>
  BY <1>1 DEF IInv, MailboxMade
<1>3. /\ written' \in Seq(Commands) /\ Published(written') = {} /\ ~HasRequest(written')
      /\ RequestLast(written') /\ Distinct(written') /\ NoFlush(written')
  <2> DEFINE cmd == [op |-> "subscribe"]
  <2>1. cmd \in Commands /\ cmd.op # "publish" /\ cmd.op # "flush" /\ ~IsRequest(cmd)
    BY ScriptSteps, ScriptCommands DEF IsRequest, Unawaited
  <2>2. <<>> \in Seq(Commands) /\ <<cmd>> = Append(<<>>, cmd)
    OBVIOUS
  <2> HIDE DEF cmd
  <2>3. /\ Append(<<>>, cmd) \in Seq(Commands) /\ Published(Append(<<>>, cmd)) = {}
        /\ ~HasRequest(Append(<<>>, cmd)) /\ RequestLast(Append(<<>>, cmd))
        /\ Distinct(Append(<<>>, cmd)) /\ NoFlush(Append(<<>>, cmd))
    BY <2>1, <2>2, QueueAppend, EmptyQueue
  <2>4. written' = <<>> \/ written' = Append(<<>>, cmd)
    BY <1>1, <2>2 DEF cmd
  <2> QED
    BY <2>2, <2>3, <2>4, EmptyQueue
<1>4. Queued' = Queued
  BY <1>1, <1>2, <1>3, EmptyQueue DEF Queued
<1>5. TypeOK'
  BY <1>1, <1>3 DEF IInv, TypeOK
<1>6. OneRequest'
  BY <1>1, <1>3, NoRequestFits DEF IInv, OneRequest
<1>7. SendsKept'
  BY <1>1, <1>3, <1>4 DEF IInv, SendsKept
<1>8. RepliesTrue'
  BY <1>1, <1>4 DEF IInv, RepliesTrue
<1>9. ListedTrue' /\ MailboxMade'
  BY <1>1, <1>3, <1>4 DEF IInv, ListedTrue, MailboxMade
<1> QED
  BY <1>5, <1>6, <1>7, <1>8, <1>9 DEF IInv

-----------------------------------------------------------------------------
(***************************************************************************)
(* The steps of the server.                                                *)
(***************************************************************************)

LEMMA ServeKeeps ==
  ASSUME IInv, Serve, UNCHANGED demoVars
  PROVE  IInv'
<1> DEFINE cmd == Head(written)
<1>1. /\ written # <<>> /\ written' = Tail(written)
      /\ UNCHANGED <<up, lost, disconnects, clientVars, demoVars>>
  BY DEF Serve
<1>2. /\ written \in Seq(Commands) /\ incoming \in Seq(Packets) /\ stored \subseteq Sent
      /\ pending \in Seq(Sent)
      /\ mailbox \in {"absent", "there", "expired"} /\ subscribed \in BOOLEAN
  BY DEF IInv, TypeOK, Packets
<1>3. /\ cmd \in Commands /\ written' \in Seq(Commands)
      /\ Published(written) =
           Published(written') \cup (IF cmd.op = "publish" THEN {cmd.msg} ELSE {})
      /\ HasRequest(written) <=> HasRequest(written') \/ IsRequest(cmd)
      /\ RequestLast(written) => RequestLast(written') /\ (IsRequest(cmd) => written' = <<>>)
      /\ Distinct(written) =>
           Distinct(written') /\ (cmd.op = "publish" => cmd.msg \notin Published(written'))
      /\ NoFlush(written) => NoFlush(written') /\ cmd.op # "flush"
      /\ AllFit(written, pc, listed) => AllFit(written', pc, listed) /\ Fits(cmd, pc, listed)
  BY <1>1, <1>2, QueueTail
<1>4. /\ RequestLast(written') /\ (IsRequest(cmd) => written' = <<>>)
      /\ Distinct(written') /\ (cmd.op = "publish" => cmd.msg \notin Published(written'))
      /\ NoFlush(written') /\ cmd.op # "flush"
      /\ AllFit(written', pc, listed) /\ Fits(cmd, pc, listed)
  BY <1>3 DEF IInv, OneRequest, SendsKept
<1>5. /\ cmd.op = "create" => Create
      /\ cmd.op = "createPublic" => CreatePublic
      /\ cmd.op = "publish" => Store(cmd.msg)
      /\ cmd.op = "subscribe" => Replay
      /\ cmd.op = "list" => List
      /\ cmd.op = "delete" => Delete(cmd.msg)
  BY DEF Serve
<1>6. cmd.op \in {"create", "createPublic", "publish", "subscribe", "list", "delete"}
  <2>1. (\E i \in 1..9 : cmd = Script[i]) \/ (\E m \in Sent : cmd = [op |-> "delete", msg |-> m])
    BY <1>3, ScriptSteps DEF Commands
  <2>2. CASE \E m \in Sent : cmd = [op |-> "delete", msg |-> m]
    BY <2>2
  <2>3. CASE \E i \in 1..9 : cmd = Script[i]
    BY <1>4, <2>3, ScriptOps
  <2> QED
    BY <2>1, <2>2, <2>3
<1> HIDE DEF cmd
<1> USE DEF clientVars, demoVars
<1>7. TypeOK' <=> /\ incoming' \in Seq(Packets) /\ stored' \subseteq Sent
                  /\ pending' \in Seq(Sent) /\ subscribed' \in BOOLEAN
                  /\ mailbox' \in {"absent", "there", "expired"}
  BY <1>1, <1>3 DEF IInv, TypeOK, Packets
\* A request is the only one, and after all that was sent.
<1>8. ASSUME IsRequest(cmd)
      PROVE  /\ written' = <<>> /\ channel = <<>> /\ Queued = {} /\ Queued' = {}
             /\ ~HasReply(incoming) /\ answer = NoAnswer /\ main \notin {"starting", "ready"}
             /\ pc \in DOMAIN Script /\ cmd.op = Script[pc].op
             /\ cmd.op = "delete" => cmd.msg \in listed
             /\ cmd.op # "publish"
  <2>1. cmd.op # "publish"
    BY <1>8 DEF IsRequest, Unawaited
  <2>2. written' = <<>> /\ HasRequest(written)
    BY <1>3, <1>4, <1>8
  <2>3. /\ channel = <<>> /\ ~HasReply(incoming) /\ answer = NoAnswer
        /\ main \notin {"starting", "ready"}
    BY <2>2 DEF IInv, OneRequest
  <2>4. Queued = {} /\ Queued' = {}
    BY <1>1, <1>3, <2>1, <2>2, <2>3, EmptyQueue DEF Queued
  <2> QED
    BY <1>4, <1>8, <2>1, <2>2, <2>3, <2>4 DEF Fits
<1>9. ASSUME IsRequest(cmd) PROVE OneRequest'
  BY <1>1, <1>4, <1>8, <1>9, EmptyQueue DEF IInv, OneRequest
<1>10. ASSUME IsRequest(cmd), NEW r \in Replies, incoming' = Append(incoming, r),
              TrueReply(r, pc, mailbox', stored', lost, {})
       PROVE  incoming' \in Seq(Packets) /\ RepliesTrue'
  <2>1. r \in Packets /\ r.kind # "message"
    BY <1>10, ReplyKinds DEF Packets
  <2>2. OneReply(incoming) /\ AllTrue(incoming, pc, mailbox', stored', lost, {})
    BY <1>8, <1>10, NoReplyIsTrue DEF IInv, RepliesTrue
  <2>3. /\ incoming' \in Seq(Packets) /\ OneReply(incoming')
        /\ AllTrue(incoming', pc, mailbox', stored', lost, {})
    BY <1>2, <1>8, <1>10, <2>1, <2>2, PacketAppend
  <2> QED
    BY <1>1, <1>8, <1>10, <2>3 DEF RepliesTrue
<1>11. ASSUME IsRequest(cmd), stored' = stored, mailbox' = mailbox
       PROVE  SendsKept' /\ ListedTrue' /\ MailboxMade'
  <2>1. SendsKept'
    BY <1>1, <1>4, <1>8, <1>11, EmptyQueue DEF IInv, SendsKept
  <2>2. ListedTrue'
    BY <1>1, <1>8, <1>11, EmptyQueue DEF IInv, ListedTrue
  <2>3. MailboxMade'
    BY <1>1, <1>11, <1>8 DEF IInv, MailboxMade
  <2> QED
    BY <2>1, <2>2, <2>3
<1>12. CASE cmd.op = "create"
  <2>1. IsRequest(cmd)
    BY <1>12 DEF IsRequest, Unawaited
  <2>2. pc = 1
    BY <1>8, <1>12, <2>1, StepOps
  <2>3. /\ mailbox' = IF mailbox = "absent" THEN "there" ELSE mailbox
        /\ incoming' = Append(incoming, Ok) /\ UNCHANGED <<subscribed, pending, stored>>
    BY <1>5, <1>12 DEF Create, Reply
  <2>4. TrueReply(Ok, pc, mailbox', stored', lost, {})
    BY <1>2, <2>2, <2>3, ReplyKinds DEF TrueReply
  <2>5. incoming' \in Seq(Packets) /\ RepliesTrue'
    BY <1>10, <2>1, <2>3, <2>4, ReplyKinds
  <2>6. TypeOK'
    BY <1>2, <1>7, <2>3, <2>5
  <2>7. SendsKept'
    <3>1. Accepted(pc) = {}
      BY <2>2, SentMessages DEF Accepted
    <3> QED
      BY <1>1, <1>4, <1>8, <2>1, <2>3, <3>1, EmptyQueue DEF IInv, SendsKept
  <2>8. ListedTrue' /\ MailboxMade'
    BY <1>1, <1>2, <1>8, <2>1, <2>2, <2>3 DEF IInv, ListedTrue, MailboxMade
  <2> QED
    BY <1>9, <2>1, <2>5, <2>6, <2>7, <2>8 DEF IInv
<1>13. CASE cmd.op = "createPublic"
  <2>1. IsRequest(cmd)
    BY <1>13 DEF IsRequest, Unawaited
  <2>2. pc = 8
    BY <1>8, <1>13, <2>1, StepOps
  <2>3. incoming' = Append(incoming, Ok) /\ UNCHANGED serverVars
    BY <1>5, <1>13 DEF CreatePublic, Reply
  <2>4. TrueReply(Ok, pc, mailbox', stored', lost, {})
    BY <2>2, ReplyKinds DEF TrueReply
  <2>5. incoming' \in Seq(Packets) /\ RepliesTrue'
    BY <1>10, <2>1, <2>3, <2>4, ReplyKinds
  <2>6. TypeOK'
    BY <1>2, <1>7, <2>3, <2>5 DEF serverVars
  <2> QED
    BY <1>9, <1>11, <2>1, <2>3, <2>5, <2>6 DEF IInv, serverVars
<1>14. CASE cmd.op = "list"
  <2>1. IsRequest(cmd)
    BY <1>14 DEF IsRequest, Unawaited
  <2>2. pc = 6
    BY <1>8, <1>14, <2>1, StepOps
  <2> DEFINE r == IF mailbox = "there" THEN Listed(stored) ELSE Refusal
  <2>3. incoming' = Append(incoming, r) /\ UNCHANGED serverVars
    BY <1>5, <1>14 DEF List, Reply
  <2>4. r \in Replies
    BY <1>2, ReplyKinds
  <2>5. TrueReply(r, pc, mailbox', stored', lost, {})
    <3>1. mailbox = "there" => stored = Sent \ lost
      <4>1. Accepted(pc) = Sent
        BY <2>2, SentMessages DEF Accepted
      <4> QED
        BY <1>2, <1>8, <2>1, <2>2, <4>1 DEF IInv, SendsKept
    <3>2. mailbox # "absent"
      BY <2>2 DEF IInv, MailboxMade
    <3>3. CASE mailbox = "there"
      BY <2>2, <2>3, <3>1, <3>3, ReplyKinds DEF TrueReply, TrueList, serverVars
    <3>4. CASE mailbox # "there"
      BY <1>2, <2>2, <2>3, <3>2, <3>4, ReplyKinds DEF TrueReply, serverVars
    <3> QED
      BY <3>3, <3>4
  <2> HIDE DEF r
  <2>6. incoming' \in Seq(Packets) /\ RepliesTrue'
    BY <1>10, <2>1, <2>3, <2>4, <2>5
  <2>7. TypeOK'
    BY <1>2, <1>7, <2>3, <2>6 DEF serverVars
  <2> QED
    BY <1>9, <1>11, <2>1, <2>3, <2>6, <2>7 DEF IInv, serverVars
<1>15. CASE cmd.op = "delete"
  <2>1. IsRequest(cmd)
    BY <1>15 DEF IsRequest, Unawaited
  <2>2. pc = 7 /\ cmd.msg \in listed
    BY <1>8, <1>15, <2>1, StepOps
  <2> DEFINE r == IF cmd.msg \in stored THEN Ok ELSE Refusal
  <2>3. /\ incoming' = Append(incoming, r) /\ stored' = stored \ {cmd.msg}
        /\ UNCHANGED <<subscribed, pending, mailbox>>
    BY <1>5, <1>15 DEF Delete, Reply
  <2>4. r \in Replies
    BY ReplyKinds
  <2>5. TrueReply(r, pc, mailbox', stored', lost, {})
    <3>1. HasRequest(written) /\ mailbox # "absent"
      BY <1>3, <2>1, <2>2 DEF IInv, MailboxMade
    <3>2. mailbox = "there" => cmd.msg \in stored
      BY <2>2, <3>1 DEF IInv, ListedTrue
    <3>3. r = Refusal => mailbox = "expired"
      BY <1>2, <3>1, <3>2, ReplyKinds
    <3>4. r.kind # "listed"
      BY ReplyKinds
    <3> QED
      BY <2>2, <2>3, <3>3, <3>4 DEF TrueReply
  <2> HIDE DEF r
  <2>6. incoming' \in Seq(Packets) /\ RepliesTrue'
    BY <1>10, <2>1, <2>3, <2>4, <2>5
  <2>7. TypeOK'
    BY <1>2, <1>7, <2>3, <2>6
  <2>8. SendsKept'
    BY <1>1, <1>4, <1>8, <2>1, <2>2, <2>3, EmptyQueue DEF IInv, SendsKept
  <2>9. ListedTrue'
    BY <1>1, <1>8, <2>1, <2>3, EmptyQueue DEF IInv, ListedTrue
  <2>10. MailboxMade'
    BY <1>1, <1>8, <2>1, <2>3 DEF IInv, MailboxMade
  <2> QED
    BY <1>9, <2>1, <2>6, <2>7, <2>8, <2>9, <2>10 DEF IInv
<1>16. CASE cmd.op = "publish"
  <2> DEFINE m == cmd.msg
  <2>1. ~IsRequest(cmd)
    BY <1>16 DEF IsRequest, Unawaited
  <2>2. /\ stored' = IF mailbox = "there" THEN stored \cup {m} ELSE stored
        /\ pending' = IF mailbox = "there" /\ subscribed THEN Append(pending, m) ELSE pending
        /\ UNCHANGED <<incoming, subscribed, mailbox>>
    BY <1>5, <1>16 DEF Store
  <2>3. /\ Published(written) = Published(written') \cup {m}
        /\ m \notin Published(written') /\ m \in Queued
        /\ m \notin Published(channel)
    BY <1>3, <1>4, <1>16 DEF IInv, SendsKept, Queued
  <2> HIDE DEF m
  <2>4. m \in Accepted(pc) /\ m \in Sent /\ m \notin stored \cup lost
    BY <2>3 DEF IInv, SendsKept, Accepted
  <2>5. Queued = Queued' \cup {m} /\ m \notin Queued' /\ Queued # {}
    BY <1>1, <2>3 DEF Queued
  <2>6. pc <= 6
    BY <2>5 DEF IInv, TypeOK, ListedTrue, TrueList
  <2>7. TypeOK'
    <3>1. Append(pending, m) \in Seq(Sent)
      BY <1>2, <2>4, AppendProperties
    <3>2. pending' \in Seq(Sent)
      BY <1>2, <2>2, <3>1
    <3> QED
      BY <1>2, <1>7, <2>2, <2>4, <3>2
  <2>8. OneRequest'
    BY <1>1, <1>3, <1>4, <2>1, <2>2 DEF IInv, OneRequest
  <2>9. SendsKept'
    <3>1. Distinct(written') /\ Distinct(channel') /\ Published(written') \cap Published(channel') = {}
      BY <1>1, <1>4, <2>3 DEF IInv, SendsKept
    <3>2. Queued' \cup stored' \cup lost' \subseteq Accepted(pc')
      BY <1>1, <2>2, <2>4, <2>5 DEF IInv, SendsKept
    <3>3. Queued' \cap (stored' \cup lost') = {} /\ stored' \cap lost' = {}
      BY <1>1, <2>2, <2>4, <2>5 DEF IInv, SendsKept
    <3>4. pc' <= 6 /\ mailbox' = "there" => Accepted(pc') \subseteq Queued' \cup stored' \cup lost'
      BY <1>1, <2>2, <2>5, <2>6 DEF IInv, SendsKept
    <3> QED
      BY <3>1, <3>2, <3>3, <3>4 DEF SendsKept
  <2>10. ASSUME NEW r, TrueReply(r, pc, mailbox, stored, lost, Queued)
         PROVE  TrueReply(r, pc', mailbox', stored', lost', Queued')
    BY <1>1, <2>2, <2>5, <2>10 DEF TrueReply, TrueList
  <2>11. RepliesTrue'
    BY <1>1, <2>2, <2>10 DEF IInv, RepliesTrue, AllTrue
  <2>12. ListedTrue'
    BY <1>1, <2>2, <2>6 DEF IInv, ListedTrue, TypeOK
  <2>13. MailboxMade'
    BY <1>1, <2>2 DEF IInv, MailboxMade
  <2> QED
    BY <2>7, <2>8, <2>9, <2>11, <2>12, <2>13 DEF IInv
<1>17. CASE cmd.op = "subscribe"
  <2>1. ~IsRequest(cmd) /\ cmd.op # "publish"
    BY <1>17 DEF IsRequest, Unawaited
  <2>2. /\ subscribed' = TRUE /\ pending' \in [1..Cardinality(stored) -> stored]
        /\ UNCHANGED <<incoming, mailbox, stored>>
    BY <1>5, <1>17 DEF Replay
  <2>3. Queued' = Queued
    BY <1>1, <1>3, <2>1 DEF Queued
  <2>4. TypeOK'
    <3>1. IsFiniteSet(Sent)
      <4>1. IsFiniteSet(1..3)
        <5>1. 1 \in Int /\ 3 \in Int
          OBVIOUS
        <5> QED
          BY <5>1, FS_Interval, Zenon
      <4> QED
        BY <4>1, SentMessages
    <3>2. Cardinality(stored) \in Nat
      BY <1>2, <3>1, FS_Subset, FS_CardinalityType
    <3>3. pending' \in Seq(stored)
      BY <2>2, <3>2, SeqDef
    <3>4. pending' \in Seq(Sent)
      BY <1>2, <3>3
    <3> QED
      BY <1>2, <1>7, <2>2, <3>4
  <2>5. OneRequest'
    BY <1>1, <1>3, <1>4, <2>1, <2>2 DEF IInv, OneRequest
  <2>6. SendsKept'
    BY <1>1, <1>3, <1>4, <2>1, <2>2, <2>3 DEF IInv, SendsKept
  <2>7. RepliesTrue'
    BY <1>1, <2>2, <2>3 DEF IInv, RepliesTrue
  <2>8. ListedTrue'
    BY <1>1, <1>3, <2>1, <2>2, <2>3 DEF IInv, ListedTrue
  <2>9. MailboxMade'
    BY <1>1, <2>2 DEF IInv, MailboxMade
  <2> QED
    BY <2>4, <2>5, <2>6, <2>7, <2>8, <2>9 DEF IInv
<1> QED
  BY <1>6, <1>12, <1>13, <1>14, <1>15, <1>16, <1>17

LEMMA PushKeeps ==
  ASSUME IInv, Push, UNCHANGED demoVars
  PROVE  IInv'
<1> DEFINE p == [kind |-> "message", msg |-> Head(pending)]
<1>1. /\ pending # <<>> /\ pending' = Tail(pending) /\ incoming' = Append(incoming, p)
      /\ UNCHANGED <<up, written, lost, disconnects, subscribed, mailbox, stored,
                     clientVars, demoVars>>
  BY DEF Push
<1>2. pending \in Seq(Sent) /\ incoming \in Seq(Packets)
  BY DEF IInv, TypeOK, Packets
<1>3. pending' \in Seq(Sent) /\ Head(pending) \in Sent
  BY <1>1, <1>2, HeadTailProperties
<1>4. p \in Packets /\ p.kind = "message"
  BY <1>3 DEF Packets
<1> HIDE DEF p
<1> USE DEF clientVars, demoVars
<1>5. /\ incoming' \in Seq(Packets)
      /\ HasReply(incoming') <=> HasReply(incoming)
      /\ OneReply(incoming) => OneReply(incoming')
      /\ AllTrue(incoming, pc, mailbox, stored, lost, Queued) =>
           AllTrue(incoming', pc, mailbox, stored, lost, Queued)
  BY <1>1, <1>2, <1>4, PacketAppend
<1>6. TypeOK'
  BY <1>1, <1>3, <1>5 DEF IInv, TypeOK, Packets
<1>7. OneRequest'
  BY <1>1, <1>5 DEF IInv, OneRequest
<1>8. SendsKept' /\ ListedTrue' /\ MailboxMade'
  BY <1>1 DEF IInv, SendsKept, ListedTrue, MailboxMade, Queued
<1>9. RepliesTrue'
  <2>1. Queued' = Queued
    BY <1>1 DEF Queued
  <2> QED
    BY <1>1, <1>5, <2>1 DEF IInv, RepliesTrue
<1> QED
  BY <1>6, <1>7, <1>8, <1>9 DEF IInv

LEMMA ExpireKeeps ==
  ASSUME IInv, Expire, UNCHANGED demoVars
  PROVE  IInv'
<1>1. /\ mailbox = "there" /\ mailbox' = "expired" /\ stored' = {}
      /\ UNCHANGED <<subscribed, pending, linkVars, clientVars, demoVars>>
  BY DEF Expire
<1> USE DEF linkVars, clientVars, demoVars
<1>2. Queued' = Queued
  BY <1>1 DEF Queued
<1>3. TypeOK'
  BY <1>1 DEF IInv, TypeOK
<1>4. OneRequest'
  BY <1>1 DEF IInv, OneRequest
<1>5. SendsKept'
  BY <1>1, <1>2 DEF IInv, SendsKept
<1>6. ASSUME NEW r, TrueReply(r, pc, mailbox, stored, lost, Queued)
      PROVE  TrueReply(r, pc', mailbox', stored', lost', Queued')
  BY <1>1, <1>2, <1>6 DEF TrueReply
<1>7. RepliesTrue'
  BY <1>1, <1>6 DEF IInv, RepliesTrue, AllTrue
<1>8. ListedTrue' /\ MailboxMade'
  BY <1>1, <1>2 DEF IInv, ListedTrue, MailboxMade
<1> QED
  BY <1>3, <1>4, <1>5, <1>7, <1>8 DEF IInv

-----------------------------------------------------------------------------
(***************************************************************************)
(* The inductive invariant, continued: the order of what the callback is   *)
(* given.                                                                  *)
(***************************************************************************)

HasOp(cmds, op) == \E i \in DOMAIN cmds : cmds[i].op = op

\* Nothing is published after the subscription, and it is made only once.
SubscribeLast(cmds) ==
  \A i, j \in DOMAIN cmds :
    i < j /\ cmds[i].op = "subscribe" => cmds[j].op \notin {"publish", "subscribe"}

\* So what is stored does not grow any more once it has been replayed.
CommandOrder ==
  /\ pc <= 5 => ~HasOp(channel, "subscribe") /\ ~known
  /\ known => ~HasOp(channel, "subscribe") /\ ~HasOp(channel, "publish")
  /\ SubscribeLast(channel) /\ SubscribeLast(written)
  /\ HasOp(written, "subscribe") => known /\ ~subscribed
  /\ subscribed => known /\ ~HasOp(written, "publish")
  /\ ~up => ~subscribed

\* Before the first disconnect nothing is lost, and nothing is deleted before
\* the replay: main() still waits for the list.
FirstTry ==
  disconnects = 0 =>
    /\ lost = {}
    /\ HasOp(written, "subscribe") \/ HasOp(channel, "subscribe") =>
         pc = 6 /\ answer = NoAnswer /\ ~HasReply(incoming)

MessagesIn(packets) ==
  {packets[k].msg : k \in {l \in DOMAIN packets : packets[l].kind = "message"}}

\* What is still to come over this connection, which is in order.
Coming == MessagesIn(incoming) \cup Range(pending)

Ascending(packets, msgs) ==
  /\ \A k, l \in DOMAIN packets :
       k < l /\ packets[k].kind = "message" /\ packets[l].kind = "message" =>
         packets[k].msg < packets[l].msg
  /\ \A k \in DOMAIN packets, j \in DOMAIN msgs :
       packets[k].kind = "message" => packets[k].msg < msgs[j]
  /\ \A i, j \in DOMAIN msgs : i < j => msgs[i] < msgs[j]

Descents(s) == {i \in 1..(Len(s) - 1) : s[i] >= s[i + 1]}

\* All that is to come is beyond the last message received.
Beyond == \A m \in Coming : Received[Len(Received)] < m

\* A disconnect makes one descent possible: the first message after it.
Flow ==
  /\ ~subscribed => Coming = {}
  /\ Ascending(incoming, pending)
  /\ Cardinality(Descents(Received)) <= disconnects
  /\ Received # <<>> /\ ~(subscribed /\ Beyond) =>
       Cardinality(Descents(Received)) + 1 <= disconnects

\* Before the first, what precedes a message was received, dropped, or is to
\* come before it.
NoGaps ==
  disconnects = 0 => \A m \in Sent :
    /\ \A x \in Range(Received) : m < x => m \in Range(Received) \cup overrun
    /\ \A x \in Coming : m < x => m \in Range(Received) \cup overrun \cup Coming

OInv == CommandOrder /\ FirstTry /\ Flow /\ NoGaps

-----------------------------------------------------------------------------
(***************************************************************************)
(* Queues and packets, once more.                                          *)
(***************************************************************************)

LEMMA OrderEmpty ==
  SubscribeLast(<<>>) /\ \A op : ~HasOp(<<>>, op)
<1>1. DOMAIN <<>> = {}
  OBVIOUS
<1> QED
  BY <1>1 DEF SubscribeLast, HasOp

LEMMA OrderAppend ==
  ASSUME NEW s \in Seq(Commands), NEW c \in Commands
  PROVE  /\ \A op : HasOp(Append(s, c), op) <=> HasOp(s, op) \/ c.op = op
         /\ /\ SubscribeLast(s)
            /\ HasOp(s, "subscribe") => c.op \notin {"publish", "subscribe"}
            => SubscribeLast(Append(s, c))
<1> DEFINE t == Append(s, c)
<1>1. /\ Len(s) \in Nat /\ DOMAIN t = 1..(Len(s) + 1) /\ DOMAIN s = 1..Len(s)
      /\ \A i \in 1..Len(s) : t[i] = s[i]
      /\ t[Len(s) + 1] = c
  OBVIOUS
<1> HIDE DEF t
<1>2. \A op : HasOp(t, op) <=> HasOp(s, op) \/ c.op = op
  BY <1>1 DEF HasOp
<1>3. /\ SubscribeLast(s)
      /\ HasOp(s, "subscribe") => c.op \notin {"publish", "subscribe"}
      => SubscribeLast(t)
  BY <1>1 DEF SubscribeLast, HasOp
<1> QED
  BY <1>2, <1>3 DEF t

LEMMA OrderTail ==
  ASSUME NEW s \in Seq(Commands), s # <<>>
  PROVE  /\ \A op : HasOp(s, op) <=> HasOp(Tail(s), op) \/ Head(s).op = op
         /\ SubscribeLast(s) =>
              /\ SubscribeLast(Tail(s))
              /\ Head(s).op = "subscribe" =>
                   ~HasOp(Tail(s), "publish") /\ ~HasOp(Tail(s), "subscribe")
<1> DEFINE t == Tail(s)
           n == Len(t)
<1>1. /\ n \in Nat /\ DOMAIN t = 1..n /\ DOMAIN s = 1..(n + 1)
      /\ \A i \in 1..n : t[i] = s[i + 1]
      /\ Head(s) = s[1]
  <2>1. t \in Seq(Commands) /\ Len(t) = Len(s) - 1 /\ \A i \in 1..Len(t) : t[i] = s[i + 1]
    BY HeadTailProperties
  <2>2. Len(t) \in Nat /\ DOMAIN t = 1..Len(t) /\ Len(s) \in Nat /\ DOMAIN s = 1..Len(s)
    BY <2>1, LenProperties
  <2>3. Head(s) = s[1]
    OBVIOUS
  <2> QED
    BY <2>1, <2>2, <2>3
<1> HIDE DEF t, n
<1>2. \A j \in DOMAIN s : j = 1 \/ (j - 1 \in DOMAIN t /\ t[j - 1] = s[j])
  BY <1>1
<1>3. \A i \in DOMAIN t : i + 1 \in DOMAIN s /\ t[i] = s[i + 1] /\ 1 < i + 1
  BY <1>1
<1>4. 1 \in DOMAIN s
  BY <1>1
<1>5. ASSUME NEW op PROVE HasOp(s, op) <=> HasOp(t, op) \/ s[1].op = op
  <2>1. HasOp(s, op) => HasOp(t, op) \/ s[1].op = op
    BY <1>2 DEF HasOp
  <2>2. HasOp(t, op) => HasOp(s, op)
    <3> SUFFICES ASSUME NEW i \in DOMAIN t, t[i].op = op PROVE HasOp(s, op)
      BY DEF HasOp
    <3>1. i + 1 \in DOMAIN s /\ s[i + 1].op = op
      BY <1>3
    <3> QED
      BY <3>1 DEF HasOp
  <2>3. s[1].op = op => HasOp(s, op)
    BY <1>4 DEF HasOp
  <2> QED
    BY <2>1, <2>2, <2>3
<1>6. ASSUME SubscribeLast(s) PROVE SubscribeLast(t)
  <2> SUFFICES ASSUME NEW i \in DOMAIN t, NEW j \in DOMAIN t, i < j, t[i].op = "subscribe"
               PROVE  t[j].op \notin {"publish", "subscribe"}
    BY DEF SubscribeLast
  <2>1. /\ i + 1 \in DOMAIN s /\ s[i + 1] = t[i] /\ j + 1 \in DOMAIN s /\ s[j + 1] = t[j]
        /\ i + 1 < j + 1
    BY <1>1, <1>3
  <2> QED
    BY <1>6, <2>1 DEF SubscribeLast
<1>7. ASSUME SubscribeLast(s), s[1].op = "subscribe"
      PROVE  ~HasOp(t, "publish") /\ ~HasOp(t, "subscribe")
  <2>1. ASSUME NEW i \in DOMAIN t PROVE t[i].op \notin {"publish", "subscribe"}
    <3>1. i + 1 \in DOMAIN s /\ s[i + 1] = t[i] /\ 1 < i + 1
      BY <1>3
    <3> QED
      BY <1>4, <1>7, <3>1 DEF SubscribeLast
  <2> QED
    BY <2>1 DEF HasOp
<1> QED
  BY <1>1, <1>5, <1>6, <1>7 DEF t

\* What is not published is not in the queue.
LEMMA NonePublished ==
  \A s : ~HasOp(s, "publish") => Published(s) = {}
  BY PublishedBy DEF HasOp

LEMMA MessageIn ==
  \A s, m : m \in MessagesIn(s) <=> \E k \in DOMAIN s : s[k].kind = "message" /\ s[k].msg = m
  BY DEF MessagesIn

LEMMA MessagesEmpty ==
  /\ MessagesIn(<<>>) = {} /\ Range(<<>>) = {}
  /\ Ascending(<<>>, <<>>)
<1>1. DOMAIN <<>> = {}
  OBVIOUS
<1> QED
  BY <1>1, MessageIn DEF Range, Ascending

LEMMA MessagesAppend ==
  ASSUME NEW s \in Seq(Packets), NEW p \in Packets
  PROVE  /\ MessagesIn(Append(s, p)) =
              MessagesIn(s) \cup (IF p.kind = "message" THEN {p.msg} ELSE {})
         /\ \A msgs : Ascending(s, msgs) /\ p.kind # "message" => Ascending(Append(s, p), msgs)
<1> DEFINE t == Append(s, p)
<1>1. /\ Len(s) \in Nat /\ DOMAIN t = 1..(Len(s) + 1) /\ DOMAIN s = 1..Len(s)
      /\ \A i \in 1..Len(s) : t[i] = s[i]
      /\ t[Len(s) + 1] = p
  OBVIOUS
<1> HIDE DEF t
<1>2. MessagesIn(t) = MessagesIn(s) \cup (IF p.kind = "message" THEN {p.msg} ELSE {})
  <2>1. \A m : m \in MessagesIn(t) <=> m \in MessagesIn(s) \/ (p.kind = "message" /\ p.msg = m)
    BY <1>1, MessageIn
  <2> QED
    BY <2>1
<1>3. ASSUME NEW msgs, Ascending(s, msgs), p.kind # "message"
      PROVE  Ascending(t, msgs)
  <2>1. \A k \in DOMAIN t : t[k].kind = "message" => k \in DOMAIN s /\ t[k] = s[k]
    BY <1>1, <1>3
  <2> QED
    BY <1>3, <2>1 DEF Ascending
<1> QED
  BY <1>2, <1>3 DEF t

\* The next message is pushed.
LEMMA AscendingPush ==
  ASSUME NEW s \in Seq(Packets), NEW msgs \in Seq(Sent), msgs # <<>>,
         NEW p \in Packets, p.kind = "message", p.msg = Head(msgs),
         Ascending(s, msgs)
  PROVE  /\ Ascending(Append(s, p), Tail(msgs))
         /\ Range(msgs) = Range(Tail(msgs)) \cup {Head(msgs)}
<1> DEFINE t == Append(s, p)
           r == Tail(msgs)
           n == Len(r)
<1>1. /\ Len(s) \in Nat /\ DOMAIN t = 1..(Len(s) + 1) /\ DOMAIN s = 1..Len(s)
      /\ \A i \in 1..Len(s) : t[i] = s[i]
      /\ t[Len(s) + 1] = p
  OBVIOUS
<1>2. /\ n \in Nat /\ DOMAIN r = 1..n /\ DOMAIN msgs = 1..(n + 1)
      /\ \A i \in 1..n : r[i] = msgs[i + 1]
      /\ Head(msgs) = msgs[1]
  <2>1. r \in Seq(Sent) /\ Len(r) = Len(msgs) - 1 /\ \A i \in 1..Len(r) : r[i] = msgs[i + 1]
    BY HeadTailProperties
  <2>2. /\ Len(r) \in Nat /\ DOMAIN r = 1..Len(r) /\ Len(msgs) \in Nat
        /\ DOMAIN msgs = 1..Len(msgs)
    BY <2>1, LenProperties
  <2>3. Head(msgs) = msgs[1]
    OBVIOUS
  <2> QED
    BY <2>1, <2>2, <2>3
<1> HIDE DEF t, r, n
<1>3. /\ \A j \in DOMAIN r : j + 1 \in DOMAIN msgs /\ r[j] = msgs[j + 1] /\ 1 < j + 1
      /\ 1 \in DOMAIN msgs /\ p.msg = msgs[1]
  <2>1. \A j \in 1..n : j + 1 \in 1..(n + 1) /\ 1 < j + 1
    BY <1>2
  <2>2. 1 \in 1..(n + 1)
    BY <1>2
  <2>3. p.msg = msgs[1]
    BY <1>2
  <2> QED
    BY <1>2, <2>1, <2>2, <2>3
<1>4. \A k \in DOMAIN t : (k \in DOMAIN s /\ t[k] = s[k]) \/ (k = Len(s) + 1 /\ t[k] = p)
  BY <1>1
<1>5. ASSUME NEW k \in DOMAIN t, NEW l \in DOMAIN t, k < l,
             t[k].kind = "message", t[l].kind = "message"
      PROVE  t[k].msg < t[l].msg
  <2>1. k \in DOMAIN s /\ t[k] = s[k]
    BY <1>1, <1>5
  <2>2. CASE l \in DOMAIN s /\ t[l] = s[l]
    BY <1>5, <2>1, <2>2 DEF Ascending
  <2>3. CASE t[l] = p
    BY <1>3, <1>5, <2>1, <2>3 DEF Ascending
  <2> QED
    BY <1>4, <2>2, <2>3
<1>6. ASSUME NEW k \in DOMAIN t, NEW j \in DOMAIN r, t[k].kind = "message"
      PROVE  t[k].msg < r[j]
  <2>1. CASE k \in DOMAIN s /\ t[k] = s[k]
    BY <1>3, <1>6, <2>1 DEF Ascending
  <2>2. CASE t[k] = p
    BY <1>3, <2>2 DEF Ascending
  <2> QED
    BY <1>4, <2>1, <2>2
<1>7. ASSUME NEW i \in DOMAIN r, NEW j \in DOMAIN r, i < j
      PROVE  r[i] < r[j]
  <2>1. i + 1 < j + 1
    BY <1>2, <1>7
  <2> QED
    BY <1>3, <2>1 DEF Ascending
<1>8. \A x : x \in Range(msgs) <=> x \in Range(r) \/ x = msgs[1]
  <2>1. \A j \in DOMAIN msgs : j = 1 \/ (j - 1 \in DOMAIN r /\ r[j - 1] = msgs[j])
    BY <1>2
  <2>2. \A x : x \in Range(msgs) => x \in Range(r) \/ x = msgs[1]
    BY <2>1 DEF Range
  <2>3. \A x : x \in Range(r) => x \in Range(msgs)
    BY <1>3 DEF Range
  <2>4. msgs[1] \in Range(msgs)
    BY <1>3 DEF Range
  <2> QED
    BY <2>2, <2>3, <2>4
<1>9. Ascending(t, r)
  BY <1>5, <1>6, <1>7 DEF Ascending
<1>10. Range(msgs) = Range(r) \cup {Head(msgs)}
  BY <1>2, <1>8
<1> QED
  BY <1>9, <1>10 DEF t, r

\* The next packet is read.
LEMMA AscendingTail ==
  ASSUME NEW s \in Seq(Packets), s # <<>>, NEW msgs \in Seq(Sent)
  PROVE  /\ MessagesIn(s) =
              MessagesIn(Tail(s)) \cup (IF Head(s).kind = "message" THEN {Head(s).msg} ELSE {})
         /\ Ascending(s, msgs) =>
              /\ Ascending(Tail(s), msgs)
              /\ Head(s).kind = "message" =>
                   \A m \in MessagesIn(Tail(s)) \cup Range(msgs) : Head(s).msg < m
<1> DEFINE t == Tail(s)
           n == Len(t)
<1>1. /\ n \in Nat /\ DOMAIN t = 1..n /\ DOMAIN s = 1..(n + 1)
      /\ \A i \in 1..n : t[i] = s[i + 1]
      /\ Head(s) = s[1]
  <2>1. t \in Seq(Packets) /\ Len(t) = Len(s) - 1 /\ \A i \in 1..Len(t) : t[i] = s[i + 1]
    BY HeadTailProperties
  <2>2. Len(t) \in Nat /\ DOMAIN t = 1..Len(t) /\ Len(s) \in Nat /\ DOMAIN s = 1..Len(s)
    BY <2>1, LenProperties
  <2>3. Head(s) = s[1]
    OBVIOUS
  <2> QED
    BY <2>1, <2>2, <2>3
<1> HIDE DEF t, n
<1>2. \A j \in DOMAIN s : j = 1 \/ (j - 1 \in DOMAIN t /\ t[j - 1] = s[j])
  BY <1>1
<1>3. \A i \in DOMAIN t : i + 1 \in DOMAIN s /\ t[i] = s[i + 1] /\ 1 < i + 1
  BY <1>1
<1>4. 1 \in DOMAIN s
  BY <1>1
<1>5. MessagesIn(s) = MessagesIn(t) \cup (IF s[1].kind = "message" THEN {s[1].msg} ELSE {})
  <2>1. \A m : m \in MessagesIn(s) => m \in MessagesIn(t) \/ (s[1].kind = "message" /\ s[1].msg = m)
    BY <1>2, MessageIn
  <2>2. ASSUME NEW m \in MessagesIn(t) PROVE m \in MessagesIn(s)
    <3>1. PICK k \in DOMAIN t : t[k].kind = "message" /\ t[k].msg = m
      BY MessageIn
    <3>2. k + 1 \in DOMAIN s /\ s[k + 1] = t[k]
      BY <1>3
    <3> QED
      BY <3>1, <3>2, MessageIn
  <2>3. s[1].kind = "message" => s[1].msg \in MessagesIn(s)
    BY <1>4, MessageIn
  <2> QED
    BY <2>1, <2>2, <2>3
<1>6. ASSUME Ascending(s, msgs) PROVE Ascending(t, msgs)
  <2>1. ASSUME NEW k \in DOMAIN t, NEW l \in DOMAIN t, k < l,
               t[k].kind = "message", t[l].kind = "message"
        PROVE  t[k].msg < t[l].msg
    <3>1. /\ k + 1 \in DOMAIN s /\ s[k + 1] = t[k] /\ l + 1 \in DOMAIN s /\ s[l + 1] = t[l]
          /\ k + 1 < l + 1
      BY <1>1, <1>3, <2>1
    <3> QED
      BY <1>6, <2>1, <3>1 DEF Ascending
  <2>2. ASSUME NEW k \in DOMAIN t, NEW j \in DOMAIN msgs, t[k].kind = "message"
        PROVE  t[k].msg < msgs[j]
    BY <1>3, <1>6, <2>2 DEF Ascending
  <2> QED
    BY <1>6, <2>1, <2>2 DEF Ascending
<1>7. ASSUME Ascending(s, msgs), s[1].kind = "message",
             NEW m \in MessagesIn(t) \cup Range(msgs)
      PROVE  s[1].msg < m
  <2>1. CASE m \in MessagesIn(t)
    <3>1. PICK k \in DOMAIN t : t[k].kind = "message" /\ t[k].msg = m
      BY <2>1, MessageIn
    <3>2. k + 1 \in DOMAIN s /\ s[k + 1] = t[k] /\ 1 < k + 1
      BY <1>3
    <3> QED
      BY <1>4, <1>7, <3>1, <3>2 DEF Ascending
  <2>2. CASE m \in Range(msgs)
    BY <1>4, <1>7, <2>2 DEF Ascending, Range
  <2> QED
    BY <2>1, <2>2
<1> QED
  BY <1>1, <1>5, <1>6, <1>7 DEF t

\* One more message makes at most one more descent, and none if it is beyond the
\* last.
LEMMA DescentsAppend ==
  ASSUME NEW s \in Seq(Sent), NEW m \in Sent
  PROVE  /\ Cardinality(Descents(s)) \in Nat
         /\ Cardinality(Descents(Append(s, m))) \in Nat
         /\ Cardinality(Descents(Append(s, m))) <= Cardinality(Descents(s)) + 1
         /\ s = <<>> \/ s[Len(s)] < m =>
              Cardinality(Descents(Append(s, m))) = Cardinality(Descents(s))
<1> DEFINE t == Append(s, m)
           n == Len(s)
           D == Descents(s)
           E == Descents(t)
<1>1. /\ n \in Nat /\ Len(t) = n + 1
      /\ \A i \in 1..n : t[i] = s[i]
      /\ t[n + 1] = m
  OBVIOUS
<1>2. s = <<>> <=> n = 0
  OBVIOUS
<1>3. \A i \in 1..n : s[i] \in Nat
  BY SentMessages
<1>4. m \in Nat
  BY SentMessages
<1>5. D = {i \in 1..(n - 1) : s[i] >= s[i + 1]} /\ E = {i \in 1..n : t[i] >= t[i + 1]}
  BY <1>1 DEF Descents
<1> HIDE DEF t, n, D, E
<1>6. IsFiniteSet(D)
  <2>1. 1 \in Int /\ n \in Int
    BY <1>1
  <2>2. IsFiniteSet(1..n)
    BY <2>1, FS_Interval, Zenon
  <2>3. D \in SUBSET (1..n)
    BY <1>1, <1>5
  <2> QED
    BY <2>2, <2>3, FS_Subset
<1>7. Cardinality(D) \in Nat
  BY <1>6, FS_CardinalityType
<1>8. \A i : i \in 1..(n - 1) => i \in 1..n /\ i + 1 \in 1..n
  BY <1>1
<1>9. E = D \/ E = D \cup {n}
  <2>1. \A i \in 1..n : i = n \/ i \in 1..(n - 1)
    BY <1>1
  <2>2. \A i \in 1..(n - 1) : i \in E <=> i \in D
    BY <1>1, <1>5, <1>8
  <2>3. \A i : i \in E => i \in D \/ i = n
    BY <1>5, <2>1, <2>2
  <2>4. \A i : i \in D => i \in E
    BY <1>5, <2>2
  <2> QED
    BY <2>3, <2>4
<1>10. s = <<>> \/ s[n] < m => E = D
  <2>1. CASE n = 0
    BY <1>5, <2>1
  <2>2. CASE n # 0 /\ s[n] < m
    <3>1. n \in 1..n /\ t[n] = s[n] /\ s[n] \in Nat /\ t[n + 1] = m
      BY <1>1, <1>3, <2>2
    <3>2. n \notin E
      BY <1>4, <1>5, <2>2, <3>1
    <3> QED
      BY <1>9, <3>2
  <2> QED
    BY <1>2, <2>1, <2>2
<1>11. IsFiniteSet(D \cup {n}) /\ Cardinality(D \cup {n}) \in {Cardinality(D), Cardinality(D) + 1}
  BY <1>6, FS_AddElement
<1>12. Cardinality(E) \in {Cardinality(D), Cardinality(D) + 1}
  BY <1>9, <1>11
<1> QED
  BY <1>7, <1>10, <1>12 DEF t, n, D, E

-----------------------------------------------------------------------------
(***************************************************************************)
(* The order is kept: the steps of main() and the callback.                *)
(***************************************************************************)

LEMMA InitOrdered ==
  ASSUME TransportAssumption, Init
  PROVE  OInv
<1> USE DEF Init, TransportInit
<1>1. CommandOrder /\ FirstTry
  BY OrderEmpty DEF CommandOrder, FirstTry
<1>2. Received = <<>> /\ Coming = {}
  <2>1. <<>> \in Seq(Sent)
    OBVIOUS
  <2>2. Received = <<>>
    BY <2>1, ConcatEmptySeq DEF Received
  <2> QED
    BY <2>2, MessagesEmpty DEF Coming
<1>3. Cardinality(Descents(<<>>)) = 0
  <2>1. Descents(<<>>) = {}
    BY DEF Descents
  <2>2. Cardinality({}) = 0
    BY FS_EmptySet
  <2> QED
    BY <2>1, <2>2
<1>4. Flow
  BY <1>2, <1>3, MessagesEmpty DEF Flow
<1>5. NoGaps
  BY <1>2, MessagesEmpty DEF NoGaps
<1> QED
  BY <1>1, <1>4, <1>5 DEF OInv

\* Of Flow and NoGaps no step of main() changes anything.
LEMMA ConnectOrdered ==
  ASSUME IInv, OInv, Connect
  PROVE  OInv'
<1> USE DEF Connect, Connected, serverVars, clientVars, linkVars, transportVars
<1>1. ~subscribed
  BY DEF IInv, MailboxMade, OInv, CommandOrder
<1>2. CommandOrder' /\ FirstTry'
  BY DEF OInv, CommandOrder, FirstTry
<1>3. Flow' /\ NoGaps'
  BY DEF OInv, Flow, NoGaps, Coming, Received, Beyond
<1> QED
  BY <1>2, <1>3 DEF OInv

LEMMA IssueOrdered ==
  ASSUME IInv, OInv, Issue
  PROVE  OInv'
<1> DEFINE cmd == Script[pc]
<1>1. /\ pc \in 2..5 /\ pc \in DOMAIN Script /\ cmd \in Commands
      /\ cmd.op = "publish" <=> pc # 5
      /\ cmd.op = "subscribe" <=> pc = 5
  BY StepOps, ScriptSteps, ScriptCommands DEF IInv, MailboxMade, Issue, IsRequest
<1>2. /\ channel \in Seq(Commands) /\ channel' = Append(channel, cmd)
      /\ pc' = pc + 1 /\ main = "ready" /\ answer' = NoAnswer
      /\ UNCHANGED <<known, buffer, overrun, linkVars, serverVars, handled>>
  BY DEF Issue, Accepts, IInv, TypeOK
<1> HIDE DEF cmd
<1> USE DEF linkVars, serverVars
<1>3. ~HasOp(channel, "subscribe") /\ ~known /\ ~HasOp(written, "subscribe") /\ ~subscribed
  BY <1>1 DEF OInv, CommandOrder
<1>4. ~HasReply(incoming)
  BY <1>2 DEF IInv, RepliesTrue
<1>5. HasOp(channel', "subscribe") <=> pc = 5
  BY <1>1, <1>2, <1>3, OrderAppend
<1>6. SubscribeLast(channel')
  BY <1>1, <1>2, <1>3, OrderAppend DEF OInv, CommandOrder
<1>7. CommandOrder'
  BY <1>1, <1>2, <1>3, <1>5, <1>6 DEF OInv, CommandOrder
<1>8. FirstTry'
  BY <1>1, <1>2, <1>3, <1>4, <1>5 DEF OInv, FirstTry
<1>9. Flow' /\ NoGaps'
  BY <1>2 DEF OInv, Flow, NoGaps, Coming, Received, Beyond
<1> QED
  BY <1>7, <1>8, <1>9 DEF OInv

LEMMA AskOrdered ==
  ASSUME IInv, OInv, Ask
  PROVE  OInv'
<1>1. PICK cmd \in Requests(Script[pc]) : Accepts(cmd)
  BY DEF Ask
<1>2. /\ pc \in DOMAIN Script /\ pc \in 1..9 \ 2..5
      /\ IsRequest(Script[pc])
  BY StepOps DEF IInv, MailboxMade, Ask, IsRequest
<1>3. cmd \in Commands /\ cmd.op = Script[pc].op
  <2>1. CASE Script[pc].op = "delete"
    <3>1. PICK m \in listed : cmd = [op |-> "delete", msg |-> m]
      BY <1>1, <2>1 DEF Requests
    <3>2. m \in Sent
      BY DEF IInv, TypeOK
    <3> QED
      BY <2>1, <3>1, <3>2 DEF Commands
  <2>2. CASE Script[pc].op # "delete"
    BY <1>1, <1>2, <2>2, ScriptSteps, ScriptCommands DEF Requests
  <2> QED
    BY <2>1, <2>2
<1>4. cmd.op # "publish" /\ cmd.op # "subscribe"
  BY <1>2, <1>3 DEF IsRequest, Unawaited
<1>5. /\ channel \in Seq(Commands) /\ channel' = Append(channel, cmd)
      /\ main = "ready" /\ answer' = NoAnswer
      /\ UNCHANGED <<pc, known, buffer, overrun, linkVars, serverVars, handled>>
  BY <1>1 DEF Ask, Accepts, IInv, TypeOK
<1> USE DEF linkVars, serverVars
<1>6. ~HasReply(incoming)
  BY <1>5 DEF IInv, RepliesTrue
<1>7. /\ HasOp(channel', "subscribe") <=> HasOp(channel, "subscribe")
      /\ HasOp(channel', "publish") <=> HasOp(channel, "publish")
      /\ SubscribeLast(channel) => SubscribeLast(channel')
  BY <1>3, <1>4, <1>5, OrderAppend
<1>8. CommandOrder'
  BY <1>5, <1>7 DEF OInv, CommandOrder
<1>9. FirstTry'
  BY <1>5, <1>6, <1>7 DEF OInv, FirstTry
<1>10. Flow' /\ NoGaps'
  BY <1>5 DEF OInv, Flow, NoGaps, Coming, Received, Beyond
<1> QED
  BY <1>8, <1>9, <1>10 DEF OInv

\* While a subscription waits in a first connection, main() asks for the list.
LEMMA MainMovesOrdered ==
  ASSUME IInv, OInv, NothingToDelete \/ Return \/ Fail \/ TimeOut
  PROVE  OInv'
<1>1. /\ pc' = pc \/ (pc' = pc + 1 /\ (pc = 7 \/ answer # NoAnswer))
      /\ UNCHANGED <<handled, linkVars, serverVars, clientVars>>
  <2>1. CASE NothingToDelete
    <3>1. pc \in DOMAIN Script /\ pc = 7
      BY <2>1, StepOps DEF IInv, MailboxMade, NothingToDelete
    <3> QED
      BY <2>1, <3>1 DEF NothingToDelete, transportVars
  <2>2. CASE Return
    BY <2>2 DEF Return, Answered, transportVars
  <2>3. CASE Fail \/ TimeOut
    BY <2>3 DEF Fail, TimeOut, transportVars
  <2> QED
    BY <2>1, <2>2, <2>3
<1> USE DEF linkVars, serverVars, clientVars
<1>2. pc \in Nat
  BY ScriptSteps DEF IInv, TypeOK
<1>3. CommandOrder'
  BY <1>1, <1>2 DEF OInv, CommandOrder
<1>4. FirstTry'
  BY <1>1, <1>2 DEF OInv, FirstTry
<1>5. Flow' /\ NoGaps'
  BY <1>1 DEF OInv, Flow, NoGaps, Coming, Received, Beyond
<1> QED
  BY <1>3, <1>4, <1>5 DEF OInv

\* What the callback takes out of the buffer was received before.
LEMMA CallbackOrdered ==
  ASSUME IInv, OInv, Callback
  PROVE  OInv'
<1>1. /\ buffer # <<>> /\ buffer' = Tail(buffer) /\ handled' = Append(handled, Head(buffer))
      /\ UNCHANGED <<channel, known, answer, overrun, linkVars, serverVars, pc>>
  BY DEF Callback, StreamNext
<1> USE DEF linkVars, serverVars
<1>2. Received' = Received
  <2> DEFINE h == Head(buffer)
             r == Tail(buffer)
  <2>1. handled \in Seq(Sent) /\ buffer \in Seq(Sent)
    BY DEF IInv, TypeOK
  <2>2. h \in Sent /\ r \in Seq(Sent)
    BY <1>1, <2>1, HeadTailProperties
  <2>3. <<h>> \in Seq(Sent) /\ buffer = <<h>> \o r
    <3>1. /\ Len(buffer) \in Nat \ {0} /\ Len(r) = Len(buffer) - 1
          /\ \A i \in 1..Len(r) : r[i] = buffer[i + 1]
      BY <1>1, <2>1, HeadTailProperties, EmptySeq
    <3>2. 1 \in 1..Len(buffer) /\ Len(buffer) \in 1..Len(buffer)
      BY <3>1
    <3>3. buffer = SubSeq(buffer, 1, Len(buffer))
      BY <2>1, SubSeqFull
    <3>4. SubSeq(buffer, 1, Len(buffer)) = <<buffer[1]>> \o SubSeq(buffer, 1 + 1, Len(buffer))
      BY <2>1, <3>2, SubSeqRecursiveFirst
    <3>5. r = SubSeq(buffer, 2, Len(buffer))
      BY <1>1, <2>1, TailIsSubSeq
    <3>6. h = buffer[1] /\ 1 + 1 = 2
      OBVIOUS
    <3>7. buffer = <<h>> \o r
      BY <3>3, <3>4, <3>5, <3>6
    <3> QED
      BY <2>2, <3>7
  <2>4. Append(handled, h) = handled \o <<h>>
    BY <2>1, <2>2, AppendIsConcat
  <2> HIDE DEF h, r
  <2>5. (handled \o <<h>>) \o r = handled \o (<<h>> \o r)
    BY <2>1, <2>2, <2>3, ConcatAssociative
  <2> QED
    BY <1>1, <2>3, <2>4, <2>5 DEF Received, h, r
<1>3. Coming' = Coming
  BY <1>1 DEF Coming
<1>4. CommandOrder' /\ FirstTry'
  BY <1>1 DEF OInv, CommandOrder, FirstTry
<1>5. Flow'
  BY <1>1, <1>2, <1>3 DEF OInv, Flow, Beyond
<1>6. NoGaps'
  BY <1>1, <1>2, <1>3 DEF OInv, NoGaps
<1> QED
  BY <1>4, <1>5, <1>6 DEF OInv

-----------------------------------------------------------------------------
(***************************************************************************)
(* The order is kept: the steps of the connection, the network and the     *)
(* server.                                                                 *)
(***************************************************************************)

LEMMA WriteOutOrdered ==
  ASSUME IInv, OInv, WriteOut, UNCHANGED demoVars
  PROVE  OInv'
<1> DEFINE cmd == Head(channel)
<1>1. /\ up /\ channel # <<>> /\ channel' = Tail(channel)
      /\ IF cmd.op = "flush"
         THEN answer' = Ok /\ UNCHANGED <<known, written>>
         ELSE /\ known' = (known \/ cmd.op = "subscribe")
              /\ written' = Append(written, cmd) /\ UNCHANGED answer
      /\ UNCHANGED <<up, incoming, lost, disconnects, buffer, overrun, serverVars, demoVars>>
  BY DEF WriteOut
<1>2. channel \in Seq(Commands) /\ written \in Seq(Commands) /\ known \in BOOLEAN
  BY DEF IInv, TypeOK
<1>3. /\ cmd \in Commands
      /\ \A op : HasOp(channel, op) <=> HasOp(channel', op) \/ cmd.op = op
      /\ SubscribeLast(channel')
      /\ cmd.op = "subscribe" => ~HasOp(channel', "publish") /\ ~HasOp(channel', "subscribe")
  BY <1>1, <1>2, OrderTail, HeadTailProperties DEF OInv, CommandOrder
<1> HIDE DEF cmd
<1> USE DEF serverVars, demoVars
<1>4. Flow' /\ NoGaps'
  BY <1>1 DEF OInv, Flow, NoGaps, Coming, Received, Beyond
<1>5. CASE cmd.op = "flush"
  <2>1. known' = known /\ written' = written
    BY <1>1, <1>5
  <2>2. CommandOrder'
    BY <1>1, <1>3, <2>1 DEF OInv, CommandOrder
  <2>3. pc = 9
    <3>1. IsRequest(cmd) /\ Fits(cmd, pc, listed)
      BY <1>1, <1>2, <1>5, QueueTail DEF cmd, IsRequest, Unawaited, IInv, OneRequest
    <3>2. pc \in DOMAIN Script /\ Script[pc].op = "flush"
      BY <1>5, <3>1 DEF Fits
    <3> QED
      BY <3>2, StepOps
  <2>4. FirstTry'
    BY <1>1, <1>3, <2>1, <2>3 DEF OInv, FirstTry
  <2> QED
    BY <1>4, <2>2, <2>4 DEF OInv
<1>6. CASE cmd.op # "flush"
  <2>1. /\ known' = (known \/ cmd.op = "subscribe")
        /\ written' = Append(written, cmd) /\ answer' = answer
    BY <1>1, <1>6
  <2>2. known => cmd.op # "subscribe" /\ cmd.op # "publish"
    BY <1>3 DEF OInv, CommandOrder
  <2>3. /\ \A op : HasOp(written', op) <=> HasOp(written, op) \/ cmd.op = op
        /\ SubscribeLast(written')
    BY <1>2, <1>3, <2>1, <2>2, OrderAppend DEF OInv, CommandOrder
  <2>4. CommandOrder'
    BY <1>1, <1>2, <1>3, <2>1, <2>2, <2>3 DEF OInv, CommandOrder
  <2>5. FirstTry'
    BY <1>1, <1>3, <2>1, <2>3 DEF OInv, FirstTry
  <2> QED
    BY <1>4, <2>4, <2>5 DEF OInv
<1> QED
  BY <1>5, <1>6

LEMMA ReadReplyOrdered ==
  ASSUME IInv, OInv, ReadReply, UNCHANGED demoVars
  PROVE  OInv'
<1>1. /\ incoming # <<>> /\ Head(incoming).kind # "message" /\ incoming' = Tail(incoming)
      /\ UNCHANGED <<up, written, lost, disconnects, channel, known, buffer, overrun,
                     serverVars, demoVars>>
  BY DEF ReadReply
<1>2. incoming \in Seq(Packets) /\ pending \in Seq(Sent)
  BY DEF IInv, TypeOK, Packets
<1> USE DEF serverVars, demoVars
<1>3. HasReply(incoming)
  BY <1>1, <1>2, PacketTail
<1>4. CommandOrder' /\ FirstTry'
  BY <1>1, <1>3 DEF OInv, CommandOrder, FirstTry
<1>5. MessagesIn(incoming') = MessagesIn(incoming) /\ Ascending(incoming', pending')
  <2>1. MessagesIn(incoming) =
          MessagesIn(incoming') \cup (IF Head(incoming).kind = "message"
                                     THEN {Head(incoming).msg} ELSE {})
    BY <1>1, <1>2, AscendingTail
  <2>2. MessagesIn(incoming') = MessagesIn(incoming)
    BY <1>1, <2>1
  <2>3. Ascending(incoming', pending')
    BY <1>1, <1>2, AscendingTail DEF OInv, Flow
  <2> QED
    BY <2>2, <2>3
<1>6. Coming' = Coming /\ Received' = Received
  BY <1>1, <1>5 DEF Coming, Received
<1>7. Flow'
  BY <1>1, <1>5, <1>6 DEF OInv, Flow, Beyond
<1>8. NoGaps'
  BY <1>1, <1>6 DEF OInv, NoGaps
<1> QED
  BY <1>4, <1>7, <1>8 DEF OInv

\* The message read is the least of those to come: it is beyond the last one
\* received, if there was no disconnect since.
LEMMA ReadMessageOrdered ==
  ASSUME TransportAssumption, IInv, OInv, ReadMessage, UNCHANGED demoVars
  PROVE  OInv'
<1> DEFINE p == Head(incoming)
           m == p.msg
<1>1. /\ incoming # <<>> /\ p.kind = "message" /\ incoming' = Tail(incoming)
      /\ \/ buffer' = Append(buffer, m) /\ overrun' = overrun
         \/ buffer' = buffer /\ overrun' = overrun \cup {m}
      /\ UNCHANGED <<up, written, lost, disconnects, channel, known, answer, serverVars, demoVars>>
  BY DEF ReadMessage
<1>2. /\ incoming \in Seq(Packets) /\ pending \in Seq(Sent)
      /\ buffer \in Seq(Sent) /\ handled \in Seq(Sent)
  BY DEF IInv, TypeOK, Packets
<1>3. /\ p \in Packets
      /\ HasReply(incoming) <=> HasReply(incoming')
  BY <1>1, <1>2, PacketTail
<1>4. m \in Sent
  BY <1>1, <1>3, ReplyKinds DEF Packets
<1>5. /\ MessagesIn(incoming) = MessagesIn(incoming') \cup {m}
      /\ Ascending(incoming', pending)
      /\ \A x \in MessagesIn(incoming') \cup Range(pending) : m < x
  BY <1>1, <1>2, AscendingTail DEF OInv, Flow
<1> HIDE DEF p, m
<1> USE DEF serverVars, demoVars
<1>6. Coming = Coming' \cup {m} /\ \A x \in Coming' : m < x
  BY <1>1, <1>5 DEF Coming
<1>7. subscribed
  BY <1>6 DEF OInv, Flow
<1>8. CommandOrder' /\ FirstTry'
  BY <1>1, <1>3 DEF OInv, CommandOrder, FirstTry
<1>9. Received \in Seq(Sent)
  BY <1>2, ConcatProperties DEF Received
<1>10. CASE buffer' = buffer /\ overrun' = overrun \cup {m}
  <2>1. Received' = Received
    BY <1>1, <1>10 DEF Received
  <2>2. Beyond => Beyond'
    BY <1>6, <2>1 DEF Beyond
  <2>3. Flow'
    BY <1>1, <1>5, <1>7, <2>1, <2>2 DEF OInv, Flow
  <2>4. NoGaps'
    BY <1>1, <1>6, <1>10, <2>1 DEF OInv, NoGaps
  <2> QED
    BY <1>8, <2>3, <2>4 DEF OInv
<1>11. CASE buffer' = Append(buffer, m) /\ overrun' = overrun
  <2> DEFINE n == Len(Received)
             d == Cardinality(Descents(Received))
             e == Cardinality(Descents(Received'))
  <2>1. Received' = Append(Received, m)
    <3>1. Append(buffer, m) = buffer \o <<m>> /\ <<m>> \in Seq(Sent)
      BY <1>2, <1>4, AppendIsConcat
    <3>2. (handled \o buffer) \o <<m>> = handled \o (buffer \o <<m>>)
      BY <1>2, <3>1, ConcatAssociative
    <3>3. Append(Received, m) = Received \o <<m>>
      BY <1>4, <1>9, AppendIsConcat
    <3> QED
      BY <1>1, <1>11, <3>1, <3>2, <3>3 DEF Received
  <2>2. /\ n \in Nat /\ Len(Received') = n + 1
        /\ Received' # <<>> /\ Received'[n + 1] = m
    BY <1>4, <1>9, <2>1, AppendProperties
  <2>3. Range(Received') = Range(Received) \cup {m}
    <3>1. /\ DOMAIN Received = 1..n /\ DOMAIN Received' = 1..(n + 1)
          /\ \A i \in 1..n : Received'[i] = Received[i]
      BY <1>4, <1>9, <2>1
    <3>2. \A i : i \in 1..(n + 1) <=> i \in 1..n \/ i = n + 1
      BY <2>2
    <3> HIDE DEF n
    <3> QED
      BY <2>2, <3>1, <3>2 DEF Range
  <2>4. /\ d \in Nat /\ e \in Nat /\ e <= d + 1
        /\ Received = <<>> \/ Received[n] < m => e = d
    BY <1>4, <1>9, <2>1, DescentsAppend
  <2>5. disconnects \in Nat
    BY DEF IInv, TypeOK, TransportAssumption
  <2>6. e <= disconnects
    <3>1. CASE Received = <<>> \/ Beyond
      <4>1. Received = <<>> \/ Received[n] < m
        BY <1>6, <3>1 DEF Beyond
      <4>2. d <= disconnects
        BY DEF OInv, Flow
      <4> QED
        BY <2>4, <4>1, <4>2
    <3>2. CASE Received # <<>> /\ ~Beyond
      <4>1. d + 1 <= disconnects
        BY <3>2 DEF OInv, Flow
      <4> HIDE DEF d, e
      <4> QED
        BY <2>4, <2>5, <4>1
    <3> QED
      BY <3>1, <3>2
  <2>7. Beyond'
    BY <1>6, <2>2 DEF Beyond
  <2>8. Flow'
    BY <1>1, <1>5, <1>7, <2>6, <2>7 DEF Flow
  <2>9. ASSUME disconnects = 0, NEW y \in Sent
        PROVE  /\ \A x \in Range(Received') : y < x => y \in Range(Received') \cup overrun'
               /\ \A x \in Coming' : y < x => y \in Range(Received') \cup overrun' \cup Coming'
    <3>1. \A x \in Coming : y < x => y \in Range(Received) \cup overrun \cup Coming
      BY <2>9 DEF OInv, NoGaps
    <3>2. \A x \in Range(Received) : y < x => y \in Range(Received) \cup overrun
      BY <2>9 DEF OInv, NoGaps
    <3>3. \A x \in Coming' : y < x => y \in Range(Received') \cup overrun' \cup Coming'
      BY <1>6, <1>11, <2>3, <3>1
    <3>4. y < m => y \in Range(Received) \cup overrun
      <4>1. ASSUME y < m, y \in Coming PROVE FALSE
        <5>1. y \in Nat /\ m \in Nat
          BY <1>4, SentMessages
        <5>2. y = m \/ m < y
          BY <1>6, <4>1
        <5> QED
          BY <4>1, <5>1, <5>2
      <4>2. m \in Coming
        BY <1>6
      <4> QED
        BY <3>1, <4>1, <4>2
    <3>5. \A x \in Range(Received') : y < x => y \in Range(Received') \cup overrun'
      BY <1>11, <2>3, <3>2, <3>4
    <3> QED
      BY <3>3, <3>5
  <2>10. NoGaps'
    BY <1>1, <2>9 DEF NoGaps
  <2> QED
    BY <1>8, <2>8, <2>10 DEF OInv
<1> QED
  BY <1>1, <1>10, <1>11

LEMMA DisconnectOrdered ==
  ASSUME TransportAssumption, IInv, OInv, Disconnect, UNCHANGED demoVars
  PROVE  OInv'
<1>1. /\ up' = FALSE /\ disconnects' = disconnects + 1
      /\ written' = <<>> /\ incoming' = <<>> /\ subscribed' = FALSE /\ pending' = <<>>
      /\ UNCHANGED <<clientVars, demoVars>>
  BY DEF Disconnect
<1> USE DEF clientVars, demoVars
<1>2. disconnects \in Nat /\ disconnects' # 0
  BY <1>1 DEF IInv, TypeOK, TransportAssumption
<1>3. CommandOrder' /\ FirstTry' /\ NoGaps'
  BY <1>1, <1>2, OrderEmpty DEF OInv, CommandOrder, FirstTry, NoGaps
<1>4. Coming' = {} /\ Ascending(incoming', pending') /\ Received' = Received
  BY <1>1, MessagesEmpty DEF Coming, Received
<1>5. Flow'
  <2> DEFINE d == Cardinality(Descents(Received))
  <2>1. d \in Nat
    <3>1. Received \in Seq(Sent) /\ 1 \in Sent
      BY ConcatProperties, SentMessages DEF IInv, TypeOK, Received
    <3> QED
      BY <3>1, DescentsAppend
  <2>2. d <= disconnects
    BY DEF OInv, Flow
  <2> HIDE DEF d
  <2>3. d <= disconnects + 1 /\ d + 1 <= disconnects + 1
    BY <1>2, <2>1, <2>2
  <2> QED
    BY <1>1, <1>4, <2>3 DEF Flow, d
<1> QED
  BY <1>3, <1>5 DEF OInv

LEMMA ReconnectOrdered ==
  ASSUME IInv, OInv, Reconnect, UNCHANGED demoVars
  PROVE  OInv'
<1>1. /\ ~up /\ up' = TRUE /\ disconnects > 0
      /\ written' = IF known THEN <<[op |-> "subscribe"]>> ELSE <<>>
      /\ UNCHANGED <<incoming, lost, disconnects, serverVars, clientVars, demoVars>>
  BY DEF Reconnect
<1> USE DEF serverVars, clientVars, demoVars
<1>2. /\ SubscribeLast(written') /\ ~HasOp(written', "publish")
      /\ HasOp(written', "subscribe") => known
  <2> DEFINE cmd == [op |-> "subscribe"]
  <2>1. cmd \in Commands /\ cmd.op = "subscribe"
    BY ScriptSteps, ScriptCommands
  <2>2. <<>> \in Seq(Commands) /\ <<cmd>> = Append(<<>>, cmd)
    OBVIOUS
  <2> HIDE DEF cmd
  <2>3. SubscribeLast(Append(<<>>, cmd)) /\ ~HasOp(Append(<<>>, cmd), "publish")
    BY <2>1, <2>2, OrderAppend, OrderEmpty
  <2>4. (known /\ written' = Append(<<>>, cmd)) \/ written' = <<>>
    BY <1>1, <2>2 DEF cmd
  <2> QED
    BY <2>3, <2>4, OrderEmpty
<1>3. CommandOrder'
  BY <1>1, <1>2 DEF OInv, CommandOrder
<1>4. disconnects' # 0
  BY <1>1 DEF IInv, TypeOK
<1>5. FirstTry' /\ NoGaps'
  BY <1>4 DEF FirstTry, NoGaps
<1>6. Flow'
  BY <1>1 DEF OInv, Flow, Coming, Received, Beyond
<1> QED
  BY <1>3, <1>5, <1>6 DEF OInv

LEMMA PushOrdered ==
  ASSUME IInv, OInv, Push, UNCHANGED demoVars
  PROVE  OInv'
<1> DEFINE p == [kind |-> "message", msg |-> Head(pending)]
<1>1. /\ pending # <<>> /\ pending' = Tail(pending) /\ incoming' = Append(incoming, p)
      /\ UNCHANGED <<up, written, lost, disconnects, subscribed, mailbox, stored,
                     clientVars, demoVars>>
  BY DEF Push
<1>2. pending \in Seq(Sent) /\ incoming \in Seq(Packets)
  BY DEF IInv, TypeOK, Packets
<1>3. p \in Packets /\ p.kind = "message" /\ p.msg = Head(pending)
  BY <1>1, <1>2, HeadTailProperties DEF Packets
<1> HIDE DEF p
<1> USE DEF clientVars, demoVars
<1>4. HasReply(incoming') <=> HasReply(incoming)
  BY <1>1, <1>2, <1>3, PacketAppend
<1>5. /\ Ascending(incoming', pending')
      /\ Range(pending) = Range(pending') \cup {p.msg}
  BY <1>1, <1>2, <1>3, AscendingPush DEF OInv, Flow
<1>6. MessagesIn(incoming') = MessagesIn(incoming) \cup {p.msg}
  BY <1>1, <1>2, <1>3, MessagesAppend
<1>7. Coming' = Coming /\ Received' = Received
  BY <1>1, <1>5, <1>6 DEF Coming, Received
<1>8. CommandOrder' /\ FirstTry'
  BY <1>1, <1>4 DEF OInv, CommandOrder, FirstTry
<1>9. Flow'
  BY <1>1, <1>5, <1>7 DEF OInv, Flow, Beyond
<1>10. NoGaps'
  BY <1>1, <1>7 DEF OInv, NoGaps
<1> QED
  BY <1>8, <1>9, <1>10 DEF OInv

LEMMA ExpireOrdered ==
  ASSUME OInv, Expire, UNCHANGED demoVars
  PROVE  OInv'
<1>1. UNCHANGED <<subscribed, pending, linkVars, clientVars, demoVars>>
  BY DEF Expire
<1> USE DEF linkVars, clientVars, demoVars
<1>2. CommandOrder' /\ FirstTry'
  BY <1>1 DEF OInv, CommandOrder, FirstTry
<1>3. Flow' /\ NoGaps'
  BY <1>1 DEF OInv, Flow, NoGaps, Coming, Received, Beyond
<1> QED
  BY <1>2, <1>3 DEF OInv

\* The subscription replays what is stored in a first connection all at once: main()
\* waits for the list, so that all was sent and nothing is deleted yet.
LEMMA ServeOrdered ==
  ASSUME IInv, OInv, Serve, UNCHANGED demoVars
  PROVE  OInv'
<1> DEFINE cmd == Head(written)
<1>1. /\ written # <<>> /\ written' = Tail(written)
      /\ UNCHANGED <<up, lost, disconnects, clientVars, demoVars>>
  BY DEF Serve
<1>2. /\ written \in Seq(Commands) /\ incoming \in Seq(Packets) /\ pending \in Seq(Sent)
      /\ stored \subseteq Sent /\ subscribed \in BOOLEAN
  BY DEF IInv, TypeOK, Packets
<1>3. /\ cmd \in Commands
      /\ \A op : HasOp(written, op) <=> HasOp(written', op) \/ cmd.op = op
      /\ SubscribeLast(written')
      /\ cmd.op = "subscribe" => ~HasOp(written', "publish") /\ ~HasOp(written', "subscribe")
  BY <1>1, <1>2, OrderTail, HeadTailProperties DEF OInv, CommandOrder
<1>4. cmd.op # "flush"
  BY <1>1, <1>2, QueueTail DEF IInv, OneRequest
<1>5. /\ cmd.op = "publish" => Store(cmd.msg)
      /\ cmd.op = "subscribe" => Replay
      /\ IsRequest(cmd) => UNCHANGED <<subscribed, pending>> /\ \E r \in Replies : Reply(r)
  <2>1. /\ cmd.op = "create" => Create
        /\ cmd.op = "createPublic" => CreatePublic
        /\ cmd.op = "publish" => Store(cmd.msg)
        /\ cmd.op = "subscribe" => Replay
        /\ cmd.op = "list" => List
        /\ cmd.op = "delete" => Delete(cmd.msg)
    BY DEF Serve
  <2>2. IsRequest(cmd) => cmd.op \in {"create", "createPublic", "list", "delete"}
    <3>1. (\E i \in 1..9 : cmd = Script[i]) \/ (\E m \in Sent : cmd = [op |-> "delete", msg |-> m])
      BY <1>3, ScriptSteps DEF Commands
    <3>2. CASE \E m \in Sent : cmd = [op |-> "delete", msg |-> m]
      BY <3>2
    <3>3. CASE \E i \in 1..9 : cmd = Script[i]
      BY <1>4, <3>3, ScriptOps DEF IsRequest, Unawaited
    <3> QED
      BY <3>1, <3>2, <3>3
  <2> HIDE DEF cmd
  <2>3. ASSUME Create PROVE UNCHANGED <<subscribed, pending>> /\ \E r \in Replies : Reply(r)
    BY <2>3, ReplyKinds DEF Create
  <2>4. ASSUME CreatePublic PROVE UNCHANGED <<subscribed, pending>> /\ \E r \in Replies : Reply(r)
    BY <2>4, ReplyKinds DEF CreatePublic, serverVars
  <2>5. ASSUME List PROVE UNCHANGED <<subscribed, pending>> /\ \E r \in Replies : Reply(r)
    BY <1>2, <2>5, ReplyKinds DEF List, serverVars
  <2>6. ASSUME Delete(cmd.msg)
        PROVE  UNCHANGED <<subscribed, pending>> /\ \E r \in Replies : Reply(r)
    BY <2>6, ReplyKinds DEF Delete
  <2> QED
    BY <2>1, <2>2, <2>3, <2>4, <2>5, <2>6
<1> HIDE DEF cmd
<1> USE DEF clientVars, demoVars
<1>6. CASE IsRequest(cmd)
  <2>1. written' = <<>> /\ channel = <<>>
    BY <1>1, <1>2, <1>6, QueueTail DEF cmd, IInv, OneRequest
  <2>2. PICK r \in Replies : incoming' = Append(incoming, r)
    BY <1>5, <1>6 DEF Reply
  <2>3. r \in Packets /\ r.kind # "message"
    BY ReplyKinds DEF Packets
  <2>4. MessagesIn(incoming') = MessagesIn(incoming) \cup {}
    BY <1>2, <2>2, <2>3, MessagesAppend
  <2>5. Ascending(incoming', pending)
    BY <1>2, <2>2, <2>3, MessagesAppend DEF OInv, Flow
  <2>6. UNCHANGED <<subscribed, pending>>
    BY <1>5, <1>6
  <2>7. Coming' = Coming /\ Received' = Received
    BY <1>1, <2>4, <2>6 DEF Coming, Received
  <2>8. CommandOrder' /\ FirstTry'
    BY <1>1, <2>1, <2>6, OrderEmpty DEF OInv, CommandOrder, FirstTry
  <2>9. Flow'
    BY <1>1, <2>5, <2>6, <2>7 DEF OInv, Flow, Beyond
  <2>10. NoGaps'
    BY <1>1, <2>7 DEF OInv, NoGaps
  <2> QED
    BY <2>8, <2>9, <2>10 DEF OInv
<1>7. CASE cmd.op = "publish"
  <2>1. ~subscribed
    BY <1>3, <1>7 DEF OInv, CommandOrder
  <2>2. UNCHANGED <<incoming, subscribed, pending>>
    BY <1>5, <1>7, <2>1 DEF Store
  <2>3. CommandOrder' /\ FirstTry'
    BY <1>1, <1>3, <2>1, <2>2 DEF OInv, CommandOrder, FirstTry
  <2>4. Flow' /\ NoGaps'
    BY <1>1, <2>2 DEF OInv, Flow, NoGaps, Coming, Received, Beyond
  <2> QED
    BY <2>3, <2>4 DEF OInv
<1>8. CASE cmd.op = "subscribe"
  <2>1. HasOp(written, "subscribe") /\ known /\ ~subscribed /\ up
    BY <1>1, <1>3, <1>8 DEF OInv, CommandOrder, IInv, MailboxMade
  <2>2. Coming = {} /\ MessagesIn(incoming) = {}
    BY <2>1 DEF OInv, Flow, Coming
  <2>3. /\ subscribed' = TRUE /\ pending' \in [1..Cardinality(stored) -> stored]
        /\ \A i, j \in DOMAIN pending' : i < j => pending'[i] < pending'[j]
        /\ incoming' = incoming
    BY <1>5, <1>8 DEF Replay
  <2>4. ~HasOp(written', "publish") /\ ~HasOp(written', "subscribe") /\ ~HasOp(channel, "publish")
    BY <1>3, <1>8, <2>1 DEF OInv, CommandOrder
  <2>5. CommandOrder'
    BY <1>1, <1>3, <2>1, <2>3, <2>4 DEF OInv, CommandOrder
  <2>6. FirstTry'
    BY <1>1, <1>3, <2>3 DEF OInv, FirstTry
  <2>7. Received' = Received
    BY <1>1 DEF Received
  <2>8. Ascending(incoming', pending')
    <3>1. \A k \in DOMAIN incoming : incoming[k].kind # "message"
      BY <2>2, MessageIn
    <3> QED
      BY <2>3, <3>1 DEF Ascending
  <2>9. Flow'
    BY <1>1, <2>1, <2>3, <2>7, <2>8 DEF OInv, Flow
  <2>10. ASSUME disconnects = 0, NEW x \in Coming'
         PROVE  Coming' = Sent
    <3>1. pc = 6 /\ lost = {}
      BY <2>1, <2>10 DEF OInv, FirstTry
    <3>2. Coming' = Range(pending')
      BY <2>2, <2>3 DEF Coming
    <3>3. PICK i \in DOMAIN pending' : x = pending'[i]
      BY <3>2 DEF Range
    <3>4. x \in stored
      BY <2>3, <3>3
    <3>5. mailbox = "there"
      BY <3>4 DEF IInv, MailboxMade
    <3>6. Published(written) = {} /\ Published(channel) = {}
      <4>1. Published(written) = Published(written') \cup (IF cmd.op = "publish" THEN {cmd.msg} ELSE {})
        BY <1>1, <1>2, QueueTail DEF cmd
      <4>2. Published(written') = {} /\ Published(channel) = {}
        BY <2>4, NonePublished
      <4> QED
        BY <1>8, <4>1, <4>2
    <3>7. stored = 1..3
      <4>1. Accepted(pc) = 1..3
        BY <3>1, SentMessages DEF Accepted
      <4>2. Accepted(pc) \subseteq stored
        BY <3>1, <3>5, <3>6 DEF IInv, SendsKept, Queued
      <4> QED
        BY <1>2, <4>1, <4>2, SentMessages
    <3>8. Cardinality(1..3) = 3
      <4>1. 1 \in Int /\ 3 \in Int
        OBVIOUS
      <4>2. Cardinality(1..3) = IF 1 > 3 THEN 0 ELSE 3 - 1 + 1
        BY <4>1, FS_Interval, Zenon
      <4> QED
        BY <4>2
    <3>9. /\ DOMAIN pending' = 1..3
          /\ pending'[1] \in 1..3 /\ pending'[2] \in 1..3 /\ pending'[3] \in 1..3
      <4>1. pending' \in [1..3 -> 1..3]
        BY <2>3, <3>7, <3>8
      <4> QED
        BY <4>1
    <3>10. pending'[1] < pending'[2] /\ pending'[2] < pending'[3]
      BY <2>3, <3>9
    <3>11. pending'[1] = 1 /\ pending'[2] = 2 /\ pending'[3] = 3
      BY <3>9, <3>10
    <3>12. \A m \in 1..3 : m \in DOMAIN pending' /\ pending'[m] = m
      <4> SUFFICES ASSUME NEW m \in 1..3 PROVE pending'[m] = m
        BY <3>9
      <4>1. m = 1 \/ m = 2 \/ m = 3
        OBVIOUS
      <4> QED
        BY <3>11, <4>1
    <3>13. Range(pending') = 1..3
      BY <3>9, <3>12 DEF Range
    <3> QED
      BY <3>2, <3>13, SentMessages
  <2>11. NoGaps'
    BY <1>1, <2>7, <2>10 DEF OInv, NoGaps
  <2> QED
    BY <2>5, <2>6, <2>9, <2>11 DEF OInv
<1> QED
  BY <1>6, <1>7, <1>8 DEF IsRequest, Unawaited

LEMMA NextOrdered ==
  ASSUME TransportAssumption, IInv, OInv, [Next]_vars
  PROVE  OInv'
<1>1. CASE Main
  BY <1>1, ConnectOrdered, IssueOrdered, AskOrdered, MainMovesOrdered DEF Main
<1>2. CASE Callback
  BY <1>2, CallbackOrdered
<1>3. CASE (WriteOut \/ ReadReply \/ ReadMessage \/ Disconnect \/ Reconnect) /\ UNCHANGED demoVars
  BY <1>3, WriteOutOrdered, ReadReplyOrdered, ReadMessageOrdered, DisconnectOrdered,
     ReconnectOrdered
<1>4. CASE (Serve \/ Push \/ Expire) /\ UNCHANGED demoVars
  BY <1>4, ServeOrdered, PushOrdered, ExpireOrdered
<1>5. CASE UNCHANGED vars
  <2> USE DEF vars, transportVars, linkVars, serverVars, clientVars, demoVars
  <2>1. CommandOrder' /\ FirstTry'
    BY <1>5 DEF OInv, CommandOrder, FirstTry
  <2>2. Flow' /\ NoGaps'
    BY <1>5 DEF OInv, Flow, NoGaps, Coming, Received, Beyond
  <2> QED
    BY <2>1, <2>2 DEF OInv
<1> QED
  BY <1>1, <1>2, <1>3, <1>4, <1>5 DEF Next

-----------------------------------------------------------------------------
(***************************************************************************)
(* The theorems.                                                           *)
(***************************************************************************)

LEMMA NextKeeps ==
  ASSUME TransportAssumption, IInv, [Next]_vars
  PROVE  IInv'
<1>1. CASE Main
  BY <1>1, ConnectKeeps, IssueKeeps, AskKeeps, NothingToDeleteKeeps, ReturnKeeps, FailKeeps DEF Main
<1>2. CASE Callback
  BY <1>2, CallbackKeeps
<1>3. CASE (WriteOut \/ ReadReply \/ ReadMessage \/ Disconnect \/ Reconnect) /\ UNCHANGED demoVars
  BY <1>3, WriteOutKeeps, ReadReplyKeeps, ReadMessageKeeps, DisconnectKeeps, ReconnectKeeps
<1>4. CASE (Serve \/ Push \/ Expire) /\ UNCHANGED demoVars
  BY <1>4, ServeKeeps, PushKeeps, ExpireKeeps
<1>5. CASE UNCHANGED vars
  <2> USE DEF vars, transportVars, linkVars, serverVars, clientVars, demoVars
  <2>1. TypeOK' /\ OneRequest' /\ SendsKept'
    BY <1>5 DEF IInv, TypeOK, OneRequest, SendsKept, Queued
  <2>2. RepliesTrue' /\ ListedTrue' /\ MailboxMade'
    BY <1>5 DEF IInv, RepliesTrue, ListedTrue, MailboxMade, Queued
  <2> QED
    BY <2>1, <2>2 DEF IInv
<1> QED
  BY <1>1, <1>2, <1>3, <1>4, <1>5 DEF Next

\* What is under way, what is stored and what was answered always fit together.
THEOREM Invariance ==
  Spec => []IInv
<1>1. Init => IInv
  BY TransportAssumption, InitHolds
<1>2. IInv /\ [Next]_vars => IInv'
  BY TransportAssumption, NextKeeps
<1> QED
  BY <1>1, <1>2, PTL DEF Spec

\* The variables keep their shape, and no program makes the library's channel or
\* the subscription's buffer hold more than their capacities.
THEOREM TypeCorrect ==
  Spec => []TypeOK
<1>1. IInv => TypeOK
  BY DEF IInv
<1> QED
  BY <1>1, Invariance, PTL

\* Once list() has returned, it has shown every message sent before it but those
\* that were on their way in a disconnect, and none of these, with any room in
\* the channel and any number of disconnects.
THEOREM ListIsTrue ==
  Spec => []ListSeesSends
<1>1. IInv => ListSeesSends
  BY Steps DEF IInv, ListedTrue, TrueList, ListSeesSends
<1> QED
  BY <1>1, Invariance, PTL

\* A request is refused only when the mailbox has expired, with any room in the
\* channel and any number of disconnects.
THEOREM RefusalIsExpiry ==
  Spec => []RefusedMeansExpired
<1>1. IInv => RefusedMeansExpired
  BY DEF IInv, MailboxMade, RefusedMeansExpired
<1> QED
  BY <1>1, Invariance, PTL

\* The callback is given the messages in order, but for one descent after each
\* disconnect; before the first, one is missing only if it came to a full
\* buffer: with any room in the buffer and any number of disconnects.
THEOREM ReceivedInOrder ==
  Spec => []InOrderOrDropped
<1>1. Init => IInv /\ OInv
  BY TransportAssumption, InitHolds, InitOrdered
<1>2. IInv /\ OInv /\ [Next]_vars => IInv' /\ OInv'
  BY TransportAssumption, NextKeeps, NextOrdered
<1>3. OInv => InOrderOrDropped
  <2> SUFFICES ASSUME OInv PROVE InOrderOrDropped
    OBVIOUS
  <2>1. Cardinality({i \in 1..(Len(Received) - 1) : Received[i] >= Received[i + 1]}) <= disconnects
    BY DEF OInv, Flow, Descents
  <2>2. \A i \in DOMAIN Received : Received[i] \in Range(Received)
    BY DEF Range
  <2>3. disconnects = 0 =>
          \A i \in DOMAIN Received, m \in Sent :
            m < Received[i] => m \in Range(Received) \cup overrun
    BY <2>2 DEF OInv, NoGaps
  <2> QED
    BY <2>1, <2>3 DEF InOrderOrDropped
<1> QED
  BY <1>1, <1>2, <1>3, PTL DEF Spec
=============================================================================
