------------------------------ MODULE Mq9Wire ------------------------------
(***************************************************************************)
(* A message from send() to the callback of subscribe(): the mailbox, the  *)
(* level and the bytes one SDK puts on the wire, and the mailbox, level    *)
(* and bytes another SDK hands to its callback.                            *)
(*                                                                         *)
(* Any number of senders publish to the mailboxes MailIds; one receiver    *)
(* subscribes to one of them, receives every matching message the server   *)
(* keeps, in any order, and deletes what it has received.                  *)
(***************************************************************************)
EXTENDS Mq9Envelope, FiniteSets

CONSTANTS
  MailIds,      \* the mailboxes: sequences of words
  AppBodies,    \* the payloads the application sends
  Receivers,    \* the SDKs the receiver may use
  Enveloped,    \* does the server wrap what it pushes in a JSON envelope?
  MsgIds        \* the ids the server gives: the n-th message gets MsgIds[n]

ASSUME WireAssumption ==
  /\ MailIds \subseteq Seq(STRING)
  /\ AppBodies \subseteq Bodies
  /\ Receivers \subseteq SDKs
  /\ Enveloped \in BOOLEAN
  /\ MsgIds \in Seq(STRING)

\* No mail id is another with one word added, and none has the wildcard for a
\* word.  Nothing in the SDKs makes it so: it is up to whoever names mailboxes.
NamesApart ==
  \A a, b \in MailIds :
    /\ ~AddsWord(b, a)
    /\ \A i \in DOMAIN a : a[i] # "*"

\* The number of messages is bounded by the number of ids.
MaxSends == Len(MsgIds)

VARIABLES
  sent,      \* the messages published, in the order the server stored them
  sub,       \* the receiver's subscription, or NoSub
  inbox,     \* what its callback was given: message number -> parsed message
  raised,    \* numbers of the messages its parser raised an exception on
  deleted,   \* numbers of the messages the server has deleted
  refused    \* numbers of the messages whose DELETE found nothing to delete

vars == <<sent, sub, inbox, raised, deleted, refused>>

NoSub == [mailId |-> <<>>, filter |-> "*", sdk |-> "none"]

Subscribed == sub # NoSub

-----------------------------------------------------------------------------
Init ==
  /\ sent = <<>>
  /\ sub = NoSub
  /\ inbox = <<>>
  /\ raised = {}
  /\ deleted = {}
  /\ refused = {}

\* send(): publish the bytes on the subject of mailbox and level; the server
\* stores them before it pushes them.
Send(mailId, level, body) ==
  /\ Len(sent) < MaxSends
  /\ sent' = Append(sent, [mailId |-> mailId, level |-> level, body |-> body])
  /\ UNCHANGED <<sub, inbox, raised, deleted, refused>>

\* subscribe(): register the pattern of mailbox and filter.
Subscribe(sdk, mailId, filter) ==
  /\ ~Subscribed
  /\ sub' = [mailId |-> mailId, filter |-> filter, sdk |-> sdk]
  /\ UNCHANGED <<sent, inbox, raised, deleted, refused>>

SubjectOf(n) == SubjectMsg(sent[n].mailId, sent[n].level)

OnWire(n) ==
  IF Enveloped THEN ServerEnvelope(sent[n].level, sent[n].body) ELSE sent[n].body

\* The server pushes a stored message to the subscription (at once, or when
\* it replays the mailbox); the SDK parses it and calls the callback.
Receive(n) ==
  LET parsed == Parse(sub.sdk, LevelOfSubject(sub.mailId, SubjectOf(n)), OnWire(n))
  IN  /\ Subscribed
      /\ n \notin DOMAIN inbox \cup raised \cup deleted
      /\ Matches(SubjectSub(sub.mailId, sub.filter), SubjectOf(n))
      /\ IF parsed.payload = "raised"
         THEN raised' = raised \cup {n} /\ UNCHANGED inbox
         ELSE /\ inbox' = [k \in DOMAIN inbox \cup {n} |->
                             IF k = n THEN parsed ELSE inbox[k]]
              /\ UNCHANGED raised
      /\ UNCHANGED <<sent, sub, deleted, refused>>

\* delete(): the receiver names the message by the mailbox it subscribed to
\* and the id of the message (from the envelope, or from list()).
Delete(n) ==
  LET target == DeleteTarget(SubjectDelete(sub.mailId, MsgIds[n]))
  IN  /\ n \in DOMAIN inbox \ (deleted \cup refused)
      /\ IF target = [mailId |-> sent[n].mailId, msgId |-> MsgIds[n]]
         THEN deleted' = deleted \cup {n} /\ UNCHANGED refused
         ELSE refused' = refused \cup {n} /\ UNCHANGED deleted
      /\ UNCHANGED <<sent, sub, inbox, raised>>

Next ==
  \/ \E mailId \in MailIds, level \in Levels, body \in AppBodies : Send(mailId, level, body)
  \/ \E sdk \in Receivers, mailId \in MailIds, filter \in Filters : Subscribe(sdk, mailId, filter)
  \/ \E n \in 1..Len(sent) : Receive(n) \/ Delete(n)

\* The server pushes what matches and the SDK's dispatch loop goes on.
Fairness == \A n \in 1..MaxSends : WF_vars(n <= Len(sent) /\ Receive(n))

Spec == Init /\ [][Next]_vars

FairSpec == Spec /\ Fairness

-----------------------------------------------------------------------------
(***************************************************************************)
(* Properties.                                                             *)
(***************************************************************************)

\* The variables keep their shape.
TypeOK ==
  /\ sent \in Seq([mailId : MailIds, level : Levels, body : AppBodies])
  /\ sub \in [mailId : MailIds, filter : Filters, sdk : Receivers] \cup {NoSub}
  /\ DOMAIN inbox \subseteq 1..Len(sent)
  /\ \A n \in DOMAIN inbox : inbox[n] \in Parsed
  /\ raised \cup deleted \cup refused \subseteq 1..Len(sent)

\* A callback is only given messages of the mailbox it subscribed to, although
\* routing looks at nothing but the concatenated subject.
OwnMailboxOnly == \A n \in DOMAIN inbox : sent[n].mailId = sub.mailId

\* A callback sees the level the sender chose, whether its SDK reads the level
\* off the subject or out of the envelope, and only levels its filter admits.
LevelKept ==
  \A n \in DOMAIN inbox :
    /\ inbox[n].level = sent[n].level
    /\ sub.filter \in {"*", sent[n].level}

PayloadIsSent(n) ==
  IF Enveloped
  THEN inbox[n].payload = (IF sent[n].body.kind = "nothing" THEN "none" ELSE "decoded")
  ELSE inbox[n].payload = "whole"

\* A callback sees the bytes the sender passed to send().
PayloadKept == \A n \in DOMAIN inbox : PayloadIsSent(n)

\* The same but for Python, which hands on the envelope itself when the payload
\* in it is empty.
PayloadKeptButEmpty ==
  \A n \in DOMAIN inbox :
    PayloadIsSent(n) \/ (sub.sdk = "python" /\ sent[n].body.kind = "nothing")

\* The id a callback sees can be passed to delete(): it is the server's, never
\* something an application wrote into its payload.
IdIsServers == \A n \in DOMAIN inbox : (inbox[n].id = "given") <=> Enveloped

\* Each DELETE finds the message the callback was given.
DeleteFinds == refused = {}

\* No received message makes the parser raise, which would keep it from the
\* callback although the server has it.
NothingDropped == raised = {}

\* Of payloads that do not look like an envelope, the only ones kept from a
\* callback are those Python's json.loads cannot decode.
OnlyBinaryDropped ==
  \A n \in raised : sub.sdk = "python" /\ sent[n].body.kind = "binary"

\* Every message of the mailbox the filter admits gets to the callback, unless
\* it was deleted before it was pushed.
EveryMessageArrives ==
  \A n \in 1..MaxSends :
    (/\ n <= Len(sent)
     /\ Subscribed
     /\ sent[n].mailId = sub.mailId
     /\ sub.filter \in {"*", sent[n].level})
      ~> n \in DOMAIN inbox
=============================================================================
