-------------------------- MODULE Mq9RustTransport --------------------------
(***************************************************************************)
(* What RealNats, the Rust SDK's transport, makes of the NATS library.     *)
(*                                                                         *)
(* All operations only put a command into a bounded channel, where they    *)
(* wait for room.  A task of the library, the connection's, takes the      *)
(* commands out and writes them; it also reads what the server sends:      *)
(* replies, which end the wait of a request, and messages, which go to the *)
(* subscription's buffer, or nowhere if that is full.  While the           *)
(* connection is down commands stay in the channel; those written before   *)
(* are lost if the server had not handled them.                            *)
(*                                                                         *)
(* Library and server are external.  Of the server one thing is relied on: *)
(* it handles what comes over one connection in order.  Messages are       *)
(* numbers, in the order in which a replay has them.                       *)
(***************************************************************************)
EXTENDS Naturals, Sequences, FiniteSets, Functions

CONSTANTS
  ChannelCap,     \* room in the channel of commands
  BufferCap,      \* room in the buffer of a subscription
  MaxDisconnects  \* how often the connection may be lost

ASSUME TransportAssumption ==
  /\ ChannelCap \in Nat \ {0} /\ BufferCap \in Nat \ {0}
  /\ MaxDisconnects \in Nat

VARIABLES
  up,           \* is there a connection?
  channel,      \* commands that wait to be written
  written,      \* commands on their way to the server
  incoming,     \* replies and messages on their way to the client
  known,        \* does the library know of the subscription?
  subscribed,   \* does the server, for this connection?
  pending,      \* messages the server has yet to push
  buffer,       \* the subscription's buffer
  answer,       \* the end of the wait of a request or a flush
  mailbox,      \* the private mailbox is "absent", "there" or "expired"
  stored,       \* the messages in it
  overrun,      \* messages that came while the buffer was full
  lost,         \* messages that were on their way in a disconnect
  disconnects   \* how often the connection was lost

linkVars == <<up, written, incoming, lost, disconnects>>
serverVars == <<subscribed, pending, mailbox, stored>>
clientVars == <<channel, known, buffer, answer, overrun>>
transportVars == <<linkVars, serverVars, clientVars>>

NoAnswer == [kind |-> "none"]
Refusal == [kind |-> "refused"]
Ok == [kind |-> "ok"]
Listed(msgs) == [kind |-> "listed", msgs |-> msgs]

Published(cmds) == {c.msg : c \in {d \in Range(cmds) : d.op = "publish"}}

TransportInit ==
  /\ up = FALSE
  /\ channel = <<>> /\ written = <<>> /\ incoming = <<>>
  /\ known = FALSE
  /\ subscribed = FALSE /\ pending = <<>>
  /\ buffer = <<>>
  /\ answer = NoAnswer
  /\ mailbox = "absent" /\ stored = {}
  /\ overrun = {} /\ lost = {}
  /\ disconnects = 0

-----------------------------------------------------------------------------
(***************************************************************************)
(* The operations of RealNats, as steps of the program that awaits them.   *)
(***************************************************************************)

Connected ==
  /\ up' = TRUE
  /\ UNCHANGED <<written, incoming, lost, disconnects, serverVars, clientVars>>

\* Faulty: there is no waiting for room.
AcceptsOrDrops(cmd) ==
  /\ channel' = IF Len(channel) < ChannelCap THEN Append(channel, cmd) ELSE channel
  /\ answer' = NoAnswer
  /\ UNCHANGED <<known, buffer, overrun, linkVars, serverVars>>

\* publish() and subscribe() are over as soon as the channel has the command,
\* request() and drain() then wait for an answer.
Accepts(cmd) ==
  /\ Len(channel) < ChannelCap
  /\ channel' = Append(channel, cmd)
  /\ answer' = NoAnswer
  /\ UNCHANGED <<known, buffer, overrun, linkVars, serverVars>>

Answered == answer # NoAnswer

\* What drain() asks for: neither the subscriptions nor the connection end.
Flush == [op |-> "flush"]

\* The stream of the subscription gives its next message.
StreamNext ==
  /\ buffer # <<>>
  /\ buffer' = Tail(buffer)
  /\ UNCHANGED <<channel, known, answer, overrun, linkVars, serverVars>>

-----------------------------------------------------------------------------
(***************************************************************************)
(* The connection's task (external).                                       *)
(***************************************************************************)

\* The next command is written.  A flush is done when all before it is written,
\* whatever becomes of that.
WriteOut ==
  /\ up
  /\ channel # <<>>
  /\ channel' = Tail(channel)
  /\ LET cmd == Head(channel)
     IN  IF cmd.op = "flush"
         THEN answer' = Ok /\ UNCHANGED <<known, written>>
         ELSE /\ known' = (known \/ cmd.op = "subscribe")
              /\ written' = Append(written, cmd)
              /\ UNCHANGED answer
  /\ UNCHANGED <<up, incoming, lost, disconnects, buffer, overrun, serverVars>>

ReadReply ==
  /\ incoming # <<>> /\ Head(incoming).kind # "message"
  /\ incoming' = Tail(incoming)
  /\ answer' = Head(incoming)
  /\ UNCHANGED <<up, written, lost, disconnects, channel, known, buffer, overrun, serverVars>>

\* Faulty: the buffer has no limit.
ReadMessageUnbounded ==
  /\ incoming # <<>> /\ Head(incoming).kind = "message"
  /\ incoming' = Tail(incoming)
  /\ buffer' = Append(buffer, Head(incoming).msg)
  /\ UNCHANGED <<up, written, lost, disconnects, channel, known, answer, overrun, serverVars>>

\* A message for which there is no room is dropped: the task never waits for
\* the callback.
ReadMessage ==
  /\ incoming # <<>> /\ Head(incoming).kind = "message"
  /\ incoming' = Tail(incoming)
  /\ LET m == Head(incoming).msg
     IN  IF Len(buffer) < BufferCap
         THEN buffer' = Append(buffer, m) /\ UNCHANGED overrun
         ELSE overrun' = overrun \cup {m} /\ UNCHANGED buffer
  /\ UNCHANGED <<up, written, lost, disconnects, channel, known, answer, serverVars>>

Disconnect ==
  /\ up
  /\ disconnects < MaxDisconnects
  /\ disconnects' = disconnects + 1
  /\ up' = FALSE
  /\ lost' = lost \cup Published(written)
  /\ written' = <<>> /\ incoming' = <<>>
  /\ subscribed' = FALSE /\ pending' = <<>>
  /\ UNCHANGED <<mailbox, stored, clientVars>>

\* The subscription is made again before any command is written.
Reconnect ==
  /\ ~up
  /\ disconnects > 0
  /\ up' = TRUE
  /\ written' = IF known THEN <<[op |-> "subscribe"]>> ELSE <<>>
  /\ UNCHANGED <<incoming, lost, disconnects, serverVars, clientVars>>

-----------------------------------------------------------------------------
(***************************************************************************)
(* The server (external).                                                  *)
(***************************************************************************)

Reply(r) == incoming' = Append(incoming, r)

Create ==
  /\ mailbox' = IF mailbox = "absent" THEN "there" ELSE mailbox
  /\ Reply(Ok)
  /\ UNCHANGED <<subscribed, pending, stored>>

\* The public mailbox plays no part but to be created.
CreatePublic == Reply(Ok) /\ UNCHANGED serverVars

\* A message to a mailbox that has expired is forgotten.
Store(m) ==
  /\ stored' = IF mailbox = "there" THEN stored \cup {m} ELSE stored
  /\ pending' = IF mailbox = "there" /\ subscribed THEN Append(pending, m) ELSE pending
  /\ UNCHANGED <<incoming, subscribed, mailbox>>

\* A subscription gets what is stored, in order.
Replay ==
  /\ subscribed' = TRUE
  /\ pending' \in {p \in [1..Cardinality(stored) -> stored] :
                    \A i, j \in DOMAIN p : i < j => p[i] < p[j]}
  /\ UNCHANGED <<incoming, mailbox, stored>>

List ==
  /\ Reply(IF mailbox = "there" THEN Listed(stored) ELSE Refusal)
  /\ UNCHANGED serverVars

Delete(m) ==
  /\ Reply(IF m \in stored THEN Ok ELSE Refusal)
  /\ stored' = stored \ {m}
  /\ UNCHANGED <<subscribed, pending, mailbox>>

Serve ==
  LET cmd == Head(written)
  IN  /\ written # <<>>
      /\ written' = Tail(written)
      /\ CASE cmd.op = "create" -> Create
           [] cmd.op = "createPublic" -> CreatePublic
           [] cmd.op = "publish" -> Store(cmd.msg)
           [] cmd.op = "subscribe" -> Replay
           [] cmd.op = "list" -> List
           [] cmd.op = "delete" -> Delete(cmd.msg)
      /\ UNCHANGED <<up, lost, disconnects, clientVars>>

\* Messages are pushed when the server gets round to it.
Push ==
  /\ pending # <<>>
  /\ pending' = Tail(pending)
  /\ incoming' = Append(incoming, [kind |-> "message", msg |-> Head(pending)])
  /\ UNCHANGED <<up, written, lost, disconnects, subscribed, mailbox, stored, clientVars>>

\* The time to live of the mailbox is over.
Expire ==
  /\ mailbox = "there"
  /\ mailbox' = "expired"
  /\ stored' = {}
  /\ UNCHANGED <<subscribed, pending, linkVars, clientVars>>

ConnectionTask == WriteOut \/ ReadReply \/ ReadMessage

Link == ConnectionTask \/ Disconnect \/ Reconnect \/ Serve \/ Push \/ Expire
=============================================================================
