# RobustMQ mq9 SDKs in TLA+

The repository holds six client libraries of the mq9 mailbox protocol (Rust,
Python, Go, JavaScript, Java, C#), tools for langchain built on the Python one,
and demos. All six have the same operations on top of a NATS client library of
their language: connect, create a mailbox, send, subscribe, unsubscribe, list,
delete, close. The protocol (`src/docs/mq9-protocol.md`) and the broker are
outside; what the SDKs rely on is modelled as *external* and marked so in the
comments of the modules.

What makes the system worth checking is that one protocol is implemented six
times, on six concurrency engines. The same few lines (`abort()`, `cancel()`,
`drain()`, `Unsubscribe()`, `iterator.stop`) stop, or do not stop, what runs at
that moment in different ways, and the SDKs read the same bytes with six JSON
and base64 decoders.

## Inventory

| Component | State it keeps | Operations | Talks to | Hard part | Correct when |
|---|---|---|---|---|---|
| Subjects and priorities | none | build the subject of a send, subscribe, list, delete; read the level off a subject | broker's routing | mail ids may hold dots, routing sees only words | a mailbox gets its own messages at the levels asked for, DELETE finds its message |
| Message parsing | none | bytes and subject to id, level, payload | subscription loop | envelope or bare bytes, wrong types, bad base64, bytes that are not text | the callback sees what `send()` was given, nothing is dropped |
| Subscription loops | per subscription: task or iterator, buffer (in the library), cancellation | subscribe, the loop, unsubscribe | callbacks of the application, close, reconnection | a stop races the callback and the buffer; exceptions and panics; replay after reconnection | nothing is skipped or reordered, stopped loops end, others survive but for a panic (Rust) or a cancelled callback (Python) |
| Connection lifecycle | one handle, unguarded | connect, close, publish | NATS library | calls of several tasks overlap at every await; drains end late, fail or never end; connections are lost and made again | no connection is leaked, calls return, close means closed |
| Requests | none | create, list, delete | broker, one reply per request | timeouts, late replies, replies of another shape | an answer is true, a refusal changed nothing |
| Base64 decoder (Rust) | a shift register | decode one payload | message parsing | padding, left-over bits, a table shorter than a byte | what was encoded comes back |
| Rust transport | a bounded channel of commands, a bounded buffer per subscription (both in async-nats) | publish, request, subscribe, drain | connection task, network, broker | back-pressure, disconnects, a flush that is no drain | sends that returned are kept unless a disconnect met them; no call hangs on a good connection |
| Java executor | common thread pool | every call is one task | Java client | unawaited sends reorder, blocked threads starve | (not modelled yet) |
| Langchain tools | none (a client for each call) | six tools | Python client | a collection window of half a second | (not modelled yet) |
| Multi-agent demo | A: results; B: address, count, a channel | set tasks, answer them | SDKs, a public mailbox as rendezvous | started in any order, replays, letters lost with a connection, exits before answers are written out | a task is taken for the address only if that was lost, the run whose address came first is answered, answers are in order |
| SDK demos | what `list()` returned | every operation once, in a row | SDKs, a spawned callback | any call may fail or time out; the list is stale when used | it ends, and ends refused only for an expired mailbox (Rust; the others make the same calls) |
| Langgraph demo | graph state | request and response over mailboxes | SDKs | short windows | (not modelled yet) |

The hazards of the code, each at its line, are in `PROJECT.json`.

## Modules

| Module | Models | Extends |
|---|---|---|
| `Mq9Subjects` | `subject.*`, `Priority`, the level suffix; the broker's matching (external) | |
| `Mq9Envelope` | the six parsers of incoming messages | `Mq9Subjects` |
| `Mq9Wire` | one message from `send()` of any SDK to the callback and `delete()` of any other | `Mq9Envelope` |
| `Mq9Subscription` | subscribe, loop, callback, unsubscribe, close, reconnection of six engines | `Mq9Envelope` |
| `Mq9Lifecycle` | connect, close, send of several tasks on one client | |
| `Mq9Requests` | create, list, delete with timeouts and six readings of a reply | |
| `Mq9Agents` | the multi-agent demo: agent A (Python), agent B (Go), their mailboxes | |
| `Mq9Base64` | the base64 decoder of the Rust SDK, character by character | |
| `Mq9Feed` | abstract: a subscription as a queue | |
| `Mq9RustTransport` | `RealNats` over async-nats: channel, connection task, buffer, disconnects; the broker behind it (external) | |
| `Mq9RustDemo` | the Rust demo over that transport | `Mq9RustTransport` |
| `Mq9WireProofs` | theorems on subjects; what the parsers do; inductive invariants of `Mq9Wire` | `Mq9Wire` |
| `Mq9SubscriptionProofs` | inductive invariants of `Mq9Subscription` | `Mq9Subscription` |
| `Mq9FeedProofs` | that `Mq9Subscription` implements `Mq9Feed` | `Mq9Subscription` |
| `Mq9LifecycleProofs` | inductive invariant of `Mq9Lifecycle` | `Mq9Lifecycle` |
| `Mq9RequestsProofs` | inductive invariant of `Mq9Requests` | `Mq9Requests` |
| `Mq9AgentsProofs` | inductive invariants of `Mq9Agents` | `Mq9Agents` |
| `Mq9Base64Proofs` | inductive invariants of `Mq9Base64` | `Mq9Base64` |
| `Mq9RustDemoProofs` | inductive invariants of `Mq9RustDemo` | `Mq9RustDemo` |
| `MCWire`, `MCSubscription`, `MCLifecycle`, `MCRequests`, `MCAgents`, `MCBase64`, `MCRustDemo` | values of the constants for TLC | the module of that name |

Operators named *Faulty* in their comment are plausible bugs of the definition
that follows. No specification uses them: each is there to show that a
property notices it (`PROJECT.json`, `mutants`).

### Subjects and the wire (`Mq9Subjects`, `Mq9Envelope`, `Mq9Wire`)

A subject is a sequence of words after the fixed `$mq9.AI.MAILBOX.` prefix, a
mail id is a sequence of words too: `task.queue` is `<<"task", "queue">>`. The
SDKs only concatenate, so concatenation is all there is; whether two mailboxes
are confused is decided by `Matches`, the broker's rule. Where the six SDKs
build or read a subject alike, one operator stands for all.

A body is a record of what the parsers can tell apart: not JSON text at all
(`binary`), text that is not JSON, a JSON value that is no object, an object
with its three fields, each absent or of one of the types or forms a decoder
reacts to differently (for `payload`: absent, null, empty, base64, a word or a
phrase that is not base64, not a string). Each SDK has its own `...Parse`, with
a table of what its base64 decoder does to each form. An exception that leaves
the parser is the payload `"raised"`.

`Mq9Wire` has a log `sent`, one subscription of one SDK, an `inbox` of what its
callback was given, and the outcome of each DELETE. Replay and live delivery
are the same action here, in any order: order is the matter of
`Mq9Subscription`.

### Subscription loops (`Mq9Subscription`)

Each subscription has the sequence `fed` of what the server pushed, the
`buffer` of what waits and the sequence `taken` of what its loop has taken; a
loop is `idle`, `running` its callback, `hot` (told to stop, not suspended
since), `broken` (left by an exception nothing caught) or `ended`. What a stop does to a loop is one action per engine:

| SDK | engine (source) | unsubscribe | close |
|---|---|---|---|
| Rust | tokio task | `abort()`: takes effect at the next suspension | flushes, stops no task |
| Python | asyncio task in nats-py | `cancel()`, wherever suspended | waits for a drain, up to the library's limit |
| Go | goroutine of nats.go | pending messages discarded | starts a drain, returns |
| JavaScript | `for await` over the iterator | the iterator is told to stop | drain waits for the server, not for the loops |
| Java | jnats dispatcher | as Go | waits for a drain for five seconds |
| C# | thread-pool task, token | token looked at only when the loop waits | disposes, loops work off what they have |

A callback may return, throw or panic, and may call `close()` itself: then the
drain waits for the callback and the callback for the drain, until the
library's limit; in Java the thread of that callback may be interrupted, which
`close()` swallows, and then the callback goes on and the drain too
(`JavaInterrupted`). In Python a callback that awaits something cancelled
leaves the loop with a `CancelledError`, which the SDK's `except Exception`
lets pass (`PythonCallbackCancelled`): nats-py's task ends, the subscription
stays registered, and what is pushed to it from then on stays in the buffer,
so that a drain is not over before its time is. A reconnection registers the subscription again, whereupon
the broker replays the mailbox.

`Mq9Feed` says what all of this is to the application: a queue the server adds
to, whose messages go to the callback once each and in order, until the
subscription is over. `Feed` in `Mq9Subscription` maps `over` to the
subscriptions whose loop is broken or has ended and `gone`, those nothing is
pushed to any more, to the ended ones; `fed` and `taken` are the same in both.

### Base64 (`Mq9Base64`)

The text is a sequence of the values the decoder's table gives (the digits,
`Pad` for "=", `NoDigit` for all else), and is read one at a time: `Trim`
strips the padding, `Read` shifts a digit into the accumulator and emits a byte
when there is one, `Refuse` ends with an error. The bitwise or of a "=" inside
the text, whose table entry 64 has seven bits, is `ShiftIn`. The texts are
those the encoder of the tests makes of a payload, and, with the payload
`Anything`, any.

### Lifecycle (`Mq9Lifecycle`)

Tasks call `connect`, `close` and `send` on one client; the steps of a call
interleave with others where the code awaits or blocks. `handle` is the
unguarded field; each connection has its own state, so that one no handle
leads to any more can be seen.

A connection may be lost at any time (`Disconnect`) and made again
(`Reconnect`), or given up (`GiveUp`, Python and JavaScript). What `send()`
published is `accepted` and in the connection's `outbox` until it arrives.
Losing the connection takes any part of the outbox away, and what was in it is
remembered in `met`: it may have been lost. The rest the library still holds,
and it is written on the next connection. While the connection is lost, `send()`
still accepts; what C# then waits for is left out.

What `close()` does to a connection that is lost for the moment, closed or
drained before is different in each SDK: an error and the handle stays
(Python), a drain that closes it (JavaScript, Java, C#), closed with an error
(Go). In Python and JavaScript the flush at the end of a drain may fail
(`DrainFails`): `close()` raises, and the connection, now in `undrained`, is
neither usable nor closed, or, in Python, is made again. Java swallows an
interrupt of its wait and returns before the drain is over
(`JavaInterrupted`). When JavaScript and C# find no handle, they come to clear
the field a step later all the same, so that what another task has set
meanwhile is gone (`CloseNothing`, then `CloseClears`); C# also after
disposing a connection that waits for nobody.

A behaviour in which `disciplined` is true is one of an application that
connects only without a usable connection, and does not overlap connect and
close: properties with that condition say what a well-behaved application gets,
those without it what everyone gets. The Rust client is created connected and
consumed by `close(self)`, so none of this can happen to it.

### Requests (`Mq9Requests`)

A call asks, and then either its reply arrives or its time is over; the request
may still be carried out later. A reply has one of the documented shapes or
one of five quirks (bytes that are not JSON, `"error": null`, no `mail_id`, a
null `mail_id`, a list entry without level). The tables at the head of the
module say what each SDK makes of each.

### Multi-agent demo (`Mq9Agents`)

Agent A leaves four letters in the rendezvous, its address and three tasks, and
then listens to its own mailbox; agent B takes the first letter for the
address and answers the others, in the callback of the library's thread, while
its main program waits for the third answer or for its time to be over. Both
mailboxes keep what they get, and the broker replays them, by level, to whoever
subscribes.

A waits for no letter to be stored. `ASend` is the storing of the next letter of
those it has sent, and `AReconnects`, which may happen while it sends, takes the
letters that were written on the old connection and had not arrived
(`missing`): the address may be lost and a task be stored, which B then takes for
the address, and answers to a mailbox that is none. `AddressFirst` says that this
is the only way. If the address of a run is lost, a later run whose address
is stored may be answered; if it is stored, only that run is, whatever tasks of
others lie before it (`FirstIsAnswered`). Answers go through the library's outbox,
of which a reconnection loses the first ones and `BExit` all, since `Close()`
starts a drain and the process ends. So nothing says that A ever has its answers:
the properties say what it has when it is done.

### Rust transport and demo (`Mq9RustTransport`, `Mq9RustDemo`)

An operation of `RealNats` puts a command into the library's channel and, when
the channel is full, waits (`Accepts`); `request` and `drain` then wait for an
answer. The library's task writes commands out, reads replies, and puts messages
into the subscription's buffer or, if it is full, drops them. While the
connection is down commands stay in the channel; what was written and not
handled is lost (`lost` records it), and after a reconnection the subscription is
made again before anything else is written. `drain` only asks for a flush
(`Flush`), which is over when the commands before it are written.

The demo is the sequence `Script` of its calls. Each call is taken by `Issue`
(send, subscribe: nothing is waited for) or `Ask` (an answer is), and ends by
`Return`, `Fail` ("?") or `TimeOut`; `Callback` is the spawned task. The message
to delete is one of those `list()` returned, which may have expired since.

## Runs

| Run | Asks |
|---|---|
| `wire_envelope` | With the broker's envelope: is level, payload and id what the sender and the broker gave, is nothing dropped, does everything arrive? All SDKs, all kinds of payload. |
| `wire_raw` | With bare bytes and four mailboxes with dotted names: are mailboxes kept apart, do DELETEs find their message, do payloads that do not look like an envelope pass unchanged? |
| `sub_one` | One subscription of each SDK, three messages, one reconnection: order, completeness, duplicates, which loops survive panics and cancelled callbacks; under fairness close returns, stopped loops end, and the subscription is a queue that is worked off (`ImplementsFairFeed`). |
| `sub_two` | Two subscriptions drained by one close (Python, Java): does a drain handle everything, is it quiet afterwards, and does each stay a queue of its own (`ImplementsFeed`)? |
| `life_calls` | Two tasks, any overlap, connections lost, made again, given up, drains that fail: no hang, nothing is accepted after close. Of a disciplined application: no leak, a handle is lost to its own `close()` only, close means closed and, in Python and JavaScript, sent, but for what met a lost connection. |
| `agents` | Two runs of agent A, agent B, one restart, reconnection of either or failed call: what is taken for the address, who is answered, and, undisturbed, with what, in which order, and without a panic? |
| `req_calls` | Two calls, two messages, every quirk an SDK withstands: answers are true, refusals changed nothing, lists are snapshots. |
| `base64` | Payloads of up to four bytes and texts of up to five characters: does what was encoded come back, and is what is accepted an encoding, but for three leniencies? |
| `rust_demo` | The Rust demo with two disconnects, timeouts, an expiring mailbox and a callback of any speed: are sends listed, when is a request refused, in which order do messages come, does it end? |
| `wire_nested` | violated: `*` also matches a mailbox whose name adds a word. |
| `wire_binary` | violated: Python drops a payload that is not text. |
| `sub_rust_close` | violated: callbacks go on after `close()` returned. |

### Bounds, and why they are enough

- `MsgIds` (two ids) bounds the sends of `Mq9Wire`: a message is parsed and
  routed without regard to any other, so a second one is there only for
  deliveries and deletes out of order. The four mailboxes of `wire_raw` have
  one, two and four words and share prefixes; that is every relation of two
  names routing can tell apart, except the one the theorems exclude too.
- `sub_one`: three messages, two of one level and one of a higher, so that a
  replay has an order other than that of arrival; one of them is bytes Python
  cannot parse. `MaxReconnects = 1` repeats the mailbox once, during any state of
  the loop. `sub_two` has no reconnection but a second subscription, because a
  drain waits for all of them.
- Two tasks, two connections and two messages in `Mq9Lifecycle`: a leak needs
  two connections, an overlap two tasks, and of two messages one may be lost
  with a connection and the other not. `Conns` bounds `connect()`, `Messages`
  bounds `send()`; a connection may be lost and made again any number of times.
- Two calls in `Mq9Requests`: a late reply needs another call to be confused
  with. The run is symmetric in calls and in messages, and has no liveness
  property.

- `agents`: two runs of A, since a second is what the rendezvous may mix up
  with the first; `MaxTroubles = 1` is one restart of B, reconnection of A or B,
  or failed call, at any point. The run is symmetric in the runs of A and has no liveness
  property. The agents may stop for good, so deadlock is not checked.

- `base64`: the decoder's state after a whole group is that at the start, so
  payloads of one group and one byte more, of bytes whose bits fall differently on
  the digits, have every length a group can end with; texts of up to five characters
  over three digits, "=" and a foreign character have every place for each.
- `rust_demo`: `ChannelCap` and `BufferCap` are two, less than the three messages
  sent, so that a send waits and a message is dropped; the second of
  `MaxDisconnects` meets the commands and the subscription made again after the
  first. Expiry, timeouts and a callback that never runs may come at any point.

Deadlock is checked for the subscriptions and the lifecycle. In `Mq9Wire` and
`Mq9Requests` the application stops when the ids or the calls are used up, in
`Mq9Base64` at the end of the text, in `Mq9RustDemo` when main has ended.

`req_calls` gives each SDK the quirks it withstands. For the others the
properties fail by the tables of the module: for instance, Go and JavaScript
return a mailbox with an empty id when a reply lacks one, Python and Java one
with the id "None" or "null" when it is null, and Python's and Java's reading
of `"error": null` turns an answer into a refusal.

### Fairness

- `Mq9Wire`: a stored message that matches is pushed and parsed.
- `Mq9Subscription`: weak fairness of taking, of a callback's end, of a stopped
  loop's end and of the steps of close. The engines are work-conserving
  schedulers; a callback that never returns is the application's doing; each
  wait of close has a limit in the library, whose firing is an action of its
  own. Nothing makes a message arrive, a task unsubscribe, or a connection drop.
- `Mq9Lifecycle`: a task whose wait is over is resumed; the library finishes
  connecting and draining, or the drain fails: both are limited in time. Nothing
  makes a connection be lost, made again or given up, a message arrive, or a
  thread be interrupted.

- `Mq9RustDemo`: `main` and, while the program runs, the library's connection
  task are run; a request's timer fires. Nothing is asked of the server, the
  network or the callback. So `MainEnds` has to except a connection that stays
  down: calls wait for room in the channel and `close()` for its flush, and
  neither has a limit.

## Proofs

TLAPS checks these for every value of the constants. Each safety invariant of a
run that passes is the property of a theorem here, and so are the action
properties and the refinement. Every inductive invariant was model-checked, on
the run of its module, before it was proved.

**Subjects.** `SubscriptionIsolation`, `LevelRoundTrip` and `DeleteRoundTrip` are
facts about sequences of any length, from the library's theorems on
concatenation and subsequences. The condition of the first, neither mail id
the other plus one word, is exactly what `wire_nested` violates.

**Wire.** `MailboxIsolation` and `DeleteRouting` assume `NamesApart` only. The
inductive invariant `IInv` says that whatever the callback was given was sent to
the mailbox of the subscription, at a level of its filter; it needs the
subscription to be set whenever the inbox is not empty, which the property
alone does not say. A DELETE is made for a message of the inbox, so its mail id
is the right one and `DeleteRoundTrip` applies.

What becomes of payloads is another invariant, `PayloadsAsSent`: a callback was
given an id just when the broker sent an envelope, and the payload as it was
sent, but for Python's of an empty one; and a parser raised only on bytes Python
cannot decode. It holds whatever mailboxes are called, since a message is parsed
without regard to the subject except for its level. From it come
`EnvelopesKeepPayloads` and `NothingIsDropped`, which assume `Enveloped`,
`PlainPayloadsKept`, which assumes there are no envelopes, and `IdsAreServers` and
`OnlyPythonDrops`, which hold either way. Without an envelope all of them need
`PayloadsApart`: no payload is an object with a `msg_id`. That is what the
payloads of `wire_raw` have in common, and the code really needs it
(disagreement 4). `LevelsKept` adds `NamesApart`, as a level is read off the
subject by its place behind the mail id subscribed to. Each rests on what the six
parsers do to an envelope (`EnvelopeParsed`) and to a body without id
(`WireParsed` puts the two together), one step per SDK.

**Subscriptions.** `TypeCorrect` and `NothingIsSkipped` assume only
`SubscriptionAssumption`. `NothingSkipped` is not inductive: a Rust task that was
aborted is still pushed to until it suspends, and a subscription may be stopped
while it is registered. `IInv` adds, for each subscription, that there is nothing
before `subscribe()` (`Fresh`), that the server pushes only to a live
subscription or to an aborted task of Rust (`PushedToWhile`), and that the
buffer is complete as long as either the server pushes or the loop listens
(`Complete`). Most actions only stop a subscription or discard its buffer;
`Settles` states that once, `SettlingKeeps` shows it is enough, and five
lemmas treat the actions that push or take. A broken loop is one the server still
pushes to and whose buffer is complete, but that takes nothing.

`LevelsKeepTheirOrder` and `NoDuplicates` speak of what was taken, but what decides
them is what the server pushes: `OrderInv` says of `fed` that it holds only
messages stored and wanted, all of them while the subscription is registered
(`FedAll`), in order of arrival within a level (`FedInOrder`), each at most once for
each registration (`FedOnce`). `FedAll` is what makes the order inductive: a
message that arrives is pushed behind all that came before it only because these
were pushed already. As `taken` begins `fed`, both properties carry over.

`CallbacksEndNoLoop`, `DrainHandlesAll` and `QuietAfterClose` come from `CloseInv`. A
loop in use is alive until close() returns, but for Rust's that panicked and
Python's that is broken (`LoopLives`); once the drain is over
there is no live subscription, and those that were drained have an ended loop and
have taken all that was pushed (`WorkedOff`); the loops of Python and Java have
ended when the client is closed (`StopsAtOnce`); and a drain takes all
subscriptions at once, so that none is made or goes on behind its back
(`DrainsTogether`). `QuietAfterClose` assumes that the SDK is Python or Java, as the
run does: for Rust and Go it is false (`sub_rust_close`).

**The queue.** `SubscriptionIsQueue` (`Mq9FeedProofs`) shows that every step of
`Mq9Subscription` is a step of `Mq9Feed` or changes nothing it sees. The steps
that take a message need that what was taken, followed by what waits, begins what
was pushed, which is in `IInv`; `FInv` adds that the server no longer pushes to a
loop that has ended. A cancelled callback makes the subscription over and not
gone, so that what is pushed after it is a `Push` still. Python's `unsubscribe()`, which may take several messages
at once, is the `End` of the queue. Only the safety part is proved; that the queue is
worked off (`ImplementsFairFeed`) is model-checked.

**Lifecycle.** All safety properties of `life_calls` are proved, and
`NothingAfterClose` from the same invariant, assuming only
`LifecycleAssumption`. `NoLeak` is not inductive: `IInv` adds `Discipline`, that
while the application is disciplined no two calls of connect or close overlap,
so that a task which closes holds the only usable connection, and what each
waiting task's connection may be. `OutboxSound` is what `CloseMeansClosed` needs:
in Python and JavaScript what a connection has accepted is stored, in its outbox
or in `met`, unless the connection was given up, which close() then did not wait
for. `ReleasedSound` says that only a drain that failed lets a connection go on
that close() returned for, and that no handle leads to it then. For
`NullUseNeedsClose`, `NullSound` says that the handle a C# task has found is the
client's still or was closed, and that there is none while a task connects, so that
the late clearing of the field takes nothing from a disciplined application.

**Requests.** `OkIsTrue`, `RefusalIsTrue` and `ListIsTrue` assume
`RequestsAssumption` and `QuirksWithstood`: the replies have the documented
shape or a quirk the SDK's tables withstand. The invariant links each reply to
the server's state when it was made: a reply's messages lie between
`throughout` and `seen` of its call.

**Base64.** `PayloadComesBack` is about payloads of any length. The invariant
`Decodes` says how far the decoder is: `q` groups and up to three digits of the
next are behind it (`Progress`), what it has put out begins the payload, and the
accumulator is the beginning of its next byte. Facts about one group of
four digits carry it over a step. `OnlyEncodingsPass` is the converse,
about any text: `DInv` says that the digits behind the decoder, group by group, are
those an encoder makes of the bytes put out (`GroupsKept`), and that what is left
of the last group is in the accumulator (`Regrouped`). It holds as long as no "="
was read as a digit, which is one of the three flaws `AcceptsEncodings` excepts.

**Rust demo.** `ListIsTrue` and `RefusalIsExpiry` assume `TransportAssumption`: the
room in the channel and in the buffer and the number of disconnects are any. A
request is always behind all that was sent, so when the server handles it nothing
else is on its way (`OneRequest`); until then every accepted message is in the
channel, on its way, stored or lost (`SendsKept`). From these two the list that
is made shows just what was not lost, which stays so while the reply travels
(`RepliesTrue`) and after it is read (`ListedTrue`): no later disconnect
can lose a message. And what `delete()` asks for is one of the list and still
stored, unless the mailbox has expired. The lemmas about queues and packets say
what appending to and taking from them changes.

`ReceivedInOrder` has an invariant of its own, `OInv`. All that is on its way to
the client is ascending and, unless there was a disconnect since, beyond the last
message received (`Flow`), so that each disconnect makes at most one descent. That
a replay is never overtaken needs the order of commands (`CommandOrder`): behind a
subscription nothing is published, in the channel or after a reconnection.
Before the first disconnect what precedes a message was received, dropped or is
still to come (`NoGaps`); for that the replay must be of all three messages, which it
is because main() then waits for the list, so that nothing is lost or
deleted yet (`FirstTry`), and `SendsKept` says that all is stored.

**Agents.** `NoTaskIsTheAddress` and `OnlyFirstIsAnswered` hold through any number of
runs of A, restarts, lost connections of either agent and failed calls. `AddressFirst`
is not inductive: `FirstLetter` adds that B, as long as it has no address, has a
letter that may be taken for it at the head of its buffer, or nothing is stored
(`MayBeFirst`: the first of all addresses stored, or a task whose address is
missing); and `Senders` that of each run the address is missing or stored before
everything else of it. A replay sorts by level, so the proof needs that its first
letter is one nothing goes before: the place of a letter in a replay counts those that
go before it (`Place`), and nothing goes before the first of the highest level.
`AnswersComeInOrder` and `ClosesOnce` are about an
undisturbed run. `InOrder` follows the letters through their queues: what is stored is
what the run has sent, B has taken the first part of it (`AllTaken`, `SentInOrder`),
has answered just the tasks it has counted (`AnsweredInOrder`), and A has collected
the first part of these answers (`CollectedInOrder`). Since A sends three tasks, B
counts at most three, so it closes its channel at most once. "Undisturbed" is part
of the invariant and not a condition on the specification: a step may end it, and
none restores it. In the proof any number of runs may be there, of which one has
started.

Model-checked only: the liveness properties (`EveryMessageArrives`, `CloseReturns`,
`StoppedLoopsEnd`, `CallsReturn`, `MainEnds`, and of `ImplementsFairFeed` the fairness), which
are out of the prover's reach, as is ENABLED.

## Disagreements found

1. `MSG.<mail_id>.*` also matches the bare subject of a public mailbox whose
   name adds one word (`wire_nested`), in all SDKs.
2. Python: `UnicodeDecodeError` is not among the exceptions the parser catches,
   so a payload that is not text is never delivered (`wire_binary`), although
   the docstring promises the raw body.
3. Rust's `close()` drains nothing (`sub_rust_close`), although its comment says
   it does.

Two more show in the models without a run of their own:

4. Any JSON payload with a `msg_id` is taken for the broker's envelope, although
   the protocol says a payload is arbitrary bytes. The payloads of `wire_raw` leave
   such objects out; with `[kind |-> "object", id |-> "string", payload |->
   "absent", level |-> "absent"]` among them, `PayloadKept` fails for Go.
5. Go's `Close()` returns before the drain is over: with `Sdks = {"go"}`,
   `CloseIsQuiet` fails as in `sub_rust_close`.

And two in code that does not compile: `src/rust/examples/demo.rs` and several
tests of `src/rust/src/mq9/mod.rs` use `Priority::High` and `Priority::Low`, which
the library no longer has.

## Not modelled

- What ends the process: a `SystemExit` or `KeyboardInterrupt` raised in a Python
  callback. (A panic in Go is: `crashed` in `Mq9Subscription`, `panicked` in `Mq9Agents`.)
- What C#'s `send()` waits for while the connection is lost: the message counts as
  accepted as soon as it is published.
- Queue groups: who of a group gets a message is decided by the broker.
- Buffer limits of the NATS libraries other than Rust's (slow consumers): no SDK
  sets one, and the buffers of `Mq9Subscription` are unbounded.
- TTLs, except that messages expire in `Mq9Requests` and the mailbox in
  `Mq9RustDemo`. In `Mq9Agents` the mailboxes
  outlive the run (two minutes, against timeouts of fifteen and thirty seconds).
- Numeric fields of replies, and fields of a wrong type other than null.
- Stale reads of Java's unsynchronised field.
- The list of subscriptions Python keeps: nothing reads it.
- The demos of the other SDKs, which make the calls of the Rust one in a row, and
  `src/rust/examples/demo.rs`.
- The levels, the numbers and the texts of the Rust demo's messages: a message is
  its place in a replay.
- The Java executor, the langchain tools, the langgraph demo: see the plan.

## Plan

Done, in this order: `Mq9Subjects`, `Mq9Envelope`, `Mq9Wire`,
`Mq9Subscription`, `Mq9Lifecycle`, `Mq9Requests`, `Mq9Agents`, `Mq9Base64`,
`Mq9Feed`, `Mq9RustTransport`, `Mq9RustDemo`, and the proofs named above.

Next:

1. `Mq9Tools`: the langchain tools over a mailbox: the half-second window and
   limit of `get_messages`, list-then-delete, clients made per call.
2. `Mq9JavaExecutor`: calls as tasks of a bounded pool: order of unawaited
   sends, requests that block threads.
3. The langgraph demo, whose nodes send and receive over mailboxes, beside
   `Mq9Agents`; and in `Mq9Agents` the loss of answers on exit.
4. Proofs: the safety properties of those modules.
