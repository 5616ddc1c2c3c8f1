--------------------------- MODULE Mq9Subscription ---------------------------
(***************************************************************************)
(* Subscriptions of one client: the loop that takes messages out of a      *)
(* subscription's buffer and calls the application's callback, raced by    *)
(* new messages, by unsubscribe(), by close() and by the reconnections of  *)
(* the NATS library.                                                       *)
(*                                                                         *)
(* The six SDKs run this loop on different engines: a tokio task (Rust),   *)
(* an asyncio task (Python), the dispatch goroutine of nats.go, an async   *)
(* iterator (JavaScript), a jnats dispatcher thread (Java) and a thread-   *)
(* pool task (C#).  What stopping does to a loop differs accordingly, so   *)
(* the steps that stop one have an action per SDK; sdk says which SDK the  *)
(* behaviour is of.                                                        *)
(*                                                                         *)
(* A loop (loop[s]) is                                                     *)
(*   idle     suspended, waiting for the next message;                     *)
(*   running  in the callback, on the message cur[s];                      *)
(*   hot      told to stop but not suspended since: a loop that is told to *)
(*            stop at its next suspension goes on until then;              *)
(*   broken   left by an exception nothing caught (Python), although the   *)
(*            subscription goes on;                                        *)
(*   ended    gone for good.                                               *)
(* A subscription (sub[s]) is live; or stopped, by unsubscribe(); or       *)
(* flushing: nothing new comes in and the loop works off its buffer.       *)
(***************************************************************************)
EXTENDS Mq9Envelope, FiniteSets

CONSTANTS
  Msgs,           \* the messages that may arrive in the mailbox
  Subs,           \* the subscriptions the client may make to it
  Sdks,           \* the SDKs considered
  LevelOf,        \* the level of each message
  BodyOf,         \* the body of each message, as it is pushed
  None,           \* no message
  Main,           \* a caller that is not a callback
  MaxReconnects   \* how often a subscription may be registered again

ASSUME SubscriptionAssumption ==
  /\ Sdks \subseteq SDKs
  /\ LevelOf \in [Msgs -> Levels]
  /\ BodyOf \in [Msgs -> Bodies]
  /\ None \notin Msgs
  /\ Main \notin Subs
  /\ MaxReconnects \in Nat

VARIABLES
  sdk,         \* the SDK of the client
  mailbox,     \* the messages stored at the server, in order of arrival
  want,        \* the filter of each subscription
  sub,         \* the state of each subscription
  registered,  \* does the server push to it?
  fed,         \* everything the server has pushed to it, in order
  buffer,      \* what of that waits for the loop
  taken,       \* what of that the loop has taken, in order
  loop,        \* the state of each loop
  cur,         \* the message its callback runs on, or None
  client,      \* "open", "closing", "closed" or "crashed"
  closer,      \* who called close(): a callback's subscription, or Main
  drained,     \* did close() return because the buffers were worked off?
  reconnects   \* how often each subscription was registered again

subVars == <<want, sub, registered, fed, buffer, taken, loop, cur>>
closeVars == <<client, closer, drained>>
vars == <<sdk, mailbox, subVars, closeVars, reconnects>>

-----------------------------------------------------------------------------
(***************************************************************************)
(* Helpers.                                                                *)
(***************************************************************************)

Wanted(s, m) == want[s] \in {"*", LevelOf[m]}

Stored == {mailbox[i] : i \in DOMAIN mailbox}

\* The order of a replay: by level and, within a level, by arrival.
Rank == [critical |-> 1, urgent |-> 2, normal |-> 3]

ArrivedBefore(m1, m2) ==
  \E i, j \in DOMAIN mailbox : i < j /\ mailbox[i] = m1 /\ mailbox[j] = m2

ReplayedBefore(m1, m2) ==
  \/ Rank[LevelOf[m1]] < Rank[LevelOf[m2]]
  \/ LevelOf[m1] = LevelOf[m2] /\ ArrivedBefore(m1, m2)

\* What the server sends a new subscription (external): the stored messages its
\* pattern matches, in that order.  There is exactly one such sequence.
Replays(filter) ==
  LET matching == {m \in Stored : filter \in {"*", LevelOf[m]}}
      n == Cardinality(matching)
  IN  {r \in [1..n -> matching] : \A i, j \in 1..n : i < j => ReplayedBefore(r[i], r[j])}

\* The exceptions a parser lets escape: such a message never gets to a callback.
Unparseable(m) == Parse(sdk, LevelOf[m], BodyOf[m]) = Raised

Listening(s) == sub[s] \in {"live", "flushing"}

\* The loop of s may take its next message.  A stopped loop takes more where
\* the engine looks for the next message before it looks for the stop: Rust
\* and C# until they suspend, JavaScript while its iterator has messages.
MayTake(s) ==
  \/ Listening(s) /\ loop[s] = "idle"
  \/ sub[s] = "stopped" /\ loop[s] = "hot"
  \/ sub[s] = "stopped" /\ loop[s] = "idle" /\ sdk = "javascript"

\* Faulty: the stop is not looked for.
AfterCallbackOn(s) == "idle"

\* Where a loop goes when its callback is over: nats.go and jnats look for the
\* stop before they look for the next message.
AfterCallback(s) ==
  IF sub[s] # "stopped" THEN "idle"
  ELSE IF sdk \in {"go", "java"} THEN "ended" ELSE "hot"

\* The values of f at the members of S replaced by v.
Set(f, S, v) == [x \in DOMAIN f |-> IF x \in S THEN v ELSE f[x]]

\* The loops in S end and what they have not taken is discarded.
EndLoops(S) ==
  /\ loop' = Set(loop, S, "ended")
  /\ cur' = Set(cur, S, None)
  /\ buffer' = Set(buffer, S, <<>>)

Started == {s \in Subs : loop[s] # "none"}
Alive == {s \in Subs : loop[s] \notin {"none", "broken", "ended"}}

-----------------------------------------------------------------------------
Init ==
  /\ sdk \in Sdks
  /\ mailbox = <<>>
  /\ want = [s \in Subs |-> "*"]
  /\ sub = [s \in Subs |-> "none"]
  /\ registered = [s \in Subs |-> FALSE]
  /\ fed = [s \in Subs |-> <<>>]
  /\ buffer = [s \in Subs |-> <<>>]
  /\ taken = [s \in Subs |-> <<>>]
  /\ loop = [s \in Subs |-> "none"]
  /\ cur = [s \in Subs |-> None]
  /\ client = "open"
  /\ closer = Main
  /\ drained = FALSE
  /\ reconnects = [s \in Subs |-> 0]

(***************************************************************************)
(* The server (external).                                                  *)
(***************************************************************************)

\* A message someone sent arrives: it is stored, and pushed to everyone whose
\* pattern matches.
Arrive(m) ==
  LET to == {s \in Subs : registered[s] /\ Wanted(s, m)}
  IN  /\ m \notin Stored
      /\ mailbox' = Append(mailbox, m)
      /\ fed' = [s \in Subs |-> IF s \in to THEN Append(fed[s], m) ELSE fed[s]]
      /\ buffer' = [s \in Subs |-> IF s \in to THEN Append(buffer[s], m) ELSE buffer[s]]
      /\ UNCHANGED <<sdk, want, sub, registered, taken, loop, cur, closeVars, reconnects>>

\* The connection was lost.  On the new one the library registers each of its
\* subscriptions again, and the server, to which it is new, replays the mailbox.
Reregister(s) ==
  /\ registered[s]
  /\ reconnects[s] < MaxReconnects
  /\ reconnects' = [reconnects EXCEPT ![s] = @ + 1]
  /\ \E r \in Replays(want[s]) :
       /\ fed' = [fed EXCEPT ![s] = fed[s] \o r]
       /\ buffer' = [buffer EXCEPT ![s] = buffer[s] \o r]
  /\ UNCHANGED <<sdk, mailbox, want, sub, registered, taken, loop, cur, closeVars>>

(***************************************************************************)
(* subscribe() and the loop.                                               *)
(***************************************************************************)

\* Faulty: what the server replays before the loop starts is thrown away.
SubscribeLate(s, filter) ==
  /\ client = "open"
  /\ sub[s] = "none"
  /\ want' = [want EXCEPT ![s] = filter]
  /\ sub' = [sub EXCEPT ![s] = "live"]
  /\ registered' = [registered EXCEPT ![s] = TRUE]
  /\ \E r \in Replays(filter) : fed' = [fed EXCEPT ![s] = r]
  /\ loop' = [loop EXCEPT ![s] = "idle"]
  /\ UNCHANGED <<sdk, mailbox, buffer, taken, cur, closeVars, reconnects>>

\* The client must be connected; the loop starts and the server replays.
Subscribe(s, filter) ==
  /\ client = "open"
  /\ sub[s] = "none"
  /\ want' = [want EXCEPT ![s] = filter]
  /\ sub' = [sub EXCEPT ![s] = "live"]
  /\ registered' = [registered EXCEPT ![s] = TRUE]
  /\ \E r \in Replays(filter) :
       /\ fed' = [fed EXCEPT ![s] = r]
       /\ buffer' = [buffer EXCEPT ![s] = r]
  /\ loop' = [loop EXCEPT ![s] = "idle"]
  /\ UNCHANGED <<sdk, mailbox, taken, cur, closeVars, reconnects>>

\* Faulty: the latest message is taken first.
TakeLast(s) ==
  LET n == Len(buffer[s])
  IN  /\ MayTake(s)
      /\ n > 0
      /\ buffer' = [buffer EXCEPT ![s] = SubSeq(buffer[s], 1, n - 1)]
      /\ taken' = [taken EXCEPT ![s] = Append(taken[s], buffer[s][n])]
      /\ loop' = [loop EXCEPT ![s] = "running"]
      /\ cur' = [cur EXCEPT ![s] = buffer[s][n]]
      /\ UNCHANGED <<sdk, mailbox, want, sub, registered, fed, closeVars, reconnects>>

\* Faulty: a message stays in the buffer until its callback runs again.
TakeTwice(s) ==
  /\ MayTake(s)
  /\ buffer[s] # <<>>
  /\ Len(taken[s]) <= Len(fed[s])
  /\ taken' = [taken EXCEPT ![s] = Append(taken[s], Head(buffer[s]))]
  /\ loop' = [loop EXCEPT ![s] = "running"]
  /\ cur' = [cur EXCEPT ![s] = Head(buffer[s])]
  /\ UNCHANGED <<sdk, mailbox, want, sub, registered, fed, buffer, closeVars, reconnects>>

\* Faulty: an exception of the parser ends the loop.
TakeOrDie(s) ==
  LET m == Head(buffer[s])
      next == IF Unparseable(m) THEN "ended" ELSE "running"
  IN  /\ MayTake(s)
      /\ buffer[s] # <<>>
      /\ buffer' = [buffer EXCEPT ![s] = Tail(buffer[s])]
      /\ taken' = [taken EXCEPT ![s] = Append(taken[s], m)]
      /\ loop' = [loop EXCEPT ![s] = next]
      /\ cur' = [cur EXCEPT ![s] = IF next = "running" THEN m ELSE None]
      /\ UNCHANGED <<sdk, mailbox, want, sub, registered, fed, closeVars, reconnects>>

\* The loop takes the first message of its buffer and parses it.  Parsed, it
\* goes to the callback; a message the parser raises on is logged and skipped.
Take(s) ==
  LET m == Head(buffer[s])
  IN  /\ MayTake(s)
      /\ buffer[s] # <<>>
      /\ buffer' = [buffer EXCEPT ![s] = Tail(buffer[s])]
      /\ taken' = [taken EXCEPT ![s] = Append(taken[s], m)]
      /\ IF Unparseable(m)
         THEN UNCHANGED <<loop, cur>>
         ELSE /\ loop' = [loop EXCEPT ![s] = "running"]
              /\ cur' = [cur EXCEPT ![s] = m]
      /\ UNCHANGED <<sdk, mailbox, want, sub, registered, fed, closeVars, reconnects>>

\* The callback is over, whether it returned or threw something that is caught:
\* in JavaScript and C# whatever it throws, in Python an Exception, in Java what
\* jnats catches around each message.  One that has called close() waits for that.
Leave(s) ==
  /\ loop[s] = "running"
  /\ ~(client = "closing" /\ closer = s)
  /\ loop' = [loop EXCEPT ![s] = AfterCallback(s)]
  /\ cur' = [cur EXCEPT ![s] = None]
  /\ UNCHANGED <<sdk, mailbox, want, sub, registered, fed, buffer, taken, closeVars, reconnects>>

\* Faulty: JavaScript does not catch what a callback throws either.
PanicAnywhere(s) ==
  /\ sdk \in {"rust", "javascript"}
  /\ loop[s] = "running"
  /\ EndLoops({s})
  /\ registered' = [registered EXCEPT ![s] = FALSE]
  /\ UNCHANGED <<sdk, mailbox, want, sub, fed, taken, closeVars, reconnects>>

\* Python catches no CancelledError, which a callback gets that awaits a task
\* somebody cancels: the loop of the library breaks on it.  The subscription is
\* still registered and is still fed.
PythonCallbackCancelled(s) ==
  /\ sdk = "python"
  /\ loop[s] = "running"
  /\ ~(client = "closing" /\ closer = s)
  /\ loop' = [loop EXCEPT ![s] = "broken"]
  /\ cur' = [cur EXCEPT ![s] = None]
  /\ UNCHANGED <<sdk, mailbox, want, sub, registered, fed, buffer, taken, closeVars, reconnects>>

\* Rust catches nothing: a panic ends the task, and with it the stream; the
\* Subscription handle still looks live.
RustPanic(s) ==
  /\ sdk = "rust"
  /\ loop[s] = "running"
  /\ EndLoops({s})
  /\ registered' = [registered EXCEPT ![s] = FALSE]
  /\ UNCHANGED <<sdk, mailbox, want, sub, fed, taken, closeVars, reconnects>>

\* Go recovers nothing: a panic ends the process.
GoPanic(s) ==
  /\ sdk = "go"
  /\ loop[s] = "running"
  /\ EndLoops(Started)
  /\ registered' = Set(registered, Subs, FALSE)
  /\ client' = "crashed"
  /\ UNCHANGED <<sdk, mailbox, want, sub, fed, taken, closer, drained, reconnects>>

(***************************************************************************)
(* unsubscribe().                                                          *)
(***************************************************************************)

\* Rust aborts the task.  A task that is suspended is dropped, with its stream;
\* one that is being polled, in the callback or about to take a message, goes
\* on, still registered, until it suspends.
RustUnsubscribe(s) ==
  /\ sdk = "rust"
  /\ sub[s] = "live"
  /\ sub' = [sub EXCEPT ![s] = "stopped"]
  /\ \/ /\ loop[s] \in {"idle", "ended"}
        /\ EndLoops({s})
        /\ registered' = [registered EXCEPT ![s] = FALSE]
     \/ /\ loop[s] = "idle" /\ buffer[s] # <<>>
        /\ loop' = [loop EXCEPT ![s] = "hot"]
        /\ UNCHANGED <<registered, buffer, cur>>
     \/ /\ loop[s] = "running"
        /\ UNCHANGED <<registered, buffer, loop, cur>>
  /\ UNCHANGED <<sdk, mailbox, want, fed, taken, closeVars, reconnects>>

\* The aborted task suspends, in the callback or in the loop, and is dropped.
RustAborted(s) ==
  /\ sdk = "rust"
  /\ sub[s] = "stopped"
  /\ loop[s] \in {"running", "hot"}
  /\ EndLoops({s})
  /\ registered' = [registered EXCEPT ![s] = FALSE]
  /\ UNCHANGED <<sdk, mailbox, want, sub, fed, taken, closeVars, reconnects>>

\* Python cancels the loop's task, wherever it is suspended.  A callback that
\* unsubscribes itself is not suspended: if it returns without being so, the
\* task takes what is pending, message after message, until it is.
PythonUnsubscribe(s) ==
  /\ sdk = "python"
  /\ sub[s] = "live"
  /\ sub' = [sub EXCEPT ![s] = "stopped"]
  /\ registered' = [registered EXCEPT ![s] = FALSE]
  /\ \E k \in 0..Len(buffer[s]) :
       /\ k > 0 => loop[s] = "running"
       /\ taken' = [taken EXCEPT ![s] = taken[s] \o SubSeq(buffer[s], 1, k)]
  /\ EndLoops({s})
  /\ UNCHANGED <<sdk, mailbox, want, fed, closeVars, reconnects>>

\* Go and Java discard what is pending and let the callback finish.
GoUnsubscribe(s) ==
  /\ sdk \in {"go", "java"}
  /\ client # "crashed"
  /\ sub[s] = "live"
  /\ sub' = [sub EXCEPT ![s] = "stopped"]
  /\ registered' = [registered EXCEPT ![s] = FALSE]
  /\ buffer' = [buffer EXCEPT ![s] = <<>>]
  /\ loop' = [loop EXCEPT ![s] = IF @ = "idle" THEN "ended" ELSE @]
  /\ UNCHANGED <<sdk, mailbox, want, fed, taken, cur, closeVars, reconnects>>

\* JavaScript tells the iterator to stop, which it does after the messages it
\* has already fetched.
JsUnsubscribe(s) ==
  /\ sdk = "javascript"
  /\ sub[s] = "live"
  /\ sub' = [sub EXCEPT ![s] = "stopped"]
  /\ registered' = [registered EXCEPT ![s] = FALSE]
  /\ UNCHANGED <<sdk, mailbox, want, fed, buffer, taken, loop, cur, closeVars, reconnects>>

JsIteratorEnds(s) ==
  /\ sdk = "javascript"
  /\ sub[s] = "stopped"
  /\ loop[s] \in {"idle", "hot"}
  /\ EndLoops({s})
  /\ UNCHANGED <<sdk, mailbox, want, sub, registered, fed, taken, closeVars, reconnects>>

\* C# cancels the token, which the loop looks at only when its channel is empty
\* and it waits, and does not wait for the loop.
CsUnsubscribe(s) ==
  /\ sdk = "csharp"
  /\ sub[s] = "live"
  /\ sub' = [sub EXCEPT ![s] = "stopped"]
  /\ registered' = [registered EXCEPT ![s] = FALSE]
  /\ \/ loop[s] = "idle" /\ EndLoops({s})
     \/ /\ loop[s] = "idle" /\ buffer[s] # <<>>
        /\ loop' = [loop EXCEPT ![s] = "hot"]
        /\ UNCHANGED <<buffer, cur>>
     \/ loop[s] = "running" /\ UNCHANGED <<buffer, loop, cur>>
  /\ UNCHANGED <<sdk, mailbox, want, fed, taken, closeVars, reconnects>>

CsLoopCancelled(s) ==
  /\ sdk = "csharp"
  /\ sub[s] = "stopped"
  /\ loop[s] = "hot"
  /\ buffer[s] = <<>>
  /\ EndLoops({s})
  /\ UNCHANGED <<sdk, mailbox, want, sub, registered, fed, taken, closeVars, reconnects>>

(***************************************************************************)
(* close().                                                                *)
(***************************************************************************)

\* Rust flushes what it has to send and drops the client; the tasks hold the
\* connection open through their streams.
RustClose ==
  /\ sdk = "rust"
  /\ client = "open"
  /\ client' = "closed"
  /\ UNCHANGED <<sdk, mailbox, subVars, closer, drained, reconnects>>

\* C# disposes the connection: nothing new comes in, and the loops, which are
\* not cancelled, work off what they have.
CsClose ==
  /\ sdk = "csharp"
  /\ client = "open"
  /\ client' = "closed"
  /\ sub' = Set(sub, {s \in Subs : sub[s] = "live"}, "flushing")
  /\ registered' = Set(registered, Subs, FALSE)
  /\ UNCHANGED <<sdk, mailbox, want, fed, buffer, taken, loop, cur, closer, drained, reconnects>>

\* Go starts a drain in the background and returns.
GoClose ==
  /\ sdk = "go"
  /\ client = "open"
  /\ client' = "closed"
  /\ UNCHANGED <<sdk, mailbox, subVars, closer, drained, reconnects>>

\* Faulty: they do not wait.
CloseUnawaited(c) ==
  /\ sdk \in {"python", "javascript", "java"}
  /\ client = "open"
  /\ c = Main
  /\ client' = "closed"
  /\ UNCHANGED <<sdk, mailbox, subVars, closer, drained, reconnects>>

\* Python, JavaScript and Java start a drain and wait for it.  The caller may be
\* a callback: c is its subscription then.
CloseStarts(c) ==
  /\ sdk \in {"python", "javascript", "java"}
  /\ client = "open"
  /\ c \in Subs => loop[c] = "running"
  /\ client' = "closing"
  /\ closer' = c
  /\ UNCHANGED <<sdk, mailbox, subVars, drained, reconnects>>

Draining == client = "closing" \/ (client = "closed" /\ sdk = "go")

\* The server has taken note of the drain (external): it pushes nothing more,
\* and the loops work off what has come in until then.
DrainReachesServer ==
  /\ Draining
  /\ \E s \in Subs : sub[s] = "live"
  /\ sub' = Set(sub, {s \in Subs : sub[s] = "live"}, "flushing")
  /\ registered' = Set(registered, Subs, FALSE)
  /\ UNCHANGED <<sdk, mailbox, want, fed, buffer, taken, loop, cur, closeVars, reconnects>>

Flushing == {s \in Subs : sub[s] = "flushing"}

\* Faulty: a callback that runs is not waited for.
AllEmpty ==
  /\ \A s \in Subs : sub[s] # "live"
  /\ \A s \in Flushing : buffer[s] = <<>>

AllFlushed ==
  /\ \A s \in Subs : sub[s] # "live"
  /\ \A s \in Flushing : loop[s] \in {"idle", "broken", "ended"} /\ buffer[s] = <<>>

\* The drain Python and Java wait for is over: every buffer is worked off, and
\* the loops, which have nothing to do, end.  Messages in the buffer of a broken
\* loop keep Python's from being over.
CloseDrained ==
  /\ sdk \in {"python", "java"}
  /\ client = "closing"
  /\ AllFlushed
  /\ client' = "closed"
  /\ drained' = TRUE
  /\ EndLoops({s \in Flushing : loop[s] \in {"idle", "broken"}})
  /\ UNCHANGED <<sdk, mailbox, want, sub, registered, fed, taken, closer, reconnects>>

\* Java's close() swallows an interrupt of the callback that waits in it, too: the
\* callback goes on, and so does the drain, for which nobody waits any more.
JavaInterrupted ==
  /\ sdk = "java"
  /\ client = "closing"
  /\ closer \in Subs
  /\ closer' = Main
  /\ UNCHANGED <<sdk, mailbox, subVars, client, drained, reconnects>>

\* Faulty: a drain is waited for without a limit.
DrainForever == Draining /\ UNCHANGED vars

\* Java waits for at most five seconds, the libraries of Python and Go for
\* thirty; then the connection is closed and what is pending is discarded.  The
\* libraries of Java and Go let a callback finish, Python's cancels it.
DrainTimesOut ==
  /\ sdk \in {"python", "java", "go"}
  /\ Draining
  /\ Flushing # {} /\ ~AllFlushed
  /\ client' = "closed"
  /\ sub' = Set(sub, Flushing, "stopped")
  /\ buffer' = Set(buffer, Flushing, <<>>)
  /\ LET ends == IF sdk = "python" THEN Flushing ELSE {s \in Flushing : loop[s] = "idle"}
     IN  loop' = Set(loop, ends, "ended") /\ cur' = Set(cur, ends, None)
  /\ UNCHANGED <<sdk, mailbox, want, registered, fed, taken, closer, drained, reconnects>>

\* JavaScript's drain waits for the server, not for the loops: the iterators
\* are told to stop.
JsCloseEnds ==
  /\ sdk = "javascript"
  /\ client = "closing"
  /\ \A s \in Subs : sub[s] # "live"
  /\ client' = "closed"
  /\ sub' = Set(sub, Flushing, "stopped")
  /\ UNCHANGED <<sdk, mailbox, want, registered, fed, buffer, taken, loop, cur, closer,
                 drained, reconnects>>

\* A loop of C# or Go that has worked off its buffer after close() ends.
FlushedLoopEnds(s) ==
  /\ sdk \in {"csharp", "go"}
  /\ client = "closed"
  /\ sub[s] = "flushing"
  /\ loop[s] = "idle"
  /\ buffer[s] = <<>>
  /\ EndLoops({s})
  /\ UNCHANGED <<sdk, mailbox, want, sub, registered, fed, taken, closeVars, reconnects>>

-----------------------------------------------------------------------------
Unsubscribe(s) ==
  \/ RustUnsubscribe(s) \/ PythonUnsubscribe(s) \/ GoUnsubscribe(s)
  \/ JsUnsubscribe(s) \/ CsUnsubscribe(s)

LoopStops(s) ==
  \/ RustAborted(s) \/ JsIteratorEnds(s) \/ CsLoopCancelled(s) \/ FlushedLoopEnds(s)

CloseProceeds == DrainReachesServer \/ CloseDrained \/ DrainTimesOut \/ JsCloseEnds

\* Nothing is left to do: the loops of a closed client are gone.
Terminated ==
  /\ client \in {"closed", "crashed"}
  /\ Alive = {}
  /\ UNCHANGED vars

Next ==
  \/ \E m \in Msgs : Arrive(m)
  \/ \E s \in Subs, filter \in Filters : Subscribe(s, filter)
  \/ \E s \in Subs :
       \/ Reregister(s) \/ Take(s) \/ Leave(s) \/ RustPanic(s) \/ GoPanic(s)
       \/ PythonCallbackCancelled(s) \/ Unsubscribe(s) \/ LoopStops(s)
  \/ RustClose \/ CsClose \/ GoClose
  \/ \E c \in Subs \cup {Main} : CloseStarts(c)
  \/ CloseProceeds \/ JavaInterrupted
  \/ Terminated

\* The schedulers of the six engines run what can run, a callback ends, the
\* server answers, and the timers of the libraries fire.  Nothing makes a
\* message arrive or the application call anything.
Fairness ==
  /\ \A s \in Subs : WF_vars(Take(s)) /\ WF_vars(Leave(s)) /\ WF_vars(LoopStops(s))
  /\ WF_vars(CloseProceeds)

Spec == Init /\ [][Next]_vars

FairSpec == Spec /\ Fairness

-----------------------------------------------------------------------------
(***************************************************************************)
(* Properties.                                                             *)
(***************************************************************************)

\* The variables keep their shape, and a loop has a current message exactly
\* while its callback runs.
TypeOK ==
  /\ sdk \in Sdks
  /\ mailbox \in Seq(Msgs)
  /\ want \in [Subs -> Filters]
  /\ sub \in [Subs -> {"none", "live", "stopped", "flushing"}]
  /\ registered \in [Subs -> BOOLEAN]
  /\ fed \in [Subs -> Seq(Msgs)]
  /\ buffer \in [Subs -> Seq(Msgs)]
  /\ taken \in [Subs -> Seq(Msgs)]
  /\ loop \in [Subs -> {"none", "idle", "running", "hot", "broken", "ended"}]
  /\ cur \in [Subs -> Msgs \cup {None}]
  /\ \A s \in Subs : cur[s] = None <=> loop[s] # "running"
  /\ client \in {"open", "closing", "closed", "crashed"}
  /\ closer \in Subs \cup {Main}
  /\ drained \in BOOLEAN
  /\ reconnects \in [Subs -> 0..MaxReconnects]

IsPrefixOf(p, q) == \E rest \in {SubSeq(q, Len(p) + 1, Len(q))} : q = p \o rest

\* A subscription that has not been stopped loses nothing and reorders nothing:
\* what its loop has taken and what waits for it are exactly what the server
\* pushed, across replays, live messages and reconnections; and however it was
\* stopped, what its loop has taken is a prefix of that.
NothingSkipped ==
  \A s \in Subs :
    /\ IsPrefixOf(taken[s] \o buffer[s], fed[s])
    /\ Listening(s) /\ loop[s] # "ended" => taken[s] \o buffer[s] = fed[s]

\* Messages of one level reach a callback for the first time in the order in
\* which they arrived, whichever way each came: replayed, live or replayed
\* again.
FirstInOrder ==
  \A s \in Subs : \A j \in DOMAIN taken[s] : \A m \in Stored :
    (ArrivedBefore(m, taken[s][j]) /\ LevelOf[m] = LevelOf[taken[s][j]])
      => \E i \in 1..(j - 1) : taken[s][i] = m

\* A message is taken again only because the connection was lost: once per
\* registration at most.
OncePerRegistration ==
  \A s \in Subs, m \in Msgs :
    Cardinality({i \in DOMAIN taken[s] : taken[s][i] = m}) <= 1 + reconnects[s]

\* While the client is open, a subscription that was not cancelled has a loop
\* that listens: no message and no exception of a callback ends it.  Two things
\* do, and nothing tells the application: in Rust a panic of the callback, in
\* Python a CancelledError.
LoopsSurvive ==
  \A s \in Subs :
    sub[s] = "live" /\ client = "open" =>
      \/ loop[s] \in {"idle", "running"}
      \/ sdk = "rust" /\ loop[s] = "ended"
      \/ sdk = "python" /\ loop[s] = "broken"

\* If close() has drained the connection of Python or Java, every message that
\* was pushed to a subscription still in use went to its callback, and no
\* callback is running.
DrainedMeansHandled ==
  drained => \A s \in Flushing : taken[s] = fed[s] /\ cur[s] = None

\* Once close() has done its work no callback is called.  (That is when it has
\* returned, unless Java's was interrupted while it waited.)
CloseIsQuiet == [][client = "closed" => taken' = taken]_vars

\* close() returns, even if it is called in a callback it waits for.
CloseReturns == client = "closing" ~> client = "closed"

\* To the application a subscription of any SDK is the queue of Mq9Feed: nothing
\* is skipped, repeated or reordered by its loop; once the loop has ended or is
\* broken nothing is handled any more, and once it has ended nothing is pushed.
Feed == INSTANCE Mq9Feed WITH
          over <- {s \in Subs : loop[s] \in {"broken", "ended"}},
          gone <- {s \in Subs : loop[s] = "ended"}

ImplementsFeed == Feed!Spec

\* The queue is worked off, too.
ImplementsFairFeed == Feed!FairSpec

\* A loop that was told to stop is gone in the end.
StoppedLoopsEnd == \A s \in Subs : sub[s] = "stopped" ~> loop[s] = "ended"
=============================================================================
