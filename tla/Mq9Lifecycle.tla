---------------------------- MODULE Mq9Lifecycle ----------------------------
(***************************************************************************)
(* connect(), close() and send() of one client object, called by several   *)
(* tasks of the application (asyncio tasks, promises, goroutines, threads) *)
(* whose steps interleave wherever the code awaits or blocks.              *)
(*                                                                         *)
(* The client holds at most one NATS connection, in one field (_nc, nc,    *)
(* _transport), its handle here.  Nothing guards that field: connect()     *)
(* overwrites it when the connection is made, close() of Python,           *)
(* JavaScript and C# clears it when the drain it awaited is over, and Go   *)
(* and Java never clear it.  The Rust client is not here: it is made by    *)
(* connect(), consumed by close(self), and cannot be used in between.      *)
(*                                                                         *)
(* A connection is unused, connecting, then refused or open, reconnecting  *)
(* after it was lost, draining, stuck in a drain that failed, or closed.   *)
(* What was published on it is in its outbox until it has arrived: when    *)
(* the connection is lost, the library holds some of it still and writes   *)
(* that on the next one, and the rest is gone.                             *)
(***************************************************************************)
EXTENDS Naturals, FiniteSets

CONSTANTS
  Sdks,          \* the SDKs considered
  Tasks,         \* the tasks that use the client
  Conns,         \* the connections that can be made: a bound on connect()
  Messages,      \* the messages that can be sent: a bound on send()
  NoConn         \* no connection

ASSUME LifecycleAssumption ==
  /\ Sdks \subseteq {"python", "go", "javascript", "java", "csharp"}
  /\ NoConn \notin Conns

VARIABLES
  sdk,        \* the SDK of the client
  disciplined,\* does the application connect only when it has no usable
              \* connection, and never overlap connect() and close()?
  handle,     \* the client's connection, or NoConn
  conn,       \* the state of each connection
  pc,         \* what each task is doing: "idle", "connect", "close", "failed",
              \* "clear" or "send"
  awaits,     \* the connection it does that with, or NoConn
  outbox,     \* the messages accepted by each connection that may still arrive
  stored,     \* the messages that reached the server
  accepted,   \* the messages each connection has accepted
  met,        \* those that had not arrived when the connection was lost
  undrained,  \* the connections on which a drain has failed
  sending,    \* the message each C# task is about to publish: none or one
  rejected,   \* the messages send() raised an error on
  nullUses,   \* those on which it used a handle that had been cleared, each
              \* with the connection it had found
  released    \* the connections whose close() has returned normally

setup == <<sdk, disciplined>>
connVars == <<handle, conn>>
taskVars == <<pc, awaits>>
boxVars == <<outbox, stored, accepted, met>>
callVars == <<sending, rejected, nullUses>>
closeVars == <<undrained, released>>
vars == <<setup, connVars, taskVars, boxVars, callVars, closeVars>>

Init ==
  /\ sdk \in Sdks
  /\ disciplined \in BOOLEAN
  /\ handle = NoConn
  /\ conn = [c \in Conns |-> "unused"]
  /\ pc = [t \in Tasks |-> "idle"]
  /\ awaits = [t \in Tasks |-> NoConn]
  /\ outbox = [c \in Conns |-> {}]
  /\ stored = {}
  /\ accepted = [c \in Conns |-> {}]
  /\ met = [c \in Conns |-> {}]
  /\ undrained = {}
  /\ sending = [t \in Tasks |-> {}]
  /\ rejected = {}
  /\ nullUses = {}
  /\ released = {}

-----------------------------------------------------------------------------
\* The library goes on with a connection that is lost, and makes it again.
Usable == {"open", "reconnecting"}

HasUsable == handle # NoConn /\ conn[handle] \in Usable

\* Nobody else is in connect() or close().
Alone == \A t \in Tasks : pc[t] \in {"idle", "send"}

Await(t, what, c) ==
  /\ pc' = [pc EXCEPT ![t] = what]
  /\ awaits' = [awaits EXCEPT ![t] = c]

Finish(t) == Await(t, "idle", NoConn)

\* What is in the outbox arrives, or never will.
Flushed(c) ==
  /\ stored' = stored \cup outbox[c]
  /\ outbox' = [outbox EXCEPT ![c] = {}]
  /\ UNCHANGED <<accepted, met>>

Dropped(c) ==
  /\ outbox' = [outbox EXCEPT ![c] = {}]
  /\ UNCHANGED <<stored, accepted, met>>

(***************************************************************************)
(* connect().                                                              *)
(***************************************************************************)

\* The call starts a new connection, whatever the handle is, and waits for it.
ConnectStart(t) ==
  /\ pc[t] = "idle"
  /\ disciplined => Alone /\ ~HasUsable
  /\ \E c \in Conns :
       /\ conn[c] = "unused"
       /\ conn' = [conn EXCEPT ![c] = "connecting"]
       /\ Await(t, "connect", c)
  /\ UNCHANGED <<setup, handle, boxVars, callVars, closeVars>>

\* The library answers (external).
ConnectionMade(c) ==
  /\ conn[c] = "connecting"
  /\ \E outcome \in {"open", "refused"} : conn' = [conn EXCEPT ![c] = outcome]
  /\ UNCHANGED <<setup, handle, taskVars, boxVars, callVars, closeVars>>

\* Faulty: a connection that is refused is asked for again.
ConnectEndRetries(t) ==
  /\ pc[t] = "connect"
  /\ conn[awaits[t]] # "connecting"
  /\ IF conn[awaits[t]] = "refused"
     THEN conn' = [conn EXCEPT ![awaits[t]] = "connecting"] /\ UNCHANGED <<handle, taskVars>>
     ELSE handle' = awaits[t] /\ Finish(t) /\ UNCHANGED conn
  /\ UNCHANGED <<setup, boxVars, callVars, closeVars>>

\* The task goes on: it sets the handle, or raises an error and leaves it.  The
\* connection that was made may be lost again by then.
ConnectEnd(t) ==
  /\ pc[t] = "connect"
  /\ conn[awaits[t]] # "connecting"
  /\ handle' = IF conn[awaits[t]] = "refused" THEN handle ELSE awaits[t]
  /\ Finish(t)
  /\ UNCHANGED <<setup, conn, boxVars, callVars, closeVars>>

(***************************************************************************)
(* close().                                                                *)
(***************************************************************************)

CloseCall(t, languages) ==
  /\ sdk \in languages
  /\ pc[t] = "idle"
  /\ disciplined => Alone

\* Without a handle there is nothing to drain; but JavaScript and C# come to
\* clear the field all the same, when others may have set it.
CloseNothing(t) ==
  /\ CloseCall(t, Sdks)
  /\ handle = NoConn
  /\ IF sdk \in {"javascript", "csharp"} THEN Await(t, "clear", NoConn) ELSE UNCHANGED taskVars
  /\ UNCHANGED <<setup, connVars, boxVars, callVars, closeVars>>

\* Faulty: the handle is cleared and the drain forgotten.
CloseForgets(t) ==
  /\ CloseCall(t, {"python"})
  /\ handle # NoConn
  /\ handle' = NoConn
  /\ UNCHANGED <<setup, conn, taskVars, boxVars, callVars, closeVars>>

\* Python drains the connection and waits.  If that was begun before, drain()
\* returns at once, the handle is cleared and close() returns.  If the
\* connection is closed, or lost for the moment, drain() raises, which leaves
\* the handle.
PythonClose(t) ==
  /\ CloseCall(t, {"python"})
  /\ handle # NoConn
  /\ CASE conn[handle] = "open" ->
            /\ conn' = [conn EXCEPT ![handle] = "draining"]
            /\ Await(t, "close", handle)
            /\ UNCHANGED <<handle, released>>
       [] conn[handle] \in {"draining", "stuck"} ->
            /\ handle' = NoConn
            /\ released' = released \cup {handle}
            /\ UNCHANGED <<conn, taskVars>>
       [] OTHER -> UNCHANGED <<connVars, taskVars, released>>
  /\ UNCHANGED <<setup, boxVars, callVars, undrained>>

\* JavaScript drains it even if it is lost for the moment; drain() rejects if it
\* is closed or was drained before.
JsClose(t) ==
  /\ CloseCall(t, {"javascript"})
  /\ handle # NoConn
  /\ IF conn[handle] \in Usable
     THEN /\ conn' = [conn EXCEPT ![handle] = "draining"]
          /\ Await(t, "close", handle)
     ELSE UNCHANGED <<conn, taskVars>>
  /\ UNCHANGED <<setup, handle, boxVars, callVars, closeVars>>

\* Faulty: the field is cleared before the connection is disposed.
CsCloseClearsFirst(t) ==
  /\ CloseCall(t, {"csharp"})
  /\ handle # NoConn
  /\ conn' = [conn EXCEPT ![handle] = IF @ \in Usable THEN "draining" ELSE @]
  /\ Await(t, "close", handle)
  /\ handle' = NoConn
  /\ UNCHANGED <<setup, boxVars, callVars, closeVars>>

\* C# disposes the connection, which waits for nobody if it was begun before.
CsClose(t) ==
  /\ CloseCall(t, {"csharp"})
  /\ handle # NoConn
  /\ IF conn[handle] \in Usable
     THEN /\ conn' = [conn EXCEPT ![handle] = "draining"]
          /\ Await(t, "close", handle)
     ELSE Await(t, "clear", handle) /\ UNCHANGED conn
  /\ UNCHANGED <<setup, handle, boxVars, callVars, closeVars>>

\* Faulty: the future of the drain is not waited for.
JavaCloseUnawaited(t) ==
  /\ CloseCall(t, {"java"})
  /\ handle # NoConn
  /\ conn' = [conn EXCEPT ![handle] = IF @ \in Usable THEN "draining" ELSE @]
  /\ released' = released \cup {handle}
  /\ UNCHANGED <<setup, handle, taskVars, boxVars, callVars, undrained>>

\* Java waits for the drain, whoever started it, and swallows every error.
JavaClose(t) ==
  /\ CloseCall(t, {"java"})
  /\ handle # NoConn
  /\ conn' = [conn EXCEPT ![handle] = IF @ \in Usable THEN "draining" ELSE @]
  /\ Await(t, "close", handle)
  /\ UNCHANGED <<setup, handle, boxVars, callVars, closeVars>>

\* Its thread may be interrupted while it waits: close() returns like ever, but
\* has not waited.
JavaInterrupted(t) ==
  /\ sdk = "java"
  /\ pc[t] = "close"
  /\ Finish(t)
  /\ UNCHANGED <<setup, connVars, boxVars, callVars, closeVars>>

\* Go starts the drain and returns; draining again is no error.  Draining a
\* closed connection is one, and one that is lost is closed with an error.
GoClose(t) ==
  /\ CloseCall(t, {"go"})
  /\ handle # NoConn
  /\ CASE conn[handle] = "reconnecting" ->
            /\ conn' = [conn EXCEPT ![handle] = "closed"]
            /\ Dropped(handle)
            /\ UNCHANGED released
       [] conn[handle] \in {"open", "draining"} ->
            /\ conn' = [conn EXCEPT ![handle] = "draining"]
            /\ released' = released \cup {handle}
            /\ UNCHANGED boxVars
       [] OTHER -> UNCHANGED <<conn, boxVars, released>>
  /\ UNCHANGED <<setup, handle, taskVars, callVars, undrained>>

\* The library has drained the connection (external): it flushes the outbox and
\* closes.  In Go and Java that may run out of time, and C#'s disposal does not
\* flush.
DrainEnds(c) ==
  /\ conn[c] = "draining"
  /\ conn' = [conn EXCEPT ![c] = "closed"]
  /\ Flushed(c) \/ (sdk \notin {"python", "javascript"} /\ Dropped(c))
  /\ UNCHANGED <<setup, handle, taskVars, callVars, closeVars>>

\* In Python and JavaScript the flush may fail (external): because the
\* connection is lost meanwhile, or the server or the caller gives up.  The
\* connection is not closed: it takes no more, or, in Python, is made again.
DrainFails(c) ==
  /\ sdk \in {"python", "javascript"}
  /\ conn[c] = "draining"
  /\ \E outcome \in {"stuck"} \cup (IF sdk = "python" THEN {"reconnecting"} ELSE {}) :
       conn' = [conn EXCEPT ![c] = outcome]
  /\ undrained' = undrained \cup {c}
  /\ pc' = [t \in Tasks |-> IF pc[t] = "close" /\ awaits[t] = c THEN "failed" ELSE pc[t]]
  /\ UNCHANGED <<setup, handle, awaits, boxVars, callVars, released>>

\* The waiting task goes on.  Except in Java it clears the handle, whichever
\* connection that holds by now.
CloseEnd(t) ==
  /\ pc[t] = "close"
  /\ conn[awaits[t]] = "closed"
  /\ handle' = IF sdk = "java" THEN handle ELSE NoConn
  /\ released' = released \cup {awaits[t]}
  /\ Finish(t)
  /\ UNCHANGED <<setup, conn, boxVars, callVars, undrained>>

\* It raises an error, which leaves the handle; but nats.js may hide a flush
\* that failed (external), and close() then ends like any other.
CloseFails(t) ==
  /\ pc[t] = "failed"
  /\ \/ UNCHANGED <<handle, released>>
     \/ sdk = "javascript" /\ handle' = NoConn /\ released' = released \cup {awaits[t]}
  /\ Finish(t)
  /\ UNCHANGED <<setup, conn, boxVars, callVars, undrained>>

\* Where nothing had to be waited for, the field is cleared a step later.
CloseClears(t) ==
  /\ pc[t] = "clear"
  /\ handle' = NoConn
  /\ released' = released \cup ({awaits[t]} \ {NoConn})
  /\ Finish(t)
  /\ UNCHANGED <<setup, conn, boxVars, callVars, undrained>>

(***************************************************************************)
(* The connection (external).                                              *)
(***************************************************************************)

\* It is lost, and some of what had not arrived with it.  A drain goes on.
Disconnect(c) ==
  /\ conn[c] \in {"open", "draining", "stuck"}
  /\ conn' = [conn EXCEPT ![c] =
       IF @ = "open" \/ (@ = "stuck" /\ sdk = "python") THEN "reconnecting" ELSE @]
  /\ \E L \in SUBSET outbox[c] : outbox' = [outbox EXCEPT ![c] = @ \ L]
  /\ met' = [met EXCEPT ![c] = @ \cup outbox[c]]
  /\ UNCHANGED <<setup, handle, taskVars, stored, accepted, callVars, closeVars>>

\* It is made again.
Reconnect(c) ==
  /\ conn[c] = "reconnecting"
  /\ conn' = [conn EXCEPT ![c] = "open"]
  /\ UNCHANGED <<setup, handle, taskVars, boxVars, callVars, closeVars>>

\* The library gives up reconnecting: after ten attempts in Python and
\* JavaScript, never in the others.
GiveUp(c) ==
  /\ sdk \in {"python", "javascript"}
  /\ conn[c] \in {"reconnecting", "stuck"}
  /\ conn' = [conn EXCEPT ![c] = "closed"]
  /\ Dropped(c)
  /\ UNCHANGED <<setup, handle, taskVars, callVars, closeVars>>

\* What the library holds is written out, in the background, and arrives.
WriteOut(c) ==
  /\ conn[c] \in {"open", "draining", "stuck"}
  /\ outbox[c] # {}
  /\ Flushed(c)
  /\ UNCHANGED <<setup, connVars, taskVars, callVars, closeVars>>

(***************************************************************************)
(* send().                                                                 *)
(***************************************************************************)

Sent == rejected \cup UNION {accepted[c] : c \in Conns} \cup UNION {sending[t] : t \in Tasks}

\* publish() on the handle.  A connection that is lost for the moment takes
\* messages too, and one being drained until its flush begins.
Accept(m) ==
  /\ handle # NoConn
  /\ conn[handle] \in Usable \cup {"draining"}
  /\ outbox' = [outbox EXCEPT ![handle] = @ \cup {m}]
  /\ accepted' = [accepted EXCEPT ![handle] = @ \cup {m}]
  /\ UNCHANGED <<stored, met, rejected>>

Refuse(m) ==
  /\ ~HasUsable
  /\ rejected' = rejected \cup {m}
  /\ UNCHANGED boxVars

Publish(m) == Accept(m) \/ Refuse(m)

\* Nothing comes between checking the handle and using it: in Python and
\* JavaScript there is no await, and Go and Java never clear it.
Send(t, m) ==
  /\ sdk # "csharp" \/ handle = NoConn
  /\ pc[t] = "idle"
  /\ m \in Messages \ Sent
  /\ Publish(m)
  /\ UNCHANGED <<setup, connVars, taskVars, sending, nullUses, closeVars>>

\* In C#, DisposeAsync of another thread can: the field is read a second time.
CsSendCheck(t, m) ==
  /\ sdk = "csharp"
  /\ pc[t] = "idle"
  /\ m \in Messages \ Sent
  /\ handle # NoConn
  /\ Await(t, "send", handle)
  /\ sending' = [sending EXCEPT ![t] = {m}]
  /\ UNCHANGED <<setup, connVars, boxVars, rejected, nullUses, closeVars>>

CsSendPublish(t) ==
  /\ pc[t] = "send"
  /\ \E m \in sending[t] :
       /\ Publish(m)
       /\ nullUses' = IF handle = NoConn
                      THEN nullUses \cup {[msg |-> m, found |-> awaits[t]]} ELSE nullUses
  /\ sending' = [sending EXCEPT ![t] = {}]
  /\ Finish(t)
  /\ UNCHANGED <<setup, connVars, closeVars>>

-----------------------------------------------------------------------------
Close(t) ==
  \/ CloseNothing(t) \/ PythonClose(t) \/ JsClose(t) \/ CsClose(t) \/ JavaClose(t) \/ GoClose(t)

CloseGoesOn(t) == CloseEnd(t) \/ CloseFails(t) \/ CloseClears(t)

Drained(c) == DrainEnds(c) \/ DrainFails(c)

Next ==
  \/ \E t \in Tasks : ConnectStart(t) \/ ConnectEnd(t)
  \/ \E t \in Tasks : Close(t) \/ JavaInterrupted(t) \/ CloseGoesOn(t)
  \/ \E t \in Tasks, m \in Messages : Send(t, m) \/ CsSendCheck(t, m)
  \/ \E t \in Tasks : CsSendPublish(t)
  \/ \E c \in Conns : ConnectionMade(c) \/ Drained(c)
  \/ \E c \in Conns : Disconnect(c) \/ Reconnect(c) \/ GiveUp(c) \/ WriteOut(c)

\* The schedulers resume a task whose wait is over, and the library, which has
\* a timeout on each of these, answers.
Fairness ==
  /\ \A t \in Tasks : WF_vars(ConnectEnd(t)) /\ WF_vars(CloseGoesOn(t))
  /\ \A c \in Conns : WF_vars(ConnectionMade(c)) /\ WF_vars(Drained(c))

Spec == Init /\ [][Next]_vars

FairSpec == Spec /\ Fairness

-----------------------------------------------------------------------------
(***************************************************************************)
(* Properties.                                                             *)
(***************************************************************************)

\* The variables keep their shape.
TypeOK ==
  /\ sdk \in Sdks
  /\ disciplined \in BOOLEAN
  /\ handle \in Conns \cup {NoConn}
  /\ conn \in [Conns ->
       Usable \cup {"unused", "connecting", "refused", "draining", "stuck", "closed"}]
  /\ pc \in [Tasks -> {"idle", "connect", "close", "failed", "clear", "send"}]
  /\ awaits \in [Tasks -> Conns \cup {NoConn}]
  /\ {outbox, accepted, met} \subseteq [Conns -> SUBSET Messages]
  /\ stored \subseteq Messages
  /\ undrained \subseteq Conns
  /\ sending \in [Tasks -> SUBSET Messages]
  /\ rejected \subseteq Messages
  /\ nullUses \subseteq [msg : Messages, found : Conns]
  /\ released \subseteq Conns

\* If the application is disciplined, no usable connection is out of reach: it
\* is the client's, or a task that is connecting will make it so; except one
\* whose drain has failed, which Python makes again behind its back.
NoLeak ==
  disciplined => \A c \in Conns \ undrained :
    conn[c] \in Usable => handle = c \/ \E t \in Tasks : pc[t] = "connect" /\ awaits[t] = c

\* If the application is disciplined, the connection is closed when close() has
\* returned and holds no message back, unless a drain of it failed.  In Python
\* and JavaScript, where a drain ends with a flush, what send() accepted before
\* has reached the server, but for what was on its way when the connection was
\* lost.  (Not in Go, which does not wait for the drain it starts, nor where
\* Java's wait was interrupted.)
CloseMeansClosed ==
  disciplined /\ sdk # "go" => \A c \in released \ undrained :
    /\ conn[c] = "closed" /\ outbox[c] = {}
    /\ sdk \in {"python", "javascript"} => accepted[c] \ met[c] \subseteq stored

\* A connection takes no more messages once close() has returned for it, with
\* any overlap of calls.  (In Go a connection being drained still takes some,
\* and in Java so does one whose close() was interrupted.)
NothingAfterClose ==
  [][sdk # "go" => \A c \in released : \A m \in outbox'[c] : m \in outbox[c]]_vars

\* If the application is disciplined, send() uses a handle that is gone only if
\* close() has closed the very connection send() had found: a connect() that
\* fails, or a close() of another connection, does not take it away.
NullUseNeedsClose == disciplined => \A u \in nullUses : u.found \in released

\* A task in connect() or close() gets out of it.
CallsReturn ==
  \A t \in Tasks : pc[t] \in {"connect", "close", "failed", "clear"} ~> pc[t] = "idle"
=============================================================================
