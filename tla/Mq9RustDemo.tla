----------------------------- MODULE Mq9RustDemo -----------------------------
(***************************************************************************)
(* The Rust demo: one program that calls every operation of the client     *)
(* once, in a row, over the transport of Mq9RustTransport.  Beside its     *)
(* main function runs the task subscribe() spawns, with the callback.      *)
(*                                                                         *)
(* Every call ends with "?": an error ends the program, and its end ends   *)
(* the library's tasks, whatever they still have to do.                    *)
(***************************************************************************)
EXTENDS Mq9RustTransport

\* What main() asks of the client.  It has one private mailbox, to which it
\* sends "abort signal", "urgent task" and "normal task".  What delete() asks
\* for depends on the list.
Script ==
  << [op |-> "create"],
     [op |-> "publish", msg |-> 1], [op |-> "publish", msg |-> 2], [op |-> "publish", msg |-> 3],
     [op |-> "subscribe"], [op |-> "list"], [op |-> "delete"],
     [op |-> "createPublic"], Flush >>

Unawaited == {"publish", "subscribe"}
Sent == Published(Script)

VARIABLES
  main,     \* "starting", "ready" to make a call, "waiting", or how it ended
  pc,       \* the call to make or in progress
  listed,   \* the messages list() returned
  handled   \* what the callback was given

demoVars == <<main, pc, listed, handled>>
vars == <<transportVars, demoVars>>

Ends == {"done", "refused", "timed out", "unreachable"}
Running == main \notin Ends

Init ==
  /\ TransportInit
  /\ main = "starting"
  /\ pc = 1
  /\ listed = {}
  /\ handled = <<>>

-----------------------------------------------------------------------------
\* The first connection is not tried twice.
Connect ==
  /\ main = "starting"
  /\ \/ main' = "ready" /\ Connected
     \/ main' = "unreachable" /\ UNCHANGED transportVars
  /\ UNCHANGED <<pc, listed, handled>>

\* send() and subscribe(): they return once the command is accepted.  The
\* pause after subscribe() is no step, as it guarantees nothing.
Issue ==
  /\ main = "ready"
  /\ Script[pc].op \in Unawaited
  /\ Accepts(Script[pc])
  /\ pc' = pc + 1
  /\ UNCHANGED <<main, listed, handled>>

\* Faulty: the first message sent is deleted.
RequestsFirstSent(step) ==
  IF step.op = "delete" THEN {[op |-> "delete", msg |-> 1]} ELSE {step}

\* The message to delete is the first of the list, in whatever order the server
\* lists them.
Requests(step) ==
  IF step.op = "delete" THEN {[op |-> "delete", msg |-> m] : m \in listed} ELSE {step}

\* create(), list(), delete() and close().
Ask ==
  /\ main = "ready"
  /\ Script[pc].op \notin Unawaited
  /\ \E cmd \in Requests(Script[pc]) : Accepts(cmd)
  /\ main' = "waiting"
  /\ UNCHANGED <<pc, listed, handled>>

\* The list is empty.
NothingToDelete ==
  /\ main = "ready"
  /\ Script[pc].op = "delete" /\ listed = {}
  /\ pc' = pc + 1
  /\ UNCHANGED <<main, listed, handled, transportVars>>

\* The answer is there.
Return ==
  /\ main = "waiting"
  /\ answer # Refusal /\ Answered
  /\ main' = IF pc = Len(Script) THEN "done" ELSE "ready"
  /\ pc' = pc + 1
  /\ listed' = IF answer.kind = "listed" THEN answer.msgs ELSE listed
  /\ UNCHANGED <<handled, transportVars>>

\* "?": the error leaves main().
Fail ==
  /\ main = "waiting"
  /\ answer = Refusal
  /\ main' = "refused"
  /\ UNCHANGED <<pc, listed, handled, transportVars>>

\* Faulty: delete() waits as long as it takes.
TimeOutOfOthers ==
  /\ main = "waiting"
  /\ ~Answered
  /\ Script[pc].op \notin {"flush", "delete"}
  /\ main' = "timed out"
  /\ UNCHANGED <<pc, listed, handled, transportVars>>

\* A request waits for ten seconds, a flush as long as it takes.
TimeOut ==
  /\ main = "waiting"
  /\ ~Answered
  /\ Script[pc].op # "flush"
  /\ main' = "timed out"
  /\ UNCHANGED <<pc, listed, handled, transportVars>>

\* Faulty: what came last is taken first.
CallbackLastFirst ==
  /\ Running
  /\ buffer # <<>>
  /\ handled' = Append(handled, buffer[Len(buffer)])
  /\ buffer' = SubSeq(buffer, 1, Len(buffer) - 1)
  /\ UNCHANGED <<channel, known, answer, overrun, linkVars, serverVars, main, pc, listed>>

\* The spawned task: a message is parsed and printed.
Callback ==
  /\ Running
  /\ StreamNext
  /\ handled' = Append(handled, Head(buffer))
  /\ UNCHANGED <<main, pc, listed>>

-----------------------------------------------------------------------------
Main == Connect \/ Issue \/ Ask \/ NothingToDelete \/ Return \/ Fail \/ TimeOut

Next ==
  \/ Main
  \/ Callback
  \/ Running /\ (WriteOut \/ ReadReply \/ ReadMessage \/ Disconnect \/ Reconnect)
             /\ UNCHANGED demoVars
  \/ (Serve \/ Push \/ Expire) /\ UNCHANGED demoVars

\* The runtime runs main and, while there is a connection, the library's task;
\* a request's timer fires.  Nothing is asked of the server, of the network,
\* nor of the callback, which may print for ever.
Fairness ==
  /\ WF_vars(Main)
  /\ WF_vars(Running /\ ConnectionTask /\ UNCHANGED demoVars)

Spec == Init /\ [][Next]_vars

FairSpec == Spec /\ Fairness

-----------------------------------------------------------------------------
(***************************************************************************)
(* Properties.                                                             *)
(***************************************************************************)

Commands ==
  {Script[i] : i \in DOMAIN Script} \cup {[op |-> "delete", msg |-> m] : m \in Sent}

Replies == {Ok, Refusal} \cup {Listed(S) : S \in SUBSET Sent}

\* The variables keep their shape, and channel and buffer their bounds.
TypeOK ==
  /\ up \in BOOLEAN /\ known \in BOOLEAN /\ subscribed \in BOOLEAN
  /\ channel \in Seq(Commands) /\ Len(channel) <= ChannelCap
  /\ written \in Seq(Commands)
  /\ incoming \in Seq(Replies \cup [kind : {"message"}, msg : Sent])
  /\ pending \in Seq(Sent)
  /\ buffer \in Seq(Sent) /\ Len(buffer) <= BufferCap
  /\ answer \in Replies \cup {NoAnswer}
  /\ mailbox \in {"absent", "there", "expired"}
  /\ stored \subseteq Sent /\ overrun \subseteq Sent /\ lost \subseteq Sent
  /\ disconnects \in 0..MaxDisconnects
  /\ main \in Ends \cup {"starting", "ready", "waiting"}
  /\ pc \in 1..(Len(Script) + 1)
  /\ listed \subseteq Sent
  /\ handled \in Seq(Sent)

StepOf(op) == CHOOSE i \in DOMAIN Script : Script[i].op = op

\* list() shows what happened to the messages sent before it: all that
\* send() returned Ok for are listed, but those on their way in a disconnect,
\* and these are not.  So a send() that waits, or is accepted while the
\* connection is down, loses nothing.
ListSeesSends ==
  pc > StepOf("list") => listed = Sent \ lost

\* The server refuses something only when the mailbox has expired: whatever was
\* lost and made again, no request is for what never was or is no more.
RefusedMeansExpired == main = "refused" => mailbox = "expired"

Received == handled \o buffer

\* The callback is given the messages by level, once each, but for a replay
\* after every disconnect.  Before the first, one is missing from between
\* others only if it came to a full buffer.
InOrderOrDropped ==
  /\ Cardinality({i \in 1..(Len(Received) - 1) : Received[i] >= Received[i + 1]}) <= disconnects
  /\ disconnects = 0 =>
       \A i \in DOMAIN Received, m \in Sent :
         m < Received[i] => m \in Range(Received) \cup overrun

\* The program ends, unless the connection stays down: calls wait for room in
\* the channel and close() waits for its flush, both without a limit.
MainEnds == <>(~Running) \/ <>[](~up)
=============================================================================
