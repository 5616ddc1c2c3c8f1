----------------------------- MODULE Mq9Requests -----------------------------
(***************************************************************************)
(* create(), list() and delete(): each sends one request and waits for one *)
(* reply.  Requests and replies may be late or lost, and a call that has   *)
(* given up says nothing of what the server did or has yet to do.          *)
(*                                                                         *)
(* All calls are made through one client of one SDK, and list() and        *)
(* delete() are on one mailbox.  A retry is another call with the same     *)
(* arguments: no SDK retries by itself.                                    *)
(*                                                                         *)
(* The SDKs read a reply differently.  A reply has                         *)
(*   form   "garbage" if it is no JSON; otherwise its "error" field:       *)
(*          "absent", "null" or a "text";                                  *)
(*   id     its "mail_id" field: "absent", "null" or a "text";             *)
(*   entry  the fields of the entries of "messages": "full", or "noId" or  *)
(*          "noLevel" if one is missing;                                   *)
(*   msgs   the messages listed there.                                     *)
(***************************************************************************)
EXTENDS Naturals, FiniteSets

\* What the request function makes of the form of a reply: it hands on the
\* answer, refuses (raises the SDK's error with the server's text), or raises
\* the SDK's error or some other exception.

\* Faulty: an error that is null is an error.
RustVerdictIfPresent ==
  [absent |-> "answer", null |-> "refused", text |-> "refused", garbage |-> "mq9error"]

RustVerdict ==
  [absent |-> "answer", null |-> "answer", text |-> "refused", garbage |-> "mq9error"]

PythonVerdict ==
  [absent |-> "answer", null |-> "refused", text |-> "refused", garbage |-> "exception"]

GoVerdict ==
  [absent |-> "answer", null |-> "answer", text |-> "refused", garbage |-> "exception"]

JsVerdict ==
  [absent |-> "answer", null |-> "answer", text |-> "refused", garbage |-> "exception"]

JavaVerdict ==
  [absent |-> "answer", null |-> "refused", text |-> "refused", garbage |-> "mq9error"]

CsVerdict ==
  [absent |-> "answer", null |-> "answer", text |-> "refused", garbage |-> "exception"]

Verdict ==
  [rust |-> RustVerdict, python |-> PythonVerdict, go |-> GoVerdict,
   javascript |-> JsVerdict, java |-> JavaVerdict, csharp |-> CsVerdict]

\* What create() makes of the mail_id of an answer: it returns the id it was
\* "given", returns "none" (an empty, undefined or made-up id), or raises.

\* Faulty: a missing id is the empty one.
RustMailIdOrEmpty == [text |-> "given", absent |-> "none", null |-> "none"]

RustMailId == [text |-> "given", absent |-> "mq9error", null |-> "mq9error"]
PythonMailId == [text |-> "given", absent |-> "exception", null |-> "none"]
GoMailId == [text |-> "given", absent |-> "none", null |-> "none"]
JsMailId == [text |-> "given", absent |-> "none", null |-> "none"]
JavaMailId == [text |-> "given", absent |-> "exception", null |-> "none"]
CsMailId == [text |-> "given", absent |-> "mq9error", null |-> "mq9error"]

MailId ==
  [rust |-> RustMailId, python |-> PythonMailId, go |-> GoMailId,
   javascript |-> JsMailId, java |-> JavaMailId, csharp |-> CsMailId]

\* What list() makes of an entry: it keeps it, keeps it without an id, skips
\* it, or raises, which loses the whole list.

RustEntry == [full |-> "kept", noId |-> "skipped", noLevel |-> "kept"]
PythonEntry == [full |-> "kept", noId |-> "exception", noLevel |-> "exception"]
GoEntry == [full |-> "kept", noId |-> "anonymous", noLevel |-> "kept"]
JsEntry == [full |-> "kept", noId |-> "anonymous", noLevel |-> "kept"]
JavaEntry == [full |-> "kept", noId |-> "anonymous", noLevel |-> "kept"]
CsEntry == [full |-> "kept", noId |-> "anonymous", noLevel |-> "kept"]

Entry ==
  [rust |-> RustEntry, python |-> PythonEntry, go |-> GoEntry,
   javascript |-> JsEntry, java |-> JavaEntry, csharp |-> CsEntry]

\* The exception of a request that is not answered in time: C# lets that of
\* the library through.
TimeoutError ==
  [rust |-> "mq9error", python |-> "mq9error", go |-> "mq9error",
   javascript |-> "mq9error", java |-> "mq9error", csharp |-> "exception"]

-----------------------------------------------------------------------------
CONSTANTS
  Sdks,      \* the SDKs considered
  Calls,     \* the calls made; also the ids of the private mailboxes they make
  Names,     \* names for public mailboxes; NoName is the empty one
  NoName,
  Msgs,      \* the messages that may be in the mailbox
  Quirks     \* how a reply may differ from the documented ones, for each SDK

AllQuirks == {"garbage", "null error", "no id", "null id", "no level"}

ASSUME RequestsAssumption ==
  /\ Sdks \subseteq DOMAIN Verdict
  /\ Names \cap Calls = {}
  /\ Names \cap {"", "none"} = {} /\ Calls \cap {"", "none"} = {}
  /\ Quirks \in [Sdks -> SUBSET AllQuirks]

VARIABLES
  sdk,        \* the SDK of the client
  mailboxes,  \* the mailboxes the server has: their ids
  stored,     \* the messages in the mailbox
  past,       \* those that were in it and are gone
  request,    \* what each call asks for: an operation and its argument
  pc,         \* a call is "idle", "waiting" or "over"
  net,        \* its request is "none", "asked" (on its way) or "answered"
  reply,      \* the reply to it, on its way back or discarded
  done,       \* did the server do what it asks for?
  result,     \* how it ended: an outcome and a value
  seen,       \* the messages stored at some moment while it waited
  throughout  \* the messages stored at every moment while it waited

serverVars == <<mailboxes, stored, past>>
netVars == <<net, reply, done>>
vars == <<sdk, serverVars, request, pc, netVars, result, seen, throughout>>

Ops == {"create", "createPublic", "list", "delete"}
Requests ==
  [op : {"create", "list"}, arg : {NoName}] \cup [op : {"createPublic"}, arg : Names \cup {NoName}]
    \cup [op : {"delete"}, arg : Msgs]

NoRequest == [op |-> "none", arg |-> NoName]
NoReply == [form |-> "none", id |-> "absent", entry |-> "full", msgs |-> {}]
NoResult == [outcome |-> "none", value |-> {}]

Failed(outcome) == [outcome |-> outcome, value |-> {}]
Ok(value) == [outcome |-> "ok", value |-> value]

Init ==
  /\ sdk \in Sdks
  /\ mailboxes = {}
  /\ stored = {}
  /\ past = {}
  /\ request = [c \in Calls |-> NoRequest]
  /\ pc = [c \in Calls |-> "idle"]
  /\ net = [c \in Calls |-> "none"]
  /\ reply = [c \in Calls |-> NoReply]
  /\ done = [c \in Calls |-> FALSE]
  /\ result = [c \in Calls |-> NoResult]
  /\ seen = [c \in Calls |-> {}]
  /\ throughout = [c \in Calls |-> {}]

-----------------------------------------------------------------------------
(***************************************************************************)
(* The server (external).                                                  *)
(***************************************************************************)

\* The messages of the mailbox become those of S.
Becomes(S) ==
  /\ stored' = S
  /\ seen' = [c \in Calls |-> IF pc[c] = "waiting" THEN seen[c] \cup S ELSE seen[c]]
  /\ throughout' =
       [c \in Calls |-> IF pc[c] = "waiting" THEN throughout[c] \cap S ELSE throughout[c]]

Arrive(m) ==
  /\ m \notin stored \cup past
  /\ Becomes(stored \cup {m})
  /\ UNCHANGED <<sdk, mailboxes, past, request, pc, netVars, result>>

\* Its time to live is over.
Expire(m) ==
  /\ m \in stored
  /\ Becomes(stored \ {m})
  /\ past' = past \cup {m}
  /\ UNCHANGED <<sdk, mailboxes, request, pc, netVars, result>>

\* The id of the mailbox a call creates: a new one, or the name it gives.
Created(c) == IF request[c].op = "create" THEN c ELSE request[c].arg

\* The documented replies, and those that differ from them by one quirk.
Answers(msgs) ==
  LET plain == [form |-> "absent", id |-> "text", entry |-> "full", msgs |-> msgs]
  IN  {plain}
        \cup {[plain EXCEPT !.form = "garbage"] : q \in Quirks[sdk] \cap {"garbage"}}
        \cup {[plain EXCEPT !.form = "null"] : q \in Quirks[sdk] \cap {"null error"}}
        \cup {[plain EXCEPT !.id = "absent"] : q \in Quirks[sdk] \cap {"no id"}}
        \cup {[plain EXCEPT !.id = "null"] : q \in Quirks[sdk] \cap {"null id"}}
        \cup {[plain EXCEPT !.entry = "noLevel"] : q \in Quirks[sdk] \cap {"no level"}}

Refusal == [form |-> "text", id |-> "absent", entry |-> "full", msgs |-> {}]

\* The request reaches the server, in time or not, and is answered: creating
\* what is there is fine, deleting what is not there is refused.  Nothing makes
\* it get there, or its reply get back: both may be lost.
Serve(c) ==
  LET op == request[c].op
      refused == op = "delete" /\ request[c].arg \notin stored
  IN  /\ net[c] = "asked"
      /\ net' = [net EXCEPT ![c] = "answered"]
      /\ done' = [done EXCEPT ![c] = ~refused]
      /\ \E r \in IF refused THEN {Refusal} ELSE Answers(IF op = "list" THEN stored ELSE {}) :
           reply' = [reply EXCEPT ![c] = r]
      /\ mailboxes' =
           IF op \in {"create", "createPublic"} THEN mailboxes \cup {Created(c)} ELSE mailboxes
      /\ IF op = "delete" /\ ~refused
         THEN /\ Becomes(stored \ {request[c].arg})
              /\ past' = past \cup {request[c].arg}
         ELSE UNCHANGED <<stored, past, seen, throughout>>
      /\ UNCHANGED <<sdk, request, pc, result>>

-----------------------------------------------------------------------------
(***************************************************************************)
(* The client.                                                             *)
(***************************************************************************)

\* A public mailbox without a name is refused on the spot; everything else is
\* asked of the server.
Call(c, r) ==
  /\ pc[c] = "idle"
  /\ request' = [request EXCEPT ![c] = r]
  /\ IF r.op = "createPublic" /\ r.arg = NoName
     THEN /\ pc' = [pc EXCEPT ![c] = "over"]
          /\ result' = [result EXCEPT ![c] = Failed("refused")]
          /\ UNCHANGED <<net, seen, throughout>>
     ELSE /\ pc' = [pc EXCEPT ![c] = "waiting"]
          /\ net' = [net EXCEPT ![c] = "asked"]
          /\ seen' = [seen EXCEPT ![c] = stored]
          /\ throughout' = [throughout EXCEPT ![c] = stored]
          /\ UNCHANGED result
  /\ UNCHANGED <<sdk, serverVars, reply, done>>

CreateResult(r, made) ==
  LET id == MailId[sdk][r.id]
  IN  IF id = "given" THEN Ok({made})
      ELSE IF id = "none" THEN Ok({"none"})
      ELSE Failed(id)

ListResult(r) ==
  LET entry == Entry[sdk][r.entry]
  IN  IF r.msgs = {} \/ entry = "skipped" THEN Ok({})
      ELSE IF entry = "kept" THEN Ok(r.msgs)
      ELSE IF entry = "anonymous" THEN Ok({""})
      ELSE Failed(entry)

\* What the call c makes of a reply.
ResultOf(c, r) ==
  LET verdict == Verdict[sdk][r.form]
      op == request[c].op
  IN  IF verdict # "answer" THEN Failed(verdict)
      ELSE IF op \in {"create", "createPublic"} THEN CreateResult(r, Created(c))
      ELSE IF op = "list" THEN ListResult(r)
      ELSE Ok({})

\* Faulty: the first reply that comes in is taken, whichever request it is to.
ReturnAny(c) ==
  /\ pc[c] = "waiting"
  /\ pc' = [pc EXCEPT ![c] = "over"]
  /\ \E d \in Calls :
       /\ net[d] = "answered"
       /\ request[d].op = request[c].op
       /\ result' = [result EXCEPT ![c] = ResultOf(c, reply[d])]
  /\ UNCHANGED <<sdk, serverVars, request, netVars, seen, throughout>>

\* The reply comes in while the call waits for it.
Return(c) ==
  /\ pc[c] = "waiting"
  /\ net[c] = "answered"
  /\ pc' = [pc EXCEPT ![c] = "over"]
  /\ result' = [result EXCEPT ![c] = ResultOf(c, reply[c])]
  /\ UNCHANGED <<sdk, serverVars, request, netVars, seen, throughout>>

\* The time to wait is over: the call gives up.  The request stays on its way.
TimeOut(c) ==
  /\ pc[c] = "waiting"
  /\ pc' = [pc EXCEPT ![c] = "over"]
  /\ result' = [result EXCEPT ![c] = Failed(TimeoutError[sdk])]
  /\ UNCHANGED <<sdk, serverVars, request, netVars, seen, throughout>>

Next ==
  \/ \E m \in Msgs : Arrive(m) \/ Expire(m)
  \/ \E c \in Calls, r \in Requests : Call(c, r)
  \/ \E c \in Calls : Serve(c) \/ Return(c) \/ TimeOut(c)

Spec == Init /\ [][Next]_vars

-----------------------------------------------------------------------------
(***************************************************************************)
(* Properties.                                                             *)
(***************************************************************************)

Outcomes == {"none", "ok", "refused", "mq9error", "exception"}
Values == Calls \cup Names \cup Msgs \cup {"", "none"}

\* The variables keep their shape.
TypeOK ==
  /\ sdk \in Sdks
  /\ mailboxes \subseteq Calls \cup Names
  /\ stored \subseteq Msgs /\ past \subseteq Msgs \ stored
  /\ request \in [Calls -> Requests \cup {NoRequest}]
  /\ pc \in [Calls -> {"idle", "waiting", "over"}]
  /\ net \in [Calls -> {"none", "asked", "answered"}]
  /\ reply \in [Calls -> [form : {"none", "absent", "null", "text", "garbage"},
                          id : {"absent", "null", "text"},
                          entry : {"full", "noId", "noLevel"}, msgs : SUBSET Msgs]]
  /\ done \in [Calls -> BOOLEAN]
  /\ result \in [Calls -> [outcome : Outcomes, value : SUBSET Values]]
  /\ \A c \in Calls : (result[c].outcome = "none") <=> (pc[c] # "over")
  /\ seen \in [Calls -> SUBSET Msgs] /\ throughout \in [Calls -> SUBSET Msgs]

Succeeded(c) == result[c].outcome = "ok"

\* A call that returns has happened: the mailbox exists and the caller has the
\* id the server gave it; the message is no longer in the mailbox.
OkMeansDone ==
  \A c \in Calls : Succeeded(c) =>
    /\ done[c]
    /\ request[c].op \in {"create", "createPublic"} =>
         result[c].value = {Created(c)} /\ Created(c) \in mailboxes
    /\ request[c].op = "delete" => request[c].arg \notin stored

\* A call that reports the server's refusal has changed nothing, not even
\* later, and can be corrected and made again; after any other error the
\* caller cannot know.
RefusedMeansUntouched ==
  \A c \in Calls : result[c].outcome = "refused" => ~done[c] /\ net[c] # "asked"

\* list() returns the messages of one moment during the call: none that was
\* not there in that time, and every one that was there all that time.
ListIsSnapshot ==
  \A c \in Calls :
    Succeeded(c) /\ request[c].op = "list" =>
      /\ throughout[c] \subseteq result[c].value
      /\ result[c].value \subseteq seen[c]
=============================================================================
