-------------------------- MODULE Mq9RequestsProofs --------------------------
(***************************************************************************)
(* Proofs about Mq9Requests: what the outcome of a call says of the server *)
(* is true, for any number of calls, mailboxes and messages, as long as    *)
(* the replies differ from the documented ones only in ways the SDK        *)
(* withstands.                                                             *)
(***************************************************************************)
EXTENDS Mq9Requests, TLAPS

\* What the SDKs' tables have in common.
Sound(s) ==
  /\ Verdict[s].absent = "answer" /\ Verdict[s].text = "refused"
  /\ Verdict[s].null \in {"answer", "refused"}
  /\ Verdict[s].garbage \in {"mq9error", "exception"}
  /\ MailId[s].text = "given"
  /\ MailId[s].absent \in {"none", "mq9error", "exception"}
  /\ MailId[s].null \in {"none", "mq9error", "exception"}
  /\ Entry[s].full = "kept"
  /\ Entry[s].noLevel \in {"kept", "exception"}
  /\ TimeoutError[s] \in {"mq9error", "exception"}

LEMMA SdksSound == \A s \in DOMAIN Verdict : Sound(s)
<1> SUFFICES ASSUME NEW s \in {"rust", "python", "go", "javascript", "java", "csharp"}
             PROVE  Sound(s)
  BY DEF Verdict
<1>1. CASE s = "rust"
  BY <1>1 DEF Sound, Verdict, RustVerdict, MailId, RustMailId, Entry, RustEntry, TimeoutError
<1>2. CASE s = "python"
  BY <1>2 DEF Sound, Verdict, PythonVerdict, MailId, PythonMailId, Entry, PythonEntry, TimeoutError
<1>3. CASE s = "go"
  BY <1>3 DEF Sound, Verdict, GoVerdict, MailId, GoMailId, Entry, GoEntry, TimeoutError
<1>4. CASE s = "javascript"
  BY <1>4 DEF Sound, Verdict, JsVerdict, MailId, JsMailId, Entry, JsEntry, TimeoutError
<1>5. CASE s = "java"
  BY <1>5 DEF Sound, Verdict, JavaVerdict, MailId, JavaMailId, Entry, JavaEntry, TimeoutError
<1>6. CASE s = "csharp"
  BY <1>6 DEF Sound, Verdict, CsVerdict, MailId, CsMailId, Entry, CsEntry, TimeoutError
<1> QED
  BY <1>1, <1>2, <1>3, <1>4, <1>5, <1>6

\* The quirks an SDK withstands: those its tables do not take for an id, or an
\* answer for a refusal.
QuirksWithstood ==
  \A s \in Sdks :
    /\ "null error" \in Quirks[s] => Verdict[s].null = "answer"
    /\ "no id" \in Quirks[s] => MailId[s].absent # "none"
    /\ "null id" \in Quirks[s] => MailId[s].null # "none"

ReplySet ==
  [form : {"none", "absent", "null", "text", "garbage"}, id : {"absent", "null", "text"},
   entry : {"full", "noId", "noLevel"}, msgs : SUBSET Msgs]

\* A reply the server gives to a request it carried out.
Documented(r) ==
  /\ r.form \in {"absent", "null", "garbage"}
  /\ r.form = "null" => Verdict[sdk].null = "answer"
  /\ r.id = "absent" => MailId[sdk].absent # "none"
  /\ r.id = "null" => MailId[sdk].null # "none"
  /\ r.entry \in {"full", "noLevel"}

LEMMA AnswersDocumented ==
  ASSUME RequestsAssumption, QuirksWithstood, sdk \in Sdks, NEW S \in SUBSET Msgs,
         NEW r \in Answers(S)
  PROVE  r \in ReplySet /\ r.msgs = S /\ Documented(r)
<1> DEFINE plain == [form |-> "absent", id |-> "text", entry |-> "full", msgs |-> S]
<1>1. /\ "null error" \in Quirks[sdk] => Verdict[sdk].null = "answer"
      /\ "no id" \in Quirks[sdk] => MailId[sdk].absent # "none"
      /\ "null id" \in Quirks[sdk] => MailId[sdk].null # "none"
  BY DEF QuirksWithstood
<1>2. \/ r = plain
      \/ r = [plain EXCEPT !.form = "garbage"]
      \/ r = [plain EXCEPT !.form = "null"] /\ "null error" \in Quirks[sdk]
      \/ r = [plain EXCEPT !.id = "absent"] /\ "no id" \in Quirks[sdk]
      \/ r = [plain EXCEPT !.id = "null"] /\ "null id" \in Quirks[sdk]
      \/ r = [plain EXCEPT !.entry = "noLevel"]
  BY Zenon DEF Answers
<1>3. CASE r = plain
  BY <1>3 DEF ReplySet, Documented
<1>4. CASE r = [plain EXCEPT !.form = "garbage"]
  BY <1>4 DEF ReplySet, Documented
<1>5. CASE r = [plain EXCEPT !.form = "null"] /\ "null error" \in Quirks[sdk]
  BY <1>1, <1>5 DEF ReplySet, Documented
<1>6. CASE r = [plain EXCEPT !.id = "absent"] /\ "no id" \in Quirks[sdk]
  BY <1>1, <1>6 DEF ReplySet, Documented
<1>7. CASE r = [plain EXCEPT !.id = "null"] /\ "null id" \in Quirks[sdk]
  BY <1>1, <1>7 DEF ReplySet, Documented
<1>8. CASE r = [plain EXCEPT !.entry = "noLevel"]
  BY <1>8 DEF ReplySet, Documented
<1> QED
  BY <1>2, <1>3, <1>4, <1>5, <1>6, <1>7, <1>8

-----------------------------------------------------------------------------
(***************************************************************************)
(* The inductive invariant.                                                *)
(***************************************************************************)

\* A request that is on its way was made by a call and is not carried out yet;
\* one that was answered was carried out, unless the answer is a refusal.
NetSound(c) ==
  /\ net[c] = "none" => ~done[c]
  /\ net[c] = "asked" => ~done[c] /\ pc[c] # "idle"
  /\ net[c] # "none" => request[c] \in Requests /\ ~(request[c].op = "createPublic" /\ request[c].arg = NoName)
  /\ net[c] = "answered" =>
       \/ ~done[c] /\ reply[c] = Refusal
       \/ done[c] /\ Documented(reply[c])
  /\ pc[c] = "waiting" => net[c] # "none"
  /\ pc[c] = "idle" => net[c] = "none"

\* What was carried out stays so.
EffectStays(c) ==
  done[c] =>
    /\ request[c].op \in {"create", "createPublic"} => Created(c) \in mailboxes
    /\ request[c].op = "delete" => request[c].arg \in past

\* The messages of a list are those of one moment of the wait.
SnapshotSound(c) ==
  /\ pc[c] = "waiting" => throughout[c] \subseteq stored /\ stored \subseteq seen[c]
  /\ net[c] = "answered" /\ request[c].op = "list" /\ pc[c] = "waiting" =>
       throughout[c] \subseteq reply[c].msgs /\ reply[c].msgs \subseteq seen[c]

\* A call that is over says the truth.
ResultSound(c) ==
  /\ Succeeded(c) =>
       /\ done[c]
       /\ request[c].op \in {"create", "createPublic"} => result[c].value = {Created(c)}
       /\ request[c].op = "list" =>
            throughout[c] \subseteq result[c].value /\ result[c].value \subseteq seen[c]
  /\ result[c].outcome = "refused" => ~done[c] /\ net[c] # "asked"

IInv ==
  /\ TypeOK
  /\ \A c \in Calls : NetSound(c) /\ EffectStays(c) /\ SnapshotSound(c) /\ ResultSound(c)

-----------------------------------------------------------------------------
LEMMA InitHolds ==
  ASSUME RequestsAssumption, Init
  PROVE  IInv
<1>1. TypeOK
  BY DEF RequestsAssumption, Init, TypeOK, Requests, NoRequest, NoReply, NoResult, Outcomes, Values
<1>2. ASSUME NEW c \in Calls
      PROVE  NetSound(c) /\ EffectStays(c) /\ SnapshotSound(c) /\ ResultSound(c)
  BY DEF Init, NetSound, EffectStays, SnapshotSound, ResultSound, Succeeded, NoResult
<1> QED
  BY <1>1, <1>2 DEF IInv

\* The mailbox changes on its own: a message arrives or expires.
LEMMA MailboxChanges ==
  ASSUME RequestsAssumption, IInv, NEW S \in SUBSET Msgs, Becomes(S),
         past \subseteq past', past' \subseteq Msgs \ S,
         UNCHANGED <<sdk, mailboxes, request, pc, netVars, result>>
  PROVE  IInv'
<1>1. TypeOK'
  BY DEF IInv, TypeOK, Becomes, netVars
<1>2. ASSUME NEW c \in Calls
      PROVE  (NetSound(c) /\ EffectStays(c) /\ SnapshotSound(c) /\ ResultSound(c))'
  <2>1. NetSound(c)'
    BY DEF IInv, NetSound, netVars, Documented, Refusal
  <2>2. EffectStays(c)'
    BY DEF IInv, EffectStays, netVars, Created
  <2>3. SnapshotSound(c)'
    BY DEF IInv, TypeOK, SnapshotSound, netVars, Becomes
  <2>4. ResultSound(c)'
    <3>1. Succeeded(c) => pc[c] # "waiting"
      BY DEF IInv, TypeOK, Succeeded
    <3>2. Succeeded(c) => seen'[c] = seen[c] /\ throughout'[c] = throughout[c]
      BY <3>1 DEF Becomes
    <3> QED
      BY <3>2 DEF IInv, ResultSound, Succeeded, netVars, Created
  <2> QED
    BY <2>1, <2>2, <2>3, <2>4
<1> QED
  BY <1>1, <1>2 DEF IInv

LEMMA ArriveKeeps ==
  ASSUME RequestsAssumption, IInv, NEW m \in Msgs, Arrive(m)
  PROVE  IInv'
<1>1. stored \cup {m} \in SUBSET Msgs /\ past \subseteq Msgs \ (stored \cup {m})
  BY DEF IInv, TypeOK, Arrive
<1> QED
  BY <1>1, MailboxChanges DEF Arrive

LEMMA ExpireKeeps ==
  ASSUME RequestsAssumption, IInv, NEW m \in Msgs, Expire(m)
  PROVE  IInv'
<1>1. /\ stored \ {m} \in SUBSET Msgs
      /\ past \subseteq past' /\ past' \subseteq Msgs \ (stored \ {m})
  BY DEF IInv, TypeOK, Expire
<1> QED
  BY <1>1, MailboxChanges DEF Expire

LEMMA ServeKeeps ==
  ASSUME RequestsAssumption, QuirksWithstood, IInv, NEW c \in Calls, Serve(c)
  PROVE  IInv'
<1> DEFINE op == request[c].op
           refused == op = "delete" /\ request[c].arg \notin stored
<1>1. /\ net[c] = "asked" /\ ~done[c] /\ pc[c] # "idle"
      /\ request[c] \in Requests /\ ~(op = "createPublic" /\ request[c].arg = NoName)
  BY DEF IInv, NetSound, Serve
<1>2. /\ net' = [net EXCEPT ![c] = "answered"]
      /\ done' = [done EXCEPT ![c] = ~refused]
      /\ mailboxes' = IF op \in {"create", "createPublic"} THEN mailboxes \cup {Created(c)} ELSE mailboxes
      /\ UNCHANGED <<sdk, request, pc, result>>
  BY DEF Serve
<1>3. PICK r \in IF refused THEN {Refusal} ELSE Answers(IF op = "list" THEN stored ELSE {}) :
        reply' = [reply EXCEPT ![c] = r]
  BY DEF Serve
<1>4. /\ r \in ReplySet
      /\ refused => r = Refusal
      /\ ~refused => Documented(r)
      /\ op = "list" => r.msgs = stored
  <2>1. CASE refused
    <3>1. Refusal \in ReplySet
      BY DEF Refusal, ReplySet
    <3> QED
      BY <1>3, <2>1, <3>1
  <2>2. CASE ~refused
    <3> DEFINE S == IF op = "list" THEN stored ELSE {}
    <3>1. S \in SUBSET Msgs /\ sdk \in Sdks /\ r \in Answers(S)
      BY <1>3, <2>2 DEF IInv, TypeOK
    <3> HIDE DEF S
    <3>2. r \in ReplySet /\ r.msgs = S /\ Documented(r)
      BY <3>1, AnswersDocumented
    <3> QED
      BY <2>2, <3>2 DEF S
  <2> QED
    BY <2>1, <2>2
<1>5. CASE op = "delete" /\ ~refused
  <2>1. /\ request[c].arg \in Msgs
        /\ Becomes(stored \ {request[c].arg})
        /\ past' = past \cup {request[c].arg}
    BY <1>1, <1>5 DEF Serve, Requests
  <2>2. TypeOK'
    <3>1. mailboxes' = mailboxes
      BY <1>2, <1>5
    <3> QED
      BY <1>2, <1>3, <1>4, <2>1, <3>1 DEF IInv, TypeOK, Becomes, ReplySet
  <2>3. ASSUME NEW d \in Calls
        PROVE  (NetSound(d) /\ EffectStays(d) /\ SnapshotSound(d) /\ ResultSound(d))'
    <3>1. NetSound(d)'
      BY <1>1, <1>2, <1>3, <1>4, <1>5 DEF IInv, TypeOK, NetSound, Documented
    <3>2. EffectStays(d)'
      BY <1>2, <1>5, <2>1 DEF IInv, TypeOK, EffectStays, Created
    <3>3. SnapshotSound(d)'
      BY <1>2, <1>3, <1>5, <2>1 DEF IInv, TypeOK, SnapshotSound, Becomes
    <3>4. ResultSound(d)'
      <4>1. Succeeded(d) => pc[d] # "waiting" /\ d # c
        BY <1>1 DEF IInv, TypeOK, Succeeded, ResultSound
      <4>2. result[d].outcome = "refused" => d # c
        BY <1>1 DEF IInv, ResultSound
      <4> QED
        BY <1>2, <2>1, <4>1, <4>2 DEF IInv, TypeOK, ResultSound, Succeeded, Becomes, Created
    <3> QED
      BY <3>1, <3>2, <3>3, <3>4
  <2> QED
    BY <2>2, <2>3 DEF IInv
<1>6. CASE ~(op = "delete" /\ ~refused)
  <2>1. UNCHANGED <<stored, past, seen, throughout>>
    BY <1>6 DEF Serve
  <2>2. Created(c) \in Calls \cup Names \/ op \notin {"create", "createPublic"}
    BY <1>1 DEF Created, Requests
  <2>3. TypeOK'
    BY <1>2, <1>3, <1>4, <2>1, <2>2 DEF IInv, TypeOK, ReplySet
  <2>4. ASSUME NEW d \in Calls
        PROVE  (NetSound(d) /\ EffectStays(d) /\ SnapshotSound(d) /\ ResultSound(d))'
    <3>1. NetSound(d)'
      BY <1>1, <1>2, <1>3, <1>4, <1>6 DEF IInv, TypeOK, NetSound, Documented
    <3>2. EffectStays(d)'
      <4>1. CASE d = c
        BY <1>2, <1>6, <4>1 DEF IInv, TypeOK, EffectStays, Created
      <4>2. CASE d # c
        BY <1>2, <2>1, <4>2 DEF IInv, TypeOK, EffectStays, Created
      <4> QED
        BY <4>1, <4>2
    <3>3. SnapshotSound(d)'
      BY <1>2, <1>3, <1>4, <2>1 DEF IInv, TypeOK, SnapshotSound
    <3>4. ResultSound(d)'
      <4>1. Succeeded(d) => d # c
        BY <1>1 DEF IInv, Succeeded, ResultSound
      <4>2. result[d].outcome = "refused" => d # c
        BY <1>1 DEF IInv, ResultSound
      <4> QED
        BY <1>2, <2>1, <4>1, <4>2 DEF IInv, TypeOK, ResultSound, Succeeded, Created
    <3> QED
      BY <3>1, <3>2, <3>3, <3>4
  <2> QED
    BY <2>3, <2>4 DEF IInv
<1> QED
  BY <1>5, <1>6

LEMMA CallKeeps ==
  ASSUME RequestsAssumption, IInv, NEW c \in Calls, NEW r \in Requests, Call(c, r)
  PROVE  IInv'
<1>1. /\ pc[c] = "idle" /\ net[c] = "none" /\ ~done[c]
      /\ request' = [request EXCEPT ![c] = r]
      /\ UNCHANGED <<sdk, serverVars, reply, done>>
  BY DEF IInv, NetSound, Call
<1>2. CASE r.op = "createPublic" /\ r.arg = NoName
  <2>1. /\ pc' = [pc EXCEPT ![c] = "over"]
        /\ result' = [result EXCEPT ![c] = Failed("refused")]
        /\ UNCHANGED <<net, seen, throughout>>
    BY <1>2 DEF Call
  <2>2. TypeOK'
    BY <1>1, <2>1 DEF IInv, TypeOK, serverVars, Failed, Outcomes
  <2>3. ASSUME NEW d \in Calls
        PROVE  (NetSound(d) /\ EffectStays(d) /\ SnapshotSound(d) /\ ResultSound(d))'
    BY <1>1, <2>1 DEF IInv, TypeOK, serverVars, NetSound, EffectStays, SnapshotSound, ResultSound,
                      Succeeded, Failed, Created, Documented, Refusal
  <2> QED
    BY <2>2, <2>3 DEF IInv
<1>3. CASE ~(r.op = "createPublic" /\ r.arg = NoName)
  <2>1. /\ pc' = [pc EXCEPT ![c] = "waiting"]
        /\ net' = [net EXCEPT ![c] = "asked"]
        /\ seen' = [seen EXCEPT ![c] = stored]
        /\ throughout' = [throughout EXCEPT ![c] = stored]
        /\ UNCHANGED result
    BY <1>3 DEF Call
  <2>2. TypeOK'
    BY <1>1, <2>1 DEF IInv, TypeOK, serverVars
  <2>3. ASSUME NEW d \in Calls
        PROVE  (NetSound(d) /\ EffectStays(d) /\ SnapshotSound(d) /\ ResultSound(d))'
    <3>1. NetSound(d)' /\ EffectStays(d)'
      BY <1>1, <1>3, <2>1 DEF IInv, TypeOK, serverVars, NetSound, EffectStays, Created, Documented,
                              Refusal
    <3>2. SnapshotSound(d)'
      BY <1>1, <2>1 DEF IInv, TypeOK, serverVars, SnapshotSound
    <3>3. ResultSound(d)'
      <4>1. result[c].outcome = "none"
        BY <1>1 DEF IInv, TypeOK
      <4> QED
        BY <1>1, <2>1, <4>1 DEF IInv, TypeOK, serverVars, ResultSound, Succeeded, Created
    <3> QED
      BY <3>1, <3>2, <3>3
  <2> QED
    BY <2>2, <2>3 DEF IInv
<1> QED
  BY <1>2, <1>3

Results == [outcome : Outcomes \ {"none"}, value : SUBSET Values]

LEMMA FailedType ==
  ASSUME NEW o \in {"refused", "mq9error", "exception"}
  PROVE  Failed(o) \in Results /\ Failed(o).outcome = o
  BY DEF Failed, Results, Outcomes

LEMMA OkType ==
  ASSUME NEW v \in SUBSET Values
  PROVE  Ok(v) \in Results /\ Ok(v).outcome = "ok" /\ Ok(v).value = v
  BY DEF Ok, Results, Outcomes

\* What a call makes of the reply to it.
LEMMA ResultTrue ==
  ASSUME RequestsAssumption, IInv, NEW c \in Calls, pc[c] = "waiting", net[c] = "answered",
         NEW res, res = ResultOf(c, reply[c])
  PROVE  /\ res \in Results
         /\ res.outcome = "ok" =>
              /\ done[c]
              /\ request[c].op \in {"create", "createPublic"} => res.value = {Created(c)}
              /\ request[c].op = "list" => res.value = reply[c].msgs
         /\ res.outcome = "refused" => ~done[c]
<1> DEFINE op == request[c].op
<1>1. PICK r : r = reply[c]
  OBVIOUS
<1>2. /\ r \in ReplySet /\ sdk \in DOMAIN Verdict
      /\ request[c] \in Requests /\ ~(op = "createPublic" /\ request[c].arg = NoName)
      /\ \/ ~done[c] /\ r = Refusal
         \/ done[c] /\ Documented(r)
  BY <1>1 DEF RequestsAssumption, IInv, TypeOK, NetSound, ReplySet
<1>3. Sound(sdk)
  BY <1>2, SdksSound
<1>4. PICK verdict : verdict = Verdict[sdk][r.form]
  OBVIOUS
<1>5. CASE ~done[c] /\ r = Refusal
  <2>1. r.form = "text"
    BY <1>5 DEF Refusal
  <2>2. verdict = "refused"
    BY <1>3, <1>4, <2>1 DEF Sound
  <2>3. res = Failed("refused")
    BY <1>1, <1>4, <2>2 DEF ResultOf
  <2>4. res \in Results /\ res.outcome = "refused"
    BY <2>3, FailedType
  <2> QED
    BY <1>5, <2>4
<1>6. CASE done[c] /\ Documented(r)
  <2>1. verdict \in {"answer", "mq9error", "exception"}
    <3>1. r.form \in {"absent", "null", "garbage"} /\ (r.form = "null" => Verdict[sdk].null = "answer")
      BY <1>6 DEF Documented
    <3> QED
      BY <1>3, <1>4, <3>1 DEF Sound
  <2>2. CASE verdict # "answer"
    <3>1. res = Failed(verdict)
      BY <1>1, <1>4, <2>2 DEF ResultOf
    <3> QED
      BY <2>1, <2>2, <3>1, FailedType, OkType
  <2>3. CASE verdict = "answer" /\ op \in {"create", "createPublic"}
    <3>1. res = CreateResult(r, Created(c))
      BY <1>1, <1>4, <2>3 DEF ResultOf
    <3>2. Created(c) \in Values
      BY <1>2, <2>3 DEF Created, Requests, Values
    <3>3. MailId[sdk][r.id] \in {"given", "mq9error", "exception"}
      <4>1. /\ r.id \in {"absent", "null", "text"}
            /\ r.id = "absent" => MailId[sdk].absent # "none"
            /\ r.id = "null" => MailId[sdk].null # "none"
        BY <1>2, <1>6 DEF ReplySet, Documented
      <4> QED
        BY <1>3, <4>1 DEF Sound
    <3>4. \/ res = Ok({Created(c)})
          \/ \E o \in {"mq9error", "exception"} : res = Failed(o)
      BY <3>1, <3>3 DEF CreateResult
    <3> QED
      BY <1>6, <2>3, <3>2, <3>4, FailedType, OkType
  <2>4. CASE verdict = "answer" /\ op = "list"
    <3>1. res = ListResult(r)
      BY <1>1, <1>4, <2>4 DEF ResultOf
    <3>2. Entry[sdk][r.entry] \in {"kept", "exception"}
      <4>1. r.entry \in {"full", "noLevel"}
        BY <1>6 DEF Documented
      <4> QED
        BY <1>3, <4>1 DEF Sound
    <3>3. r.msgs \subseteq Values
      BY <1>2 DEF ReplySet, Values
    <3>4. \/ res = Ok(r.msgs)
          \/ res = Failed("exception")
      BY <3>1, <3>2 DEF ListResult
    <3> QED
      BY <1>1, <1>6, <2>4, <3>3, <3>4, FailedType, OkType
  <2>5. CASE verdict = "answer" /\ op \notin {"create", "createPublic", "list"}
    <3>1. res = Ok({})
      BY <1>1, <1>4, <2>5 DEF ResultOf
    <3>2. Ok({}) \in Results /\ Ok({}).outcome = "ok"
      BY DEF Ok, Results, Outcomes
    <3> QED
      BY <1>6, <2>5, <3>1, <3>2
  <2> QED
    BY <2>2, <2>3, <2>4, <2>5
<1> QED
  BY <1>2, <1>5, <1>6

\* A waiting call ends with a result that is true.
LEMMA EndKeeps ==
  ASSUME RequestsAssumption, IInv, NEW c \in Calls,
         NEW res \in Results,
         pc[c] = "waiting",
         res.outcome = "ok" =>
           /\ done[c]
           /\ request[c].op \in {"create", "createPublic"} => res.value = {Created(c)}
           /\ request[c].op = "list" =>
                throughout[c] \subseteq res.value /\ res.value \subseteq seen[c],
         res.outcome = "refused" => ~done[c] /\ net[c] # "asked",
         pc' = [pc EXCEPT ![c] = "over"],
         result' = [result EXCEPT ![c] = res],
         UNCHANGED <<sdk, serverVars, request, netVars, seen, throughout>>
  PROVE  IInv'
<1>1. TypeOK'
  BY DEF IInv, TypeOK, serverVars, netVars, Results
<1>2. ASSUME NEW d \in Calls
      PROVE  (NetSound(d) /\ EffectStays(d) /\ SnapshotSound(d) /\ ResultSound(d))'
  <2>1. NetSound(d)' /\ EffectStays(d)'
    BY DEF IInv, TypeOK, serverVars, netVars, NetSound, EffectStays, Created, Documented, Refusal
  <2>2. SnapshotSound(d)'
    BY DEF IInv, TypeOK, serverVars, netVars, SnapshotSound
  <2>3. ResultSound(d)'
    <3>1. CASE d = c
      BY <3>1 DEF IInv, TypeOK, serverVars, netVars, ResultSound, Succeeded, Created
    <3>2. CASE d # c
      BY <3>2 DEF IInv, TypeOK, serverVars, netVars, ResultSound, Succeeded, Created
    <3> QED
      BY <3>1, <3>2
  <2> QED
    BY <2>1, <2>2, <2>3
<1> QED
  BY <1>1, <1>2 DEF IInv

LEMMA ReturnKeeps ==
  ASSUME RequestsAssumption, IInv, NEW c \in Calls, Return(c)
  PROVE  IInv'
<1> DEFINE res == ResultOf(c, reply[c])
<1>1. pc[c] = "waiting" /\ net[c] = "answered"
  BY DEF Return
<1>2. /\ res \in Results
      /\ res.outcome = "ok" =>
           /\ done[c]
           /\ request[c].op \in {"create", "createPublic"} => res.value = {Created(c)}
           /\ request[c].op = "list" => res.value = reply[c].msgs
      /\ res.outcome = "refused" => ~done[c]
  BY <1>1, ResultTrue
<1>3. request[c].op = "list" =>
        throughout[c] \subseteq reply[c].msgs /\ reply[c].msgs \subseteq seen[c]
  BY <1>1 DEF IInv, SnapshotSound
<1>4. /\ pc' = [pc EXCEPT ![c] = "over"]
      /\ result' = [result EXCEPT ![c] = res]
      /\ UNCHANGED <<sdk, serverVars, request, netVars, seen, throughout>>
  BY DEF Return
<1> HIDE DEF res
<1> QED
  BY <1>1, <1>2, <1>3, <1>4, EndKeeps

LEMMA TimeOutKeeps ==
  ASSUME RequestsAssumption, IInv, NEW c \in Calls, TimeOut(c)
  PROVE  IInv'
<1> DEFINE res == Failed(TimeoutError[sdk])
<1>1. sdk \in DOMAIN Verdict
  BY DEF RequestsAssumption, IInv, TypeOK
<1>2. TimeoutError[sdk] \in {"mq9error", "exception"}
  BY <1>1, SdksSound DEF Sound
<1>3. /\ res \in Results
      /\ res.outcome \notin {"ok", "refused"}
  BY <1>2, FailedType
<1>4. /\ pc[c] = "waiting"
      /\ pc' = [pc EXCEPT ![c] = "over"]
      /\ result' = [result EXCEPT ![c] = res]
      /\ UNCHANGED <<sdk, serverVars, request, netVars, seen, throughout>>
  BY DEF TimeOut
<1> HIDE DEF res
<1> QED
  BY <1>3, <1>4, EndKeeps

LEMMA StutterKeeps ==
  ASSUME IInv, UNCHANGED vars
  PROVE  IInv'
<1>1. TypeOK'
  BY DEF IInv, TypeOK, vars, serverVars, netVars
<1>2. ASSUME NEW c \in Calls
      PROVE  (NetSound(c) /\ EffectStays(c) /\ SnapshotSound(c) /\ ResultSound(c))'
  BY DEF IInv, vars, serverVars, netVars, NetSound, EffectStays, SnapshotSound, ResultSound,
         Succeeded, Created, Documented, Refusal
<1> QED
  BY <1>1, <1>2 DEF IInv

LEMMA Invariance ==
  ASSUME RequestsAssumption, QuirksWithstood
  PROVE  Spec => []IInv
<1>1. Init => IInv
  BY InitHolds
<1>2. ASSUME IInv, [Next]_vars PROVE IInv'
  <2>1. ASSUME NEW m \in Msgs, Arrive(m) PROVE IInv'
    BY <1>2, <2>1, ArriveKeeps
  <2>2. ASSUME NEW m \in Msgs, Expire(m) PROVE IInv'
    BY <1>2, <2>2, ExpireKeeps
  <2>3. ASSUME NEW c \in Calls, NEW r \in Requests, Call(c, r) PROVE IInv'
    BY <1>2, <2>3, CallKeeps
  <2>4. ASSUME NEW c \in Calls, Serve(c) PROVE IInv'
    BY <1>2, <2>4, ServeKeeps
  <2>5. ASSUME NEW c \in Calls, Return(c) PROVE IInv'
    BY <1>2, <2>5, ReturnKeeps
  <2>6. ASSUME NEW c \in Calls, TimeOut(c) PROVE IInv'
    BY <1>2, <2>6, TimeOutKeeps
  <2>7. CASE UNCHANGED vars
    BY <1>2, <2>7, StutterKeeps
  <2> QED
    BY <1>2, <2>1, <2>2, <2>3, <2>4, <2>5, <2>6, <2>7 DEF Next
<1> QED
  BY <1>1, <1>2, PTL DEF Spec

-----------------------------------------------------------------------------
\* The variables keep their shape, with every number of calls.
THEOREM TypeCorrect ==
  ASSUME RequestsAssumption, QuirksWithstood
  PROVE  Spec => []TypeOK
<1>1. IInv => TypeOK
  BY DEF IInv
<1> QED
  BY <1>1, Invariance, PTL

\* create(), list() and delete() return only what is so: the server has done
\* what was asked, and the id a create() returns is the one the server gave.
THEOREM OkIsTrue ==
  ASSUME RequestsAssumption, QuirksWithstood
  PROVE  Spec => []OkMeansDone
<1>1. IInv => OkMeansDone
  <2> SUFFICES ASSUME IInv, NEW c \in Calls, Succeeded(c)
               PROVE  /\ done[c]
                      /\ request[c].op \in {"create", "createPublic"} =>
                           result[c].value = {Created(c)} /\ Created(c) \in mailboxes
                      /\ request[c].op = "delete" => request[c].arg \notin stored
    BY DEF OkMeansDone
  <2> QED
    BY DEF IInv, TypeOK, ResultSound, EffectStays
<1> QED
  BY <1>1, Invariance, PTL

\* A request that is refused, by the SDK on the spot or by the server, has
\* changed nothing and never will.
THEOREM RefusalIsTrue ==
  ASSUME RequestsAssumption, QuirksWithstood
  PROVE  Spec => []RefusedMeansUntouched
<1>1. IInv => RefusedMeansUntouched
  BY DEF IInv, ResultSound, RefusedMeansUntouched
<1> QED
  BY <1>1, Invariance, PTL

\* list() returns the messages of one moment of the call, whatever arrives,
\* expires or is deleted meanwhile, and however late the reply is.
THEOREM ListIsTrue ==
  ASSUME RequestsAssumption, QuirksWithstood
  PROVE  Spec => []ListIsSnapshot
<1>1. IInv => ListIsSnapshot
  BY DEF IInv, ResultSound, ListIsSnapshot
<1> QED
  BY <1>1, Invariance, PTL
=============================================================================
