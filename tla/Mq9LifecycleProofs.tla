------------------------- MODULE Mq9LifecycleProofs -------------------------
(***************************************************************************)
(* Proofs about Mq9Lifecycle: what an application may rely on when its     *)
(* tasks connect, close and send in any overlap and its connections are    *)
(* lost and made again, for any number of tasks, connections and messages. *)
(***************************************************************************)
EXTENDS Mq9Lifecycle, TLAPS

Busy == {"connect", "close", "failed", "clear"}

Attended(c, what) == \E t \in Tasks : pc[t] = what /\ awaits[t] = c

\* The connection a task makes is its own, and that of nobody's handle yet;
\* the connection a task closes is being drained, or was.
TaskSound ==
  \A t \in Tasks :
    /\ pc[t] = "connect" =>
         /\ awaits[t] \in Conns
         /\ conn[awaits[t]] \in Usable \cup {"connecting", "refused", "closed"}
         /\ conn[awaits[t]] = "closed" => sdk \in {"python", "javascript"}
         /\ awaits[t] \notin released
         /\ awaits[t] \notin undrained
         /\ awaits[t] # handle
    /\ pc[t] = "close" => awaits[t] \in Conns /\ conn[awaits[t]] \in {"draining", "closed"}
    /\ pc[t] = "failed" => awaits[t] \in undrained
    /\ pc[t] = "clear" /\ awaits[t] # NoConn =>
         sdk = "csharp" /\ conn[awaits[t]] \in {"draining", "closed"}
    /\ pc[t] = "send" => sdk = "csharp" /\ awaits[t] \in Conns
    /\ \A u \in Tasks :
         pc[t] = "connect" /\ pc[u] \in Busy /\ awaits[t] = awaits[u] => t = u

HandleSound ==
  handle # NoConn => conn[handle] \in Usable \cup {"draining", "stuck", "closed"}

\* Whoever was told that a connection is closed cannot reach it by the handle
\* any more, unless it is closed indeed.  Only a failed drain lets a connection
\* go on after that.
ReleasedSound ==
  /\ \A c \in released :
       /\ conn[c] \notin {"unused", "connecting", "refused"}
       /\ sdk # "go" => conn[c] = "closed" \/ handle # c
       /\ c \notin undrained => conn[c] \in {"draining", "closed"}
  /\ \A c \in Conns : conn[c] = "stuck" => c \in undrained
  /\ \A c \in undrained :
       sdk \in {"python", "javascript"} /\ conn[c] \in Usable \cup {"draining", "stuck", "closed"}

\* Only a connection that lives has an outbox.  In Python and JavaScript, one
\* that dropped messages without having been lost with them was given up, not
\* closed.
OutboxSound ==
  \A c \in Conns :
    /\ conn[c] \in {"unused", "connecting", "refused", "closed"} => outbox[c] = {}
    /\ sdk \in {"python", "javascript"} /\ c \notin undrained =>
         \/ accepted[c] \subseteq stored \cup outbox[c] \cup met[c]
         \/ /\ conn[c] = "closed"
            /\ c \notin released
            /\ ~Attended(c, "close")

\* What the application's discipline brings about.
Discipline ==
  disciplined =>
    /\ \A t, u \in Tasks : pc[t] \in Busy /\ pc[u] \in Busy => t = u
    /\ \A c \in Conns :
         /\ conn[c] \in Usable /\ c \notin undrained => handle = c \/ Attended(c, "connect")
         /\ conn[c] = "connecting" => Attended(c, "connect")
         /\ conn[c] = "draining" /\ sdk \in {"python", "csharp"} => Attended(c, "close")
    /\ \A t \in Tasks :
         /\ pc[t] = "connect" => ~HasUsable \/ handle \in undrained
         /\ pc[t] \in {"close", "failed", "clear"} => awaits[t] = handle
         /\ pc[t] = "clear" /\ awaits[t] # NoConn => conn[awaits[t]] = "closed"
    /\ sdk # "go" => \A c \in released \ undrained : conn[c] = "closed"

\* With it, the handle of C# goes only with the connection it held.
NullSound ==
  disciplined =>
    /\ \A u \in nullUses : u.found \in released
    /\ sdk = "csharp" =>
         /\ handle # NoConn => conn[handle] \in Usable \/ Attended(handle, "close")
         /\ \A t \in Tasks :
              /\ pc[t] = "connect" => handle = NoConn
              /\ pc[t] = "send" => awaits[t] = handle \/ awaits[t] \in released

IInv ==
  /\ TypeOK
  /\ TaskSound
  /\ HandleSound
  /\ ReleasedSound
  /\ OutboxSound
  /\ Discipline
  /\ NullSound

-----------------------------------------------------------------------------
LEMMA InitHolds ==
  ASSUME LifecycleAssumption, Init
  PROVE  IInv
  BY DEF LifecycleAssumption, Init, IInv, TypeOK, TaskSound, HandleSound, ReleasedSound,
         OutboxSound, Discipline, NullSound, Attended, HasUsable, Usable, Busy

(***************************************************************************)
(* connect().                                                              *)
(***************************************************************************)

LEMMA ConnectStartKeeps ==
  ASSUME LifecycleAssumption, IInv, NEW t \in Tasks, ConnectStart(t)
  PROVE  IInv'
<1> USE DEF setup, connVars, taskVars, boxVars, callVars, closeVars, ConnectStart, Await
<1>1. TypeOK'
  BY DEF IInv, TypeOK, LifecycleAssumption, Usable, TaskSound
<1>2. TaskSound'
  BY DEF IInv, TypeOK, LifecycleAssumption, Usable, TaskSound, HandleSound, ReleasedSound, Busy
<1>3. HandleSound'
  BY DEF IInv, TypeOK, LifecycleAssumption, Usable, TaskSound, HandleSound
<1>4. ReleasedSound'
  BY DEF IInv, TypeOK, LifecycleAssumption, Usable, TaskSound, HandleSound, ReleasedSound
<1>5. OutboxSound'
  BY DEF IInv, TypeOK, LifecycleAssumption, Usable, TaskSound, HandleSound, ReleasedSound,
         OutboxSound, Attended
<1>6. Discipline'
  BY DEF IInv, TypeOK, LifecycleAssumption, Usable, TaskSound, HandleSound, ReleasedSound,
         Discipline, Attended, HasUsable, Busy, Alone
<1>7. NullSound'
  BY DEF IInv, TypeOK, LifecycleAssumption, Usable, TaskSound, HandleSound, ReleasedSound,
         Discipline, NullSound, Attended, HasUsable, Busy, Alone
<1> QED
  BY <1>1, <1>2, <1>3, <1>4, <1>5, <1>6, <1>7 DEF IInv

LEMMA ConnectionMadeKeeps ==
  ASSUME LifecycleAssumption, IInv, NEW c \in Conns, ConnectionMade(c)
  PROVE  IInv'
<1> USE DEF setup, connVars, taskVars, boxVars, callVars, closeVars, ConnectionMade
<1>1. TypeOK'
  BY DEF IInv, TypeOK, LifecycleAssumption, Usable, TaskSound
<1>2. TaskSound'
  BY DEF IInv, TypeOK, LifecycleAssumption, Usable, TaskSound, HandleSound, ReleasedSound, Busy
<1>3. HandleSound'
  BY DEF IInv, TypeOK, LifecycleAssumption, Usable, TaskSound, HandleSound
<1>4. ReleasedSound'
  BY DEF IInv, TypeOK, LifecycleAssumption, Usable, TaskSound, HandleSound, ReleasedSound
<1>5. OutboxSound'
  BY DEF IInv, TypeOK, LifecycleAssumption, Usable, TaskSound, HandleSound, ReleasedSound,
         OutboxSound, Attended
<1>6. Discipline'
  BY DEF IInv, TypeOK, LifecycleAssumption, Usable, TaskSound, HandleSound, ReleasedSound,
         Discipline, Attended, HasUsable, Busy, Alone
<1>7. NullSound'
  BY DEF IInv, TypeOK, LifecycleAssumption, Usable, TaskSound, HandleSound, ReleasedSound,
         Discipline, NullSound, Attended, HasUsable, Busy, Alone
<1> QED
  BY <1>1, <1>2, <1>3, <1>4, <1>5, <1>6, <1>7 DEF IInv

LEMMA ConnectEndKeeps ==
  ASSUME LifecycleAssumption, IInv, NEW t \in Tasks, ConnectEnd(t)
  PROVE  IInv'
<1> USE DEF setup, connVars, taskVars, boxVars, callVars, closeVars, ConnectEnd, Finish, Await
<1>1. TypeOK'
  BY DEF IInv, TypeOK, LifecycleAssumption, Usable, TaskSound
<1>2. TaskSound'
  BY DEF IInv, TypeOK, LifecycleAssumption, Usable, TaskSound, HandleSound, ReleasedSound, Busy
<1>3. HandleSound'
  BY DEF IInv, TypeOK, LifecycleAssumption, Usable, TaskSound, HandleSound
<1>4. ReleasedSound'
  BY DEF IInv, TypeOK, LifecycleAssumption, Usable, TaskSound, HandleSound, ReleasedSound
<1>5. OutboxSound'
  BY DEF IInv, TypeOK, LifecycleAssumption, Usable, TaskSound, HandleSound, ReleasedSound,
         OutboxSound, Attended
<1>6. Discipline'
  BY DEF IInv, TypeOK, LifecycleAssumption, Usable, TaskSound, HandleSound, ReleasedSound,
         Discipline, Attended, HasUsable, Busy, Alone
<1>7. NullSound'
  BY DEF IInv, TypeOK, LifecycleAssumption, Usable, TaskSound, HandleSound, ReleasedSound,
         Discipline, NullSound, Attended, HasUsable, Busy, Alone
<1> QED
  BY <1>1, <1>2, <1>3, <1>4, <1>5, <1>6, <1>7 DEF IInv

(***************************************************************************)
(* close().                                                                *)
(***************************************************************************)

LEMMA CloseNothingKeeps ==
  ASSUME LifecycleAssumption, IInv, NEW t \in Tasks, CloseNothing(t)
  PROVE  IInv'
<1> USE DEF setup, connVars, taskVars, boxVars, callVars, closeVars, CloseNothing, CloseCall,
            Await
<1>1. TypeOK'
  BY DEF IInv, TypeOK, LifecycleAssumption, Usable, TaskSound
<1>2. TaskSound'
  BY DEF IInv, TypeOK, LifecycleAssumption, Usable, TaskSound, HandleSound, ReleasedSound, Busy
<1>3. HandleSound'
  BY DEF IInv, TypeOK, LifecycleAssumption, Usable, TaskSound, HandleSound
<1>4. ReleasedSound'
  BY DEF IInv, TypeOK, LifecycleAssumption, Usable, TaskSound, HandleSound, ReleasedSound
<1>5. OutboxSound'
  BY DEF IInv, TypeOK, LifecycleAssumption, Usable, TaskSound, HandleSound, ReleasedSound,
         OutboxSound, Attended
<1>6. Discipline'
  BY DEF IInv, TypeOK, LifecycleAssumption, Usable, TaskSound, HandleSound, ReleasedSound,
         Discipline, Attended, HasUsable, Busy, Alone
<1>7. NullSound'
  BY DEF IInv, TypeOK, LifecycleAssumption, Usable, TaskSound, HandleSound, ReleasedSound,
         Discipline, NullSound, Attended, HasUsable, Busy, Alone
<1> QED
  BY <1>1, <1>2, <1>3, <1>4, <1>5, <1>6, <1>7 DEF IInv

LEMMA PythonCloseKeeps ==
  ASSUME LifecycleAssumption, IInv, NEW t \in Tasks, PythonClose(t)
  PROVE  IInv'
<1> USE DEF setup, connVars, taskVars, boxVars, callVars, closeVars, PythonClose, CloseCall,
            Await
<1>1. TypeOK'
  BY DEF IInv, TypeOK, LifecycleAssumption, Usable, TaskSound
<1>2. TaskSound'
  BY DEF IInv, TypeOK, LifecycleAssumption, Usable, TaskSound, HandleSound, ReleasedSound, Busy
<1>3. HandleSound'
  BY DEF IInv, TypeOK, LifecycleAssumption, Usable, TaskSound, HandleSound
<1>4. ReleasedSound'
  BY DEF IInv, TypeOK, LifecycleAssumption, Usable, TaskSound, HandleSound, ReleasedSound
<1>5. OutboxSound'
  BY DEF IInv, TypeOK, LifecycleAssumption, Usable, TaskSound, HandleSound, ReleasedSound,
         OutboxSound, Attended
<1>6. Discipline'
  BY DEF IInv, TypeOK, LifecycleAssumption, Usable, TaskSound, HandleSound, ReleasedSound,
         Discipline, Attended, HasUsable, Busy, Alone
<1>7. NullSound'
  BY DEF IInv, TypeOK, LifecycleAssumption, Usable, TaskSound, HandleSound, ReleasedSound,
         Discipline, NullSound, Attended, HasUsable, Busy, Alone
<1> QED
  BY <1>1, <1>2, <1>3, <1>4, <1>5, <1>6, <1>7 DEF IInv

LEMMA JsCloseKeeps ==
  ASSUME LifecycleAssumption, IInv, NEW t \in Tasks, JsClose(t)
  PROVE  IInv'
<1> USE DEF setup, connVars, taskVars, boxVars, callVars, closeVars, JsClose, CloseCall, Await
<1>1. TypeOK'
  BY DEF IInv, TypeOK, LifecycleAssumption, Usable, TaskSound
<1>2. TaskSound'
  BY DEF IInv, TypeOK, LifecycleAssumption, Usable, TaskSound, HandleSound, ReleasedSound, Busy
<1>3. HandleSound'
  BY DEF IInv, TypeOK, LifecycleAssumption, Usable, TaskSound, HandleSound
<1>4. ReleasedSound'
  BY DEF IInv, TypeOK, LifecycleAssumption, Usable, TaskSound, HandleSound, ReleasedSound
<1>5. OutboxSound'
  BY DEF IInv, TypeOK, LifecycleAssumption, Usable, TaskSound, HandleSound, ReleasedSound,
         OutboxSound, Attended
<1>6. Discipline'
  BY DEF IInv, TypeOK, LifecycleAssumption, Usable, TaskSound, HandleSound, ReleasedSound,
         Discipline, Attended, HasUsable, Busy, Alone
<1>7. NullSound'
  BY DEF IInv, TypeOK, LifecycleAssumption, Usable, TaskSound, HandleSound, ReleasedSound,
         Discipline, NullSound, Attended, HasUsable, Busy, Alone
<1> QED
  BY <1>1, <1>2, <1>3, <1>4, <1>5, <1>6, <1>7 DEF IInv

LEMMA CsCloseKeeps ==
  ASSUME LifecycleAssumption, IInv, NEW t \in Tasks, CsClose(t)
  PROVE  IInv'
<1> USE DEF setup, connVars, taskVars, boxVars, callVars, closeVars, CsClose, CloseCall, Await
<1>1. TypeOK'
  BY DEF IInv, TypeOK, LifecycleAssumption, Usable, TaskSound
<1>2. TaskSound'
  BY DEF IInv, TypeOK, LifecycleAssumption, Usable, TaskSound, HandleSound, ReleasedSound, Busy
<1>3. HandleSound'
  BY DEF IInv, TypeOK, LifecycleAssumption, Usable, TaskSound, HandleSound
<1>4. ReleasedSound'
  BY DEF IInv, TypeOK, LifecycleAssumption, Usable, TaskSound, HandleSound, ReleasedSound
<1>5. OutboxSound'
  BY DEF IInv, TypeOK, LifecycleAssumption, Usable, TaskSound, HandleSound, ReleasedSound,
         OutboxSound, Attended
<1>6. Discipline'
  BY DEF IInv, TypeOK, LifecycleAssumption, Usable, TaskSound, HandleSound, ReleasedSound,
         Discipline, Attended, HasUsable, Busy, Alone
<1>7. NullSound'
  BY DEF IInv, TypeOK, LifecycleAssumption, Usable, TaskSound, HandleSound, ReleasedSound,
         Discipline, NullSound, Attended, HasUsable, Busy, Alone
<1> QED
  BY <1>1, <1>2, <1>3, <1>4, <1>5, <1>6, <1>7 DEF IInv

LEMMA JavaCloseKeeps ==
  ASSUME LifecycleAssumption, IInv, NEW t \in Tasks, JavaClose(t)
  PROVE  IInv'
<1> USE DEF setup, connVars, taskVars, boxVars, callVars, closeVars, JavaClose, CloseCall, Await
<1>1. TypeOK'
  BY DEF IInv, TypeOK, LifecycleAssumption, Usable, TaskSound
<1>2. TaskSound'
  BY DEF IInv, TypeOK, LifecycleAssumption, Usable, TaskSound, HandleSound, ReleasedSound, Busy
<1>3. HandleSound'
  BY DEF IInv, TypeOK, LifecycleAssumption, Usable, TaskSound, HandleSound
<1>4. ReleasedSound'
  BY DEF IInv, TypeOK, LifecycleAssumption, Usable, TaskSound, HandleSound, ReleasedSound
<1>5. OutboxSound'
  BY DEF IInv, TypeOK, LifecycleAssumption, Usable, TaskSound, HandleSound, ReleasedSound,
         OutboxSound, Attended
<1>6. Discipline'
  BY DEF IInv, TypeOK, LifecycleAssumption, Usable, TaskSound, HandleSound, ReleasedSound,
         Discipline, Attended, HasUsable, Busy, Alone
<1>7. NullSound'
  BY DEF IInv, TypeOK, LifecycleAssumption, Usable, TaskSound, HandleSound, ReleasedSound,
         Discipline, NullSound, Attended, HasUsable, Busy, Alone
<1> QED
  BY <1>1, <1>2, <1>3, <1>4, <1>5, <1>6, <1>7 DEF IInv

LEMMA JavaInterruptedKeeps ==
  ASSUME LifecycleAssumption, IInv, NEW t \in Tasks, JavaInterrupted(t)
  PROVE  IInv'
<1> USE DEF setup, connVars, taskVars, boxVars, callVars, closeVars, JavaInterrupted, Finish,
            Await
<1>1. TypeOK'
  BY DEF IInv, TypeOK, LifecycleAssumption, Usable, TaskSound
<1>2. TaskSound'
  BY DEF IInv, TypeOK, LifecycleAssumption, Usable, TaskSound, HandleSound, ReleasedSound, Busy
<1>3. HandleSound'
  BY DEF IInv, TypeOK, LifecycleAssumption, Usable, TaskSound, HandleSound
<1>4. ReleasedSound'
  BY DEF IInv, TypeOK, LifecycleAssumption, Usable, TaskSound, HandleSound, ReleasedSound
<1>5. OutboxSound'
  BY DEF IInv, TypeOK, LifecycleAssumption, Usable, TaskSound, HandleSound, ReleasedSound,
         OutboxSound, Attended
<1>6. Discipline'
  BY DEF IInv, TypeOK, LifecycleAssumption, Usable, TaskSound, HandleSound, ReleasedSound,
         Discipline, Attended, HasUsable, Busy, Alone
<1>7. NullSound'
  BY DEF IInv, TypeOK, LifecycleAssumption, Usable, TaskSound, HandleSound, ReleasedSound,
         Discipline, NullSound, Attended, HasUsable, Busy, Alone
<1> QED
  BY <1>1, <1>2, <1>3, <1>4, <1>5, <1>6, <1>7 DEF IInv

LEMMA GoCloseKeeps ==
  ASSUME LifecycleAssumption, IInv, NEW t \in Tasks, GoClose(t)
  PROVE  IInv'
<1> USE DEF setup, connVars, taskVars, boxVars, callVars, closeVars, GoClose, CloseCall, Dropped
<1>1. TypeOK'
  BY DEF IInv, TypeOK, LifecycleAssumption, Usable, TaskSound
<1>2. TaskSound'
  BY DEF IInv, TypeOK, LifecycleAssumption, Usable, TaskSound, HandleSound, ReleasedSound, Busy
<1>3. HandleSound'
  BY DEF IInv, TypeOK, LifecycleAssumption, Usable, TaskSound, HandleSound
<1>4. ReleasedSound'
  BY DEF IInv, TypeOK, LifecycleAssumption, Usable, TaskSound, HandleSound, ReleasedSound
<1>5. OutboxSound'
  BY DEF IInv, TypeOK, LifecycleAssumption, Usable, TaskSound, HandleSound, ReleasedSound,
         OutboxSound, Attended
<1>6. Discipline'
  BY DEF IInv, TypeOK, LifecycleAssumption, Usable, TaskSound, HandleSound, ReleasedSound,
         Discipline, Attended, HasUsable, Busy, Alone
<1>7. NullSound'
  BY DEF IInv, TypeOK, LifecycleAssumption, Usable, TaskSound, HandleSound, ReleasedSound,
         Discipline, NullSound, Attended, HasUsable, Busy, Alone
<1> QED
  BY <1>1, <1>2, <1>3, <1>4, <1>5, <1>6, <1>7 DEF IInv

LEMMA DrainEndsKeeps ==
  ASSUME LifecycleAssumption, IInv, NEW c \in Conns, DrainEnds(c)
  PROVE  IInv'
<1> USE DEF setup, connVars, taskVars, boxVars, callVars, closeVars, DrainEnds, Flushed, Dropped
<1>1. TypeOK'
  BY DEF IInv, TypeOK, LifecycleAssumption, Usable, TaskSound
<1>2. TaskSound'
  BY DEF IInv, TypeOK, LifecycleAssumption, Usable, TaskSound, HandleSound, ReleasedSound, Busy
<1>3. HandleSound'
  BY DEF IInv, TypeOK, LifecycleAssumption, Usable, TaskSound, HandleSound
<1>4. ReleasedSound'
  BY DEF IInv, TypeOK, LifecycleAssumption, Usable, TaskSound, HandleSound, ReleasedSound
<1>5. OutboxSound'
  BY DEF IInv, TypeOK, LifecycleAssumption, Usable, TaskSound, HandleSound, ReleasedSound,
         OutboxSound, Attended
<1>6. Discipline'
  BY DEF IInv, TypeOK, LifecycleAssumption, Usable, TaskSound, HandleSound, ReleasedSound,
         Discipline, Attended, HasUsable, Busy, Alone
<1>7. NullSound'
  BY DEF IInv, TypeOK, LifecycleAssumption, Usable, TaskSound, HandleSound, ReleasedSound,
         Discipline, NullSound, Attended, HasUsable, Busy, Alone
<1> QED
  BY <1>1, <1>2, <1>3, <1>4, <1>5, <1>6, <1>7 DEF IInv

LEMMA DrainFailsKeeps ==
  ASSUME LifecycleAssumption, IInv, NEW c \in Conns, DrainFails(c)
  PROVE  IInv'
<1> USE DEF setup, connVars, taskVars, boxVars, callVars, closeVars, DrainFails
<1>1. TypeOK'
  BY DEF IInv, TypeOK, LifecycleAssumption, Usable, TaskSound
<1>2. TaskSound'
  BY DEF IInv, TypeOK, LifecycleAssumption, Usable, TaskSound, HandleSound, ReleasedSound, Busy
<1>3. HandleSound'
  BY DEF IInv, TypeOK, LifecycleAssumption, Usable, TaskSound, HandleSound
<1>4. ReleasedSound'
  BY DEF IInv, TypeOK, LifecycleAssumption, Usable, TaskSound, HandleSound, ReleasedSound
<1>5. OutboxSound'
  BY DEF IInv, TypeOK, LifecycleAssumption, Usable, TaskSound, HandleSound, ReleasedSound,
         OutboxSound, Attended
<1>6. Discipline'
  BY DEF IInv, TypeOK, LifecycleAssumption, Usable, TaskSound, HandleSound, ReleasedSound,
         Discipline, Attended, HasUsable, Busy, Alone
<1>7. NullSound'
  BY DEF IInv, TypeOK, LifecycleAssumption, Usable, TaskSound, HandleSound, ReleasedSound,
         Discipline, NullSound, Attended, HasUsable, Busy, Alone
<1> QED
  BY <1>1, <1>2, <1>3, <1>4, <1>5, <1>6, <1>7 DEF IInv

LEMMA CloseEndKeeps ==
  ASSUME LifecycleAssumption, IInv, NEW t \in Tasks, CloseEnd(t)
  PROVE  IInv'
<1> USE DEF setup, connVars, taskVars, boxVars, callVars, closeVars, CloseEnd, Finish, Await
<1>1. TypeOK'
  BY DEF IInv, TypeOK, LifecycleAssumption, Usable, TaskSound
<1>2. TaskSound'
  BY DEF IInv, TypeOK, LifecycleAssumption, Usable, TaskSound, HandleSound, ReleasedSound, Busy
<1>3. HandleSound'
  BY DEF IInv, TypeOK, LifecycleAssumption, Usable, TaskSound, HandleSound
<1>4. ReleasedSound'
  BY DEF IInv, TypeOK, LifecycleAssumption, Usable, TaskSound, HandleSound, ReleasedSound
<1>5. OutboxSound'
  BY DEF IInv, TypeOK, LifecycleAssumption, Usable, TaskSound, HandleSound, ReleasedSound,
         OutboxSound, Attended
<1>6. Discipline'
  BY DEF IInv, TypeOK, LifecycleAssumption, Usable, TaskSound, HandleSound, ReleasedSound,
         Discipline, Attended, HasUsable, Busy, Alone
<1>7. NullSound'
  BY DEF IInv, TypeOK, LifecycleAssumption, Usable, TaskSound, HandleSound, ReleasedSound,
         Discipline, NullSound, Attended, HasUsable, Busy, Alone
<1> QED
  BY <1>1, <1>2, <1>3, <1>4, <1>5, <1>6, <1>7 DEF IInv

LEMMA CloseFailsKeeps ==
  ASSUME LifecycleAssumption, IInv, NEW t \in Tasks, CloseFails(t)
  PROVE  IInv'
<1> USE DEF setup, connVars, taskVars, boxVars, callVars, closeVars, CloseFails, Finish, Await
<1>1. TypeOK'
  BY DEF IInv, TypeOK, LifecycleAssumption, Usable, TaskSound
<1>2. TaskSound'
  BY DEF IInv, TypeOK, LifecycleAssumption, Usable, TaskSound, HandleSound, ReleasedSound, Busy
<1>3. HandleSound'
  BY DEF IInv, TypeOK, LifecycleAssumption, Usable, TaskSound, HandleSound
<1>4. ReleasedSound'
  BY DEF IInv, TypeOK, LifecycleAssumption, Usable, TaskSound, HandleSound, ReleasedSound
<1>5. OutboxSound'
  BY DEF IInv, TypeOK, LifecycleAssumption, Usable, TaskSound, HandleSound, ReleasedSound,
         OutboxSound, Attended
<1>6. Discipline'
  BY DEF IInv, TypeOK, LifecycleAssumption, Usable, TaskSound, HandleSound, ReleasedSound,
         Discipline, Attended, HasUsable, Busy, Alone
<1>7. NullSound'
  BY DEF IInv, TypeOK, LifecycleAssumption, Usable, TaskSound, HandleSound, ReleasedSound,
         Discipline, NullSound, Attended, HasUsable, Busy, Alone
<1> QED
  BY <1>1, <1>2, <1>3, <1>4, <1>5, <1>6, <1>7 DEF IInv

LEMMA CloseClearsKeeps ==
  ASSUME LifecycleAssumption, IInv, NEW t \in Tasks, CloseClears(t)
  PROVE  IInv'
<1> USE DEF setup, connVars, taskVars, boxVars, callVars, closeVars, CloseClears, Finish, Await
<1>1. TypeOK'
  BY DEF IInv, TypeOK, LifecycleAssumption, Usable, TaskSound
<1>2. TaskSound'
  BY DEF IInv, TypeOK, LifecycleAssumption, Usable, TaskSound, HandleSound, ReleasedSound, Busy
<1>3. HandleSound'
  BY DEF IInv, TypeOK, LifecycleAssumption, Usable, TaskSound, HandleSound
<1>4. ReleasedSound'
  BY DEF IInv, TypeOK, LifecycleAssumption, Usable, TaskSound, HandleSound, ReleasedSound
<1>5. OutboxSound'
  BY DEF IInv, TypeOK, LifecycleAssumption, Usable, TaskSound, HandleSound, ReleasedSound,
         OutboxSound, Attended
<1>6. Discipline'
  BY DEF IInv, TypeOK, LifecycleAssumption, Usable, TaskSound, HandleSound, ReleasedSound,
         Discipline, Attended, HasUsable, Busy, Alone
<1>7. NullSound'
  BY DEF IInv, TypeOK, LifecycleAssumption, Usable, TaskSound, HandleSound, ReleasedSound,
         Discipline, NullSound, Attended, HasUsable, Busy, Alone
<1> QED
  BY <1>1, <1>2, <1>3, <1>4, <1>5, <1>6, <1>7 DEF IInv

(***************************************************************************)
(* The connection.                                                         *)
(***************************************************************************)

LEMMA DisconnectKeeps ==
  ASSUME LifecycleAssumption, IInv, NEW c \in Conns, Disconnect(c)
  PROVE  IInv'
<1> USE DEF setup, connVars, taskVars, boxVars, callVars, closeVars, Disconnect
<1>1. TypeOK'
  BY DEF IInv, TypeOK, LifecycleAssumption, Usable, TaskSound
<1>2. TaskSound'
  BY DEF IInv, TypeOK, LifecycleAssumption, Usable, TaskSound, HandleSound, ReleasedSound, Busy
<1>3. HandleSound'
  BY DEF IInv, TypeOK, LifecycleAssumption, Usable, TaskSound, HandleSound
<1>4. ReleasedSound'
  BY DEF IInv, TypeOK, LifecycleAssumption, Usable, TaskSound, HandleSound, ReleasedSound
<1>5. OutboxSound'
  BY DEF IInv, TypeOK, LifecycleAssumption, Usable, TaskSound, HandleSound, ReleasedSound,
         OutboxSound, Attended
<1>6. Discipline'
  BY DEF IInv, TypeOK, LifecycleAssumption, Usable, TaskSound, HandleSound, ReleasedSound,
         Discipline, Attended, HasUsable, Busy, Alone
<1>7. NullSound'
  BY DEF IInv, TypeOK, LifecycleAssumption, Usable, TaskSound, HandleSound, ReleasedSound,
         Discipline, NullSound, Attended, HasUsable, Busy, Alone
<1> QED
  BY <1>1, <1>2, <1>3, <1>4, <1>5, <1>6, <1>7 DEF IInv

LEMMA ReconnectKeeps ==
  ASSUME LifecycleAssumption, IInv, NEW c \in Conns, Reconnect(c)
  PROVE  IInv'
<1> USE DEF setup, connVars, taskVars, boxVars, callVars, closeVars, Reconnect
<1>1. TypeOK'
  BY DEF IInv, TypeOK, LifecycleAssumption, Usable, TaskSound
<1>2. TaskSound'
  BY DEF IInv, TypeOK, LifecycleAssumption, Usable, TaskSound, HandleSound, ReleasedSound, Busy
<1>3. HandleSound'
  BY DEF IInv, TypeOK, LifecycleAssumption, Usable, TaskSound, HandleSound
<1>4. ReleasedSound'
  BY DEF IInv, TypeOK, LifecycleAssumption, Usable, TaskSound, HandleSound, ReleasedSound
<1>5. OutboxSound'
  BY DEF IInv, TypeOK, LifecycleAssumption, Usable, TaskSound, HandleSound, ReleasedSound,
         OutboxSound, Attended
<1>6. Discipline'
  BY DEF IInv, TypeOK, LifecycleAssumption, Usable, TaskSound, HandleSound, ReleasedSound,
         Discipline, Attended, HasUsable, Busy, Alone
<1>7. NullSound'
  BY DEF IInv, TypeOK, LifecycleAssumption, Usable, TaskSound, HandleSound, ReleasedSound,
         Discipline, NullSound, Attended, HasUsable, Busy, Alone
<1> QED
  BY <1>1, <1>2, <1>3, <1>4, <1>5, <1>6, <1>7 DEF IInv

LEMMA GiveUpKeeps ==
  ASSUME LifecycleAssumption, IInv, NEW c \in Conns, GiveUp(c)
  PROVE  IInv'
<1> USE DEF setup, connVars, taskVars, boxVars, callVars, closeVars, GiveUp, Dropped
<1>1. TypeOK'
  BY DEF IInv, TypeOK, LifecycleAssumption, Usable, TaskSound
<1>2. TaskSound'
  BY DEF IInv, TypeOK, LifecycleAssumption, Usable, TaskSound, HandleSound, ReleasedSound, Busy
<1>3. HandleSound'
  BY DEF IInv, TypeOK, LifecycleAssumption, Usable, TaskSound, HandleSound
<1>4. ReleasedSound'
  BY DEF IInv, TypeOK, LifecycleAssumption, Usable, TaskSound, HandleSound, ReleasedSound
<1>5. OutboxSound'
  BY DEF IInv, TypeOK, LifecycleAssumption, Usable, TaskSound, HandleSound, ReleasedSound,
         OutboxSound, Attended
<1>6. Discipline'
  BY DEF IInv, TypeOK, LifecycleAssumption, Usable, TaskSound, HandleSound, ReleasedSound,
         Discipline, Attended, HasUsable, Busy, Alone
<1>7. NullSound'
  BY DEF IInv, TypeOK, LifecycleAssumption, Usable, TaskSound, HandleSound, ReleasedSound,
         Discipline, NullSound, Attended, HasUsable, Busy, Alone
<1> QED
  BY <1>1, <1>2, <1>3, <1>4, <1>5, <1>6, <1>7 DEF IInv

LEMMA WriteOutKeeps ==
  ASSUME LifecycleAssumption, IInv, NEW c \in Conns, WriteOut(c)
  PROVE  IInv'
<1> USE DEF setup, connVars, taskVars, boxVars, callVars, closeVars, WriteOut, Flushed
<1>1. TypeOK'
  BY DEF IInv, TypeOK, LifecycleAssumption, Usable, TaskSound
<1>2. TaskSound'
  BY DEF IInv, TypeOK, LifecycleAssumption, Usable, TaskSound, HandleSound, ReleasedSound, Busy
<1>3. HandleSound'
  BY DEF IInv, TypeOK, LifecycleAssumption, Usable, TaskSound, HandleSound
<1>4. ReleasedSound'
  BY DEF IInv, TypeOK, LifecycleAssumption, Usable, TaskSound, HandleSound, ReleasedSound
<1>5. OutboxSound'
  BY DEF IInv, TypeOK, LifecycleAssumption, Usable, TaskSound, HandleSound, ReleasedSound,
         OutboxSound, Attended
<1>6. Discipline'
  BY DEF IInv, TypeOK, LifecycleAssumption, Usable, TaskSound, HandleSound, ReleasedSound,
         Discipline, Attended, HasUsable, Busy, Alone
<1>7. NullSound'
  BY DEF IInv, TypeOK, LifecycleAssumption, Usable, TaskSound, HandleSound, ReleasedSound,
         Discipline, NullSound, Attended, HasUsable, Busy, Alone
<1> QED
  BY <1>1, <1>2, <1>3, <1>4, <1>5, <1>6, <1>7 DEF IInv

(***************************************************************************)
(* send().                                                                 *)
(***************************************************************************)

LEMMA SendKeeps ==
  ASSUME LifecycleAssumption, IInv, NEW t \in Tasks, NEW m \in Messages, Send(t, m)
  PROVE  IInv'
<1> USE DEF setup, connVars, taskVars, boxVars, callVars, closeVars, Send, Publish, Accept,
            Refuse
<1>1. TypeOK'
  BY DEF IInv, TypeOK, LifecycleAssumption, Usable, TaskSound
<1>2. TaskSound'
  BY DEF IInv, TypeOK, LifecycleAssumption, Usable, TaskSound, HandleSound, ReleasedSound, Busy
<1>3. HandleSound'
  BY DEF IInv, TypeOK, LifecycleAssumption, Usable, TaskSound, HandleSound
<1>4. ReleasedSound'
  BY DEF IInv, TypeOK, LifecycleAssumption, Usable, TaskSound, HandleSound, ReleasedSound
<1>5. OutboxSound'
  BY DEF IInv, TypeOK, LifecycleAssumption, Usable, TaskSound, HandleSound, ReleasedSound,
         OutboxSound, Attended
<1>6. Discipline'
  BY DEF IInv, TypeOK, LifecycleAssumption, Usable, TaskSound, HandleSound, ReleasedSound,
         Discipline, Attended, HasUsable, Busy, Alone
<1>7. NullSound'
  BY DEF IInv, TypeOK, LifecycleAssumption, Usable, TaskSound, HandleSound, ReleasedSound,
         Discipline, NullSound, Attended, HasUsable, Busy, Alone
<1> QED
  BY <1>1, <1>2, <1>3, <1>4, <1>5, <1>6, <1>7 DEF IInv

LEMMA CsSendCheckKeeps ==
  ASSUME LifecycleAssumption, IInv, NEW t \in Tasks, NEW m \in Messages, CsSendCheck(t, m)
  PROVE  IInv'
<1> USE DEF setup, connVars, taskVars, boxVars, callVars, closeVars, CsSendCheck, Await
<1>1. TypeOK'
  BY DEF IInv, TypeOK, LifecycleAssumption, Usable, TaskSound
<1>2. TaskSound'
  BY DEF IInv, TypeOK, LifecycleAssumption, Usable, TaskSound, HandleSound, ReleasedSound, Busy
<1>3. HandleSound'
  BY DEF IInv, TypeOK, LifecycleAssumption, Usable, TaskSound, HandleSound
<1>4. ReleasedSound'
  BY DEF IInv, TypeOK, LifecycleAssumption, Usable, TaskSound, HandleSound, ReleasedSound
<1>5. OutboxSound'
  BY DEF IInv, TypeOK, LifecycleAssumption, Usable, TaskSound, HandleSound, ReleasedSound,
         OutboxSound, Attended
<1>6. Discipline'
  BY DEF IInv, TypeOK, LifecycleAssumption, Usable, TaskSound, HandleSound, ReleasedSound,
         Discipline, Attended, HasUsable, Busy, Alone
<1>7. NullSound'
  BY DEF IInv, TypeOK, LifecycleAssumption, Usable, TaskSound, HandleSound, ReleasedSound,
         Discipline, NullSound, Attended, HasUsable, Busy, Alone
<1> QED
  BY <1>1, <1>2, <1>3, <1>4, <1>5, <1>6, <1>7 DEF IInv

LEMMA CsSendPublishKeeps ==
  ASSUME LifecycleAssumption, IInv, NEW t \in Tasks, CsSendPublish(t)
  PROVE  IInv'
<1> USE DEF setup, connVars, taskVars, boxVars, callVars, closeVars, CsSendPublish, Publish,
            Accept, Refuse, Finish, Await
<1>1. TypeOK'
  BY DEF IInv, TypeOK, LifecycleAssumption, Usable, TaskSound
<1>2. TaskSound'
  BY DEF IInv, TypeOK, LifecycleAssumption, Usable, TaskSound, HandleSound, ReleasedSound, Busy
<1>3. HandleSound'
  BY DEF IInv, TypeOK, LifecycleAssumption, Usable, TaskSound, HandleSound
<1>4. ReleasedSound'
  BY DEF IInv, TypeOK, LifecycleAssumption, Usable, TaskSound, HandleSound, ReleasedSound
<1>5. OutboxSound'
  BY DEF IInv, TypeOK, LifecycleAssumption, Usable, TaskSound, HandleSound, ReleasedSound,
         OutboxSound, Attended
<1>6. Discipline'
  BY DEF IInv, TypeOK, LifecycleAssumption, Usable, TaskSound, HandleSound, ReleasedSound,
         Discipline, Attended, HasUsable, Busy, Alone
<1>7. NullSound'
  BY DEF IInv, TypeOK, LifecycleAssumption, Usable, TaskSound, HandleSound, ReleasedSound,
         Discipline, NullSound, Attended, HasUsable, Busy, Alone
<1> QED
  BY <1>1, <1>2, <1>3, <1>4, <1>5, <1>6, <1>7 DEF IInv

LEMMA StutterKeeps ==
  ASSUME LifecycleAssumption, IInv, UNCHANGED vars
  PROVE  IInv'
<1> USE DEF setup, connVars, taskVars, boxVars, callVars, closeVars, vars
<1>1. TypeOK'
  BY DEF IInv, TypeOK, LifecycleAssumption, Usable, TaskSound
<1>2. TaskSound'
  BY DEF IInv, TypeOK, LifecycleAssumption, Usable, TaskSound, HandleSound, ReleasedSound, Busy
<1>3. HandleSound'
  BY DEF IInv, TypeOK, LifecycleAssumption, Usable, TaskSound, HandleSound
<1>4. ReleasedSound'
  BY DEF IInv, TypeOK, LifecycleAssumption, Usable, TaskSound, HandleSound, ReleasedSound
<1>5. OutboxSound'
  BY DEF IInv, TypeOK, LifecycleAssumption, Usable, TaskSound, HandleSound, ReleasedSound,
         OutboxSound, Attended
<1>6. Discipline'
  BY DEF IInv, TypeOK, LifecycleAssumption, Usable, TaskSound, HandleSound, ReleasedSound,
         Discipline, Attended, HasUsable, Busy, Alone
<1>7. NullSound'
  BY DEF IInv, TypeOK, LifecycleAssumption, Usable, TaskSound, HandleSound, ReleasedSound,
         Discipline, NullSound, Attended, HasUsable, Busy, Alone
<1> QED
  BY <1>1, <1>2, <1>3, <1>4, <1>5, <1>6, <1>7 DEF IInv

LEMMA Invariance ==
  ASSUME LifecycleAssumption
  PROVE  Spec => []IInv
<1>1. Init => IInv
  BY InitHolds
<1>2. ASSUME IInv, [Next]_vars PROVE IInv'
  <2>1. ASSUME NEW t \in Tasks, ConnectStart(t) \/ ConnectEnd(t) PROVE IInv'
    BY <1>2, <2>1, ConnectStartKeeps, ConnectEndKeeps
  <2>2. ASSUME NEW t \in Tasks, Close(t) PROVE IInv'
    <3>1. CASE CloseNothing(t) \/ PythonClose(t) \/ JsClose(t)
      BY <1>2, <3>1, CloseNothingKeeps, PythonCloseKeeps, JsCloseKeeps
    <3>2. CASE CsClose(t) \/ JavaClose(t) \/ GoClose(t)
      BY <1>2, <3>2, CsCloseKeeps, JavaCloseKeeps, GoCloseKeeps
    <3> QED
      BY <2>2, <3>1, <3>2 DEF Close
  <2>3. ASSUME NEW t \in Tasks, JavaInterrupted(t) \/ CloseGoesOn(t) PROVE IInv'
    BY <1>2, <2>3, JavaInterruptedKeeps, CloseEndKeeps, CloseFailsKeeps, CloseClearsKeeps
       DEF CloseGoesOn
  <2>4. ASSUME NEW t \in Tasks, NEW m \in Messages, Send(t, m) \/ CsSendCheck(t, m) PROVE IInv'
    BY <1>2, <2>4, SendKeeps, CsSendCheckKeeps
  <2>5. ASSUME NEW t \in Tasks, CsSendPublish(t) PROVE IInv'
    BY <1>2, <2>5, CsSendPublishKeeps
  <2>6. ASSUME NEW c \in Conns, ConnectionMade(c) \/ Drained(c) PROVE IInv'
    BY <1>2, <2>6, ConnectionMadeKeeps, DrainEndsKeeps, DrainFailsKeeps DEF Drained
  <2>7. ASSUME NEW c \in Conns, Disconnect(c) \/ Reconnect(c) \/ GiveUp(c) \/ WriteOut(c) PROVE IInv'
    BY <1>2, <2>7, DisconnectKeeps, ReconnectKeeps, GiveUpKeeps, WriteOutKeeps
  <2>8. CASE UNCHANGED vars
    BY <1>2, <2>8, StutterKeeps
  <2> QED
    BY <1>2, <2>1, <2>2, <2>3, <2>4, <2>5, <2>6, <2>7, <2>8 DEF Next
<1> QED
  BY <1>1, <1>2, PTL DEF Spec

-----------------------------------------------------------------------------
\* The variables keep their shape, with any number of tasks and connections.
THEOREM TypeCorrect ==
  ASSUME LifecycleAssumption
  PROVE  Spec => []TypeOK
<1>1. IInv => TypeOK
  BY DEF IInv
<1> QED
  BY <1>1, Invariance, PTL

\* An application that connects only without a usable connection, and does not
\* overlap connect() and close(), never loses one it would have to close, unless
\* a drain of it has failed.
THEOREM NothingLeaks ==
  ASSUME LifecycleAssumption
  PROVE  Spec => []NoLeak
<1>1. IInv => NoLeak
  BY DEF IInv, Discipline, NoLeak, Attended
<1> QED
  BY <1>1, Invariance, PTL

\* For such an application, close() returns when the connection is closed,
\* unless a drain of it has failed; and in Python and JavaScript what it had
\* accepted has arrived, but for what was on its way when the connection was lost.
THEOREM ClosedIsClosed ==
  ASSUME LifecycleAssumption
  PROVE  Spec => []CloseMeansClosed
<1>1. IInv => CloseMeansClosed
  BY DEF IInv, TypeOK, Discipline, OutboxSound, CloseMeansClosed
<1> QED
  BY <1>1, Invariance, PTL

\* For such an application, send() of C# meets a cleared handle after its check
\* only if a close() has returned for the connection it had found.
THEOREM NullNeedsClose ==
  ASSUME LifecycleAssumption
  PROVE  Spec => []NullUseNeedsClose
<1>1. IInv => NullUseNeedsClose
  BY DEF IInv, NullSound, NullUseNeedsClose
<1> QED
  BY <1>1, Invariance, PTL

\* No connection takes a message after a close() has returned for it, not even
\* if the calls overlap in every way; Go, whose drain goes on, excepted.
THEOREM ClosedTakesNothing ==
  ASSUME LifecycleAssumption
  PROVE  Spec => NothingAfterClose
<1> DEFINE Quiet == sdk # "go" => \A c \in released : \A m \in outbox'[c] : m \in outbox[c]
<1>1. ASSUME IInv, [Next]_vars PROVE [Quiet]_vars
  <2> SUFFICES ASSUME sdk # "go", NEW c \in released, NEW m \in outbox'[c]
               PROVE  m \in outbox[c]
    OBVIOUS
  <2>1. /\ c \in Conns /\ (conn[c] = "closed" \/ handle # c)
        /\ outbox \in [Conns -> SUBSET Messages]
    BY <1>1 DEF IInv, TypeOK, ReleasedSound
  <2>2. ASSUME NEW n, Publish(n) PROVE m \in outbox[c]
    BY <2>1, <2>2 DEF Publish, Accept, Refuse, Usable, boxVars
  <2>3. ASSUME NEW t \in Tasks, NEW n \in Messages, Send(t, n) \/ CsSendPublish(t)
        PROVE  m \in outbox[c]
    BY <2>2, <2>3 DEF Send, CsSendPublish
  <2>4. ASSUME NEW d \in Conns, DrainEnds(d) \/ GiveUp(d) \/ WriteOut(d) PROVE m \in outbox[c]
    BY <2>1, <2>4 DEF DrainEnds, WriteOut, GiveUp, Flushed, Dropped
  <2>5. ASSUME NEW d \in Conns, Disconnect(d) PROVE m \in outbox[c]
    BY <2>1, <2>5 DEF Disconnect
  <2>6. ASSUME outbox' = outbox PROVE m \in outbox[c]
    BY <2>6
  <2>7. ASSUME NEW d \in Conns, ConnectionMade(d) \/ DrainFails(d) \/ Reconnect(d)
        PROVE  outbox' = outbox
    BY <2>7 DEF ConnectionMade, DrainFails, Reconnect, boxVars
  <2>8. ASSUME NEW t \in Tasks, ConnectStart(t) \/ ConnectEnd(t) \/ JavaInterrupted(t) \/ CloseGoesOn(t)
        PROVE  outbox' = outbox
    BY <2>8 DEF ConnectStart, ConnectEnd, JavaInterrupted, CloseGoesOn, CloseEnd, CloseFails,
                CloseClears, boxVars
  <2>9. ASSUME NEW t \in Tasks, Close(t) PROVE outbox' = outbox
    BY <2>9 DEF Close, CloseNothing, PythonClose, JsClose, CsClose, JavaClose, GoClose, CloseCall,
                boxVars
  <2>10. ASSUME NEW t \in Tasks, NEW n \in Messages, CsSendCheck(t, n) PROVE outbox' = outbox
    BY <2>10 DEF CsSendCheck, boxVars
  <2>11. CASE UNCHANGED vars
    BY <2>11 DEF vars, boxVars
  <2> QED
    <3>1. CASE \E t \in Tasks : \/ ConnectStart(t) \/ ConnectEnd(t) \/ JavaInterrupted(t)
                                \/ CloseGoesOn(t) \/ Close(t)
      BY <2>6, <2>8, <2>9, <3>1
    <3>2. CASE \E d \in Conns : \/ ConnectionMade(d) \/ Drained(d) \/ Disconnect(d) \/ Reconnect(d)
                                \/ GiveUp(d) \/ WriteOut(d)
      BY <2>4, <2>5, <2>6, <2>7, <3>2 DEF Drained
    <3>3. CASE \E t \in Tasks, n \in Messages : Send(t, n) \/ CsSendCheck(t, n)
      BY <2>3, <2>6, <2>10, <3>3
    <3>4. CASE \E t \in Tasks : CsSendPublish(t)
      BY <2>2, <3>4 DEF CsSendPublish
    <3> QED
      BY <1>1, <2>11, <3>1, <3>2, <3>3, <3>4 DEF Next
<1> QED
  BY <1>1, Invariance, PTL DEF Spec, NothingAfterClose
=============================================================================
