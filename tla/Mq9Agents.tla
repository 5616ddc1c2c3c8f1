----------------------------- MODULE Mq9Agents -----------------------------
(***************************************************************************)
(* The multi-agent demo: agent A (Python) leaves the address of its own    *)
(* mailbox and then three tasks in a public mailbox, the rendezvous; agent *)
(* B (Go) takes the first message it gets there for the address, answers   *)
(* the others to that address, and stops after three answers.              *)
(*                                                                         *)
(* The demo is meant to be run once, B before A.  Here B may be started at *)
(* any time, and again, and A may be run several times, as long as the     *)
(* mailboxes live.  The connections of both may be lost at any time: what  *)
(* had been written on one and had not arrived is gone, what the library   *)
(* still held is written on the next, and the server replays the mailbox   *)
(* that is listened to.                                                    *)
(*                                                                         *)
(* B has two threads: its main program, which waits for three answers or   *)
(* for its time to be over, and the library's, which calls its callback.   *)
(***************************************************************************)
EXTENDS Naturals, Sequences, FiniteSets

CONSTANTS
  Runs,           \* the runs of A
  NoMsg,          \* no message
  MaxTroubles     \* how often B may be started again, a connection be lost, or
                  \* a call of B fail

ASSUME AgentsAssumption ==
  /\ NoMsg \notin [from : Runs, what : 0..3]
  /\ MaxTroubles \in Nat

\* A run of A sends the address of its mailbox, letter 0 here, and the tasks 1
\* to 3, in this order.
Expected == 3
Address == 0
Letters == [from : Runs, what : Address..Expected]

VARIABLES
  rendezvous,  \* the letters stored there, in order of arrival
  answers,     \* the answers stored in the mailbox of each run of A, in order
  a,           \* each run of A: "idle", "sending", "waiting", "done" or "gone"
  sent,        \* how many letters have left it, stored or lost
  missing,     \* those of them a lost connection took
  coming,      \* the answers on their way to its callback
  results,     \* the answers its callback has collected
  b,           \* B's main program: "new", "off", "waiting", "leaving" or
               \* "panicked"
  buffer,      \* the letters on their way to B's callback
  cur,         \* the letter the callback works on, or NoMsg
  replyTo,     \* the letter B took for the address, or NoMsg
  processed,   \* B's count of its answers
  done,        \* has B closed its channel?
  outbox,      \* the answers B has sent and the library not yet written out
  troubles     \* how often B was started again, a connection lost or a call failed

aVars == <<a, sent, missing, coming, results>>
bVars == <<b, buffer, cur, replyTo, processed, done, outbox>>
vars == <<rendezvous, answers, aVars, bVars, troubles>>

-----------------------------------------------------------------------------
TaskLevel == <<"critical", "urgent", "normal">>

\* Faulty: the address goes by the default.
LevelOfDefault(m) == IF m.what = Address THEN "normal" ELSE TaskLevel[m.what]

LevelOf(m) == IF m.what = Address THEN "critical" ELSE TaskLevel[m.what]

RankOf(m) == [critical |-> 1, urgent |-> 2, normal |-> 3][LevelOf(m)]

\* Faulty: the newest come first within a level.
GoesBeforeNewest(i, j) ==
  LET m == rendezvous[i]
      n == rendezvous[j]
  IN  RankOf(m) < RankOf(n) \/ (RankOf(m) = RankOf(n) /\ i > j)

\* The order of a replay: the letter at i before the one at j.
GoesBefore(i, j) ==
  LET m == rendezvous[i]
      n == rendezvous[j]
  IN  RankOf(m) < RankOf(n) \/ (RankOf(m) = RankOf(n) /\ i < j)

Place(j) == 1 + Cardinality({i \in DOMAIN rendezvous : GoesBefore(i, j)})

\* What the server replays of the rendezvous (external): by level and, within
\* a level, by arrival.
Replay ==
  [k \in DOMAIN rendezvous |-> rendezvous[CHOOSE i \in DOMAIN rendezvous : Place(i) = k]]

BAlive == b \in {"waiting", "leaving"}
BListens == b = "waiting"

Init ==
  /\ rendezvous = <<>>
  /\ answers = [r \in Runs |-> <<>>]
  /\ a = [r \in Runs |-> "idle"]
  /\ sent = [r \in Runs |-> 0]
  /\ missing = [r \in Runs |-> {}]
  /\ coming = [r \in Runs |-> <<>>]
  /\ results = [r \in Runs |-> <<>>]
  /\ b = "new"
  /\ buffer = <<>>
  /\ cur = NoMsg
  /\ replyTo = NoMsg
  /\ processed = 0
  /\ done = FALSE
  /\ outbox = <<>>
  /\ troubles = 0

(***************************************************************************)
(* Agent A.                                                                *)
(***************************************************************************)

\* It connects and creates its mailbox and, if need be, the rendezvous.
AStart(r) ==
  /\ a[r] = "idle"
  /\ a' = [a EXCEPT ![r] = "sending"]
  /\ UNCHANGED <<rendezvous, answers, sent, missing, coming, results, bVars, troubles>>

\* Faulty: one letter too many.
ASendMore(r) ==
  LET m == [from |-> r, what |-> sent[r]]
  IN  /\ a[r] = "sending"
      /\ sent[r] <= Expected + 1
      /\ sent' = [sent EXCEPT ![r] = @ + 1]
      /\ rendezvous' = Append(rendezvous, m)
      /\ buffer' = IF BListens THEN Append(buffer, m) ELSE buffer
      /\ UNCHANGED <<answers, a, missing, coming, results, b, cur, replyTo, processed, done, outbox,
                     troubles>>

\* The next letter it has sent is stored, and pushed to B.  A waits for none to
\* be, and may be further on with its sending.  That makes no difference: what
\* it does next, its subscription, goes behind the letters on the connection.
ASend(r) ==
  LET m == [from |-> r, what |-> sent[r]]
  IN  /\ a[r] = "sending"
      /\ sent[r] <= Expected
      /\ sent' = [sent EXCEPT ![r] = @ + 1]
      /\ rendezvous' = Append(rendezvous, m)
      /\ buffer' = IF BListens THEN Append(buffer, m) ELSE buffer
      /\ UNCHANGED <<answers, a, missing, coming, results, b, cur, replyTo, processed, done, outbox,
                     troubles>>

\* It subscribes to its own mailbox: what is there is replayed.
ASubscribe(r) ==
  /\ a[r] = "sending"
  /\ sent[r] > Expected
  /\ a' = [a EXCEPT ![r] = "waiting"]
  /\ coming' = [coming EXCEPT ![r] = answers[r]]
  /\ UNCHANGED <<rendezvous, answers, sent, missing, results, bVars, troubles>>

AReceive(r) ==
  /\ a[r] = "waiting"
  /\ coming[r] # <<>>
  /\ coming' = [coming EXCEPT ![r] = Tail(@)]
  /\ results' = [results EXCEPT ![r] = Append(@, Head(coming[r]))]
  /\ UNCHANGED <<rendezvous, answers, a, sent, missing, bVars, troubles>>

\* Faulty: one answer too few is waited for.
AEndsEarly(r) ==
  /\ a[r] = "waiting"
  /\ Len(results[r]) >= Expected - 1
  /\ a' = [a EXCEPT ![r] = "done"]
  /\ UNCHANGED <<rendezvous, answers, sent, missing, coming, results, bVars, troubles>>

\* It has counted as many answers as it has set tasks.
AEnds(r) ==
  /\ a[r] = "waiting"
  /\ Len(results[r]) >= Expected
  /\ a' = [a EXCEPT ![r] = "done"]
  /\ UNCHANGED <<rendezvous, answers, sent, missing, coming, results, bVars, troubles>>

\* Its time is over, a call has failed, or it is stopped.
AGivesUp(r) ==
  /\ a[r] \in {"sending", "waiting"}
  /\ a' = [a EXCEPT ![r] = "gone"]
  /\ UNCHANGED <<rendezvous, answers, sent, missing, coming, results, bVars, troubles>>

\* The letters from first to last.
Between(first, last) == {n \in Address..Expected : first <= n /\ n <= last}

\* The connection is lost and made again.  Of the letters, the next ones were
\* written on the old one and have not arrived; those after them, if A has sent
\* them, are written on the new one.  The server replays A's mailbox.
AReconnects(r) ==
  /\ a[r] \in {"sending", "waiting"}
  /\ troubles < MaxTroubles
  /\ troubles' = troubles + 1
  /\ \E next \in sent[r]..Expected + 1 :
       /\ sent' = [sent EXCEPT ![r] = next]
       /\ missing' = [missing EXCEPT ![r] = @ \cup Between(sent[r], next - 1)]
  /\ coming' = [coming EXCEPT ![r] = IF a[r] = "waiting" THEN @ \o answers[r] ELSE @]
  /\ UNCHANGED <<rendezvous, answers, a, results, bVars>>

(***************************************************************************)
(* Agent B.                                                                *)
(***************************************************************************)

\* It connects and subscribes to the rendezvous.
BStart ==
  /\ \/ b = "new" /\ UNCHANGED troubles
     \/ b \in {"off", "panicked"} /\ troubles < MaxTroubles /\ troubles' = troubles + 1
  /\ b' = "waiting"
  /\ buffer' = Replay
  /\ cur' = NoMsg /\ replyTo' = NoMsg
  /\ processed' = 0 /\ done' = FALSE
  /\ outbox' = <<>>
  /\ UNCHANGED <<rendezvous, answers, aVars>>

\* Faulty: the address is counted too.
BTakeCounting ==
  /\ BListens
  /\ cur = NoMsg
  /\ buffer # <<>>
  /\ buffer' = Tail(buffer)
  /\ IF replyTo = NoMsg
     THEN replyTo' = Head(buffer) /\ processed' = processed + 1 /\ UNCHANGED cur
     ELSE cur' = Head(buffer) /\ UNCHANGED <<replyTo, processed>>
  /\ UNCHANGED <<rendezvous, answers, aVars, b, done, outbox, troubles>>

\* The callback is given a letter: the first is the address, any other a task,
\* which takes it a while.
BTake ==
  /\ BListens
  /\ cur = NoMsg
  /\ buffer # <<>>
  /\ buffer' = Tail(buffer)
  /\ IF replyTo = NoMsg
     THEN replyTo' = Head(buffer) /\ UNCHANGED cur
     ELSE cur' = Head(buffer) /\ UNCHANGED replyTo
  /\ UNCHANGED <<rendezvous, answers, aVars, b, processed, done, outbox, troubles>>

\* It sends the answer and counts it.  At three it closes its channel, and
\* closing it again is a panic.
BAnswer ==
  /\ BAlive
  /\ cur # NoMsg
  /\ cur' = NoMsg
  /\ outbox' = Append(outbox, cur)
  /\ processed' = processed + 1
  /\ done' = (done \/ processed' >= Expected)
  /\ b' = IF done /\ processed' >= Expected THEN "panicked" ELSE b
  /\ UNCHANGED <<rendezvous, answers, aVars, buffer, replyTo, troubles>>

\* The send is refused: the task is dropped, and not counted.
BAnswerFails ==
  /\ BAlive
  /\ cur # NoMsg
  /\ troubles < MaxTroubles
  /\ troubles' = troubles + 1
  /\ cur' = NoMsg
  /\ UNCHANGED <<rendezvous, answers, aVars, b, buffer, replyTo, processed, done, outbox>>

\* The library writes an answer out, in the background; the server stores it
\* and pushes it to A.  If B took a task for the address, no mailbox has that
\* name.
BWriteOut ==
  LET to == replyTo.from
      m == Head(outbox)
      found == replyTo.what = Address
  IN  /\ BAlive
      /\ outbox # <<>>
      /\ outbox' = Tail(outbox)
      /\ answers' = [answers EXCEPT ![to] = IF found THEN Append(@, m) ELSE @]
      /\ coming' = [coming EXCEPT ![to] = IF found /\ a[to] = "waiting" THEN Append(@, m) ELSE @]
      /\ UNCHANGED <<rendezvous, a, sent, missing, results, b, buffer, cur, replyTo, processed, done,
                     troubles>>

\* The main program sees that the channel is closed, or that its time is over,
\* and unsubscribes; a callback that runs goes on.
BUnsubscribe ==
  /\ b = "waiting"
  /\ b' = "leaving"
  /\ buffer' = <<>>
  /\ UNCHANGED <<rendezvous, answers, aVars, cur, replyTo, processed, done, outbox, troubles>>

\* Close() starts a drain and returns, and the process ends: what it has not
\* written out by now is lost.
BExit ==
  /\ b = "leaving"
  /\ b' = "off"
  /\ UNCHANGED <<rendezvous, answers, aVars, buffer, cur, replyTo, processed, done, outbox, troubles>>

\* The connection is lost and made again: the first of the answers not stored
\* were written on the old one, the others are written on the new one.
BReconnects ==
  /\ BAlive
  /\ troubles < MaxTroubles
  /\ troubles' = troubles + 1
  /\ \E k \in 0..Len(outbox) : outbox' = SubSeq(outbox, k + 1, Len(outbox))
  /\ buffer' = IF BListens THEN buffer \o Replay ELSE buffer
  /\ UNCHANGED <<rendezvous, answers, aVars, b, cur, replyTo, processed, done>>

-----------------------------------------------------------------------------
A(r) ==
  \/ AStart(r) \/ ASend(r) \/ ASubscribe(r) \/ AReceive(r) \/ AEnds(r) \/ AGivesUp(r)
  \/ AReconnects(r)

B ==
  \/ BStart \/ BTake \/ BAnswer \/ BAnswerFails \/ BWriteOut \/ BUnsubscribe \/ BExit
  \/ BReconnects

Next == (\E r \in Runs : A(r)) \/ B

Spec == Init /\ [][Next]_vars

-----------------------------------------------------------------------------
(***************************************************************************)
(* Properties.                                                             *)
(***************************************************************************)

\* The variables keep their shape.
TypeOK ==
  /\ rendezvous \in Seq(Letters)
  /\ answers \in [Runs -> Seq(Letters)]
  /\ a \in [Runs -> {"idle", "sending", "waiting", "done", "gone"}]
  /\ sent \in [Runs -> 0..Expected + 1]
  /\ missing \in [Runs -> SUBSET (Address..Expected)]
  /\ coming \in [Runs -> Seq(Letters)]
  /\ results \in [Runs -> Seq(Letters)]
  /\ b \in {"new", "off", "waiting", "leaving", "panicked"}
  /\ buffer \in Seq(Letters)
  /\ {cur, replyTo} \subseteq Letters \cup {NoMsg}
  /\ processed \in Nat /\ done \in BOOLEAN
  /\ outbox \in Seq(Letters)
  /\ troubles \in 0..MaxTroubles

\* B takes a task for the address only if a lost connection took the address of
\* that very run of A: restarts, replays and other runs of A cannot make it.
AddressFirst ==
  replyTo # NoMsg /\ replyTo.what # Address => Address \in missing[replyTo.from]

\* The run of A whose address is the first one in the rendezvous.
FirstAddressOf(r) ==
  \E i \in DOMAIN rendezvous :
    /\ rendezvous[i] = [from |-> r, what |-> Address]
    /\ \A j \in 1..(i - 1) : rendezvous[j].what # Address

\* As long as the rendezvous keeps its letters, only the run of A whose address
\* came first is ever answered, by this B and by those started later; letters
\* of other runs that were stored before make no difference.
FirstIsAnswered == \A r \in Runs : answers[r] # <<>> => FirstAddressOf(r)

\* A has run once, B was not started again, and no connection or call failed.
Undisturbed ==
  /\ Cardinality({r \in Runs : a[r] # "idle"}) <= 1
  /\ troubles = 0

\* Undisturbed, the answers are those to the three tasks, in the order in which
\* they were set, each once; and A is done when it has them all.  This holds
\* whichever of A and B is started first.
AnswersInOrder ==
  Undisturbed => \A r \in Runs :
    /\ Len(results[r]) <= Expected
    /\ \A i \in DOMAIN results[r] : results[r][i] = [from |-> r, what |-> i]
    /\ a[r] = "done" => Len(results[r]) = Expected

\* Undisturbed, B does not close its channel twice.
NoPanic == Undisturbed => b # "panicked"
=============================================================================
