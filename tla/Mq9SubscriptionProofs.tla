----------------------- MODULE Mq9SubscriptionProofs -----------------------
(***************************************************************************)
(* What a subscription promises, for any number of messages, subscriptions *)
(* and reconnections: it skips nothing and keeps the order of each level,  *)
(* it repeats a message only after a reconnection, its loop survives until *)
(* it is stopped, and close() leaves nothing half done.                    *)
(***************************************************************************)
EXTENDS Mq9Subscription, FiniteSetTheorems, SequenceTheorems, TLAPS

(***************************************************************************)
(* Sequences: what taking, pushing and discarding do to taken \o buffer.   *)
(***************************************************************************)

\* Taking the first message of a buffer moves it, and nothing else.
LEMMA TakeMoves ==
  ASSUME NEW S, NEW t \in Seq(S), NEW b \in Seq(S), b # <<>>
  PROVE  /\ Head(b) \in S
         /\ Tail(b) \in Seq(S)
         /\ Append(t, Head(b)) \in Seq(S)
         /\ Append(t, Head(b)) \o Tail(b) = t \o b
<1>1. /\ Head(b) \in S /\ Head(b) = b[1]
      /\ Tail(b) \in Seq(S)
      /\ Len(Tail(b)) = Len(b) - 1
      /\ \A i \in 1..Len(Tail(b)) : Tail(b)[i] = b[i + 1]
      /\ Len(b) \in Nat \ {0} /\ Len(t) \in Nat
  BY HeadTailProperties, EmptySeq, LenProperties
<1>2. /\ Append(t, Head(b)) \in Seq(S)
      /\ Len(Append(t, Head(b))) = Len(t) + 1
      /\ \A i \in 1..Len(t) : Append(t, Head(b))[i] = t[i]
      /\ Append(t, Head(b))[Len(t) + 1] = Head(b)
  BY <1>1, AppendProperties
<1>3. /\ Append(t, Head(b)) \o Tail(b) \in Seq(S)
      /\ Len(Append(t, Head(b)) \o Tail(b)) = Len(t) + Len(b)
      /\ \A i \in 1..(Len(t) + Len(b)) :
           (Append(t, Head(b)) \o Tail(b))[i]
             = IF i <= Len(t) + 1 THEN Append(t, Head(b))[i] ELSE Tail(b)[i - (Len(t) + 1)]
  <2>1. Len(Append(t, Head(b))) + Len(Tail(b)) = Len(t) + Len(b)
    BY <1>1, <1>2
  <2> QED
    BY <1>1, <1>2, <2>1, ConcatProperties
<1>4. /\ t \o b \in Seq(S)
      /\ Len(t \o b) = Len(t) + Len(b)
      /\ \A i \in 1..(Len(t) + Len(b)) :
           (t \o b)[i] = IF i <= Len(t) THEN t[i] ELSE b[i - Len(t)]
  BY ConcatProperties
<1>5. ASSUME NEW i \in 1..(Len(t) + Len(b))
      PROVE  (Append(t, Head(b)) \o Tail(b))[i] = (t \o b)[i]
  <2>1. CASE i <= Len(t)
    BY <1>1, <1>2, <1>3, <1>4, <2>1
  <2>2. CASE i = Len(t) + 1
    BY <1>1, <1>2, <1>3, <1>4, <2>2
  <2>3. CASE i > Len(t) + 1
    <3>1. i - (Len(t) + 1) \in 1..Len(Tail(b)) /\ (i - (Len(t) + 1)) + 1 = i - Len(t)
      BY <1>1, <2>3
    <3>2. Tail(b)[i - (Len(t) + 1)] = b[i - Len(t)]
      BY <1>1, <3>1
    <3> QED
      BY <1>1, <1>3, <1>4, <2>3, <3>2
  <2> QED
    BY <1>1, <2>1, <2>2, <2>3
<1> QED
  BY <1>1, <1>2, <1>3, <1>4, <1>5, SeqEqual

\* A pushed message comes after all the others.
LEMMA PushAppends ==
  ASSUME NEW S, NEW t \in Seq(S), NEW b \in Seq(S), NEW m \in S
  PROVE  /\ Append(b, m) \in Seq(S)
         /\ t \o Append(b, m) = Append(t \o b, m)
<1>1. <<m>> \in Seq(S) /\ Append(b, m) = b \o <<m>> /\ t \o b \in Seq(S)
  BY AppendIsConcat, ConcatProperties
<1>2. Append(t \o b, m) = (t \o b) \o <<m>>
  BY <1>1, AppendIsConcat
<1> QED
  BY <1>1, <1>2, ConcatProperties, ConcatAssociative

\* What precedes a suffix is a prefix.
LEMMA PrefixOfConcat ==
  ASSUME NEW S, NEW p \in Seq(S), NEW r \in Seq(S)
  PROVE  IsPrefixOf(p, p \o r)
<1>1. /\ p \o r \in Seq(S)
      /\ Len(p \o r) = Len(p) + Len(r)
      /\ \A i \in 1..(Len(p) + Len(r)) : (p \o r)[i] = IF i <= Len(p) THEN p[i] ELSE r[i - Len(p)]
      /\ \A i \in 1..(Len(p) + Len(r)) : (p \o r)[i] \in S
      /\ Len(p) \in Nat /\ Len(r) \in Nat
  BY ConcatProperties, LenProperties, ElementOfSeq
<1>2. /\ SubSeq(p \o r, Len(p) + 1, Len(p \o r)) \in Seq(S)
      /\ Len(SubSeq(p \o r, Len(p) + 1, Len(p \o r))) = Len(r)
      /\ \A i \in 1..Len(r) : SubSeq(p \o r, Len(p) + 1, Len(p \o r))[i] = (p \o r)[Len(p) + i]
  <2>1. \A i \in (Len(p) + 1)..Len(p \o r) : (p \o r)[i] \in S
    BY <1>1
  <2>2. /\ SubSeq(p \o r, Len(p) + 1, Len(p \o r)) \in Seq(S)
        /\ Len(SubSeq(p \o r, Len(p) + 1, Len(p \o r)))
             = IF Len(p) + 1 <= Len(p \o r) THEN Len(p \o r) - (Len(p) + 1) + 1 ELSE 0
        /\ \A i \in 1..(Len(p \o r) - (Len(p) + 1) + 1) :
             SubSeq(p \o r, Len(p) + 1, Len(p \o r))[i] = (p \o r)[Len(p) + 1 + i - 1]
    BY <1>1, <2>1, SubSeqProperties
  <2>3. \A i \in Nat : Len(p) + 1 + i - 1 = Len(p) + i
    BY <1>1
  <2> QED
    BY <1>1, <2>2, <2>3
<1>3. \A i \in 1..Len(r) : (p \o r)[Len(p) + i] = r[i]
  <2>1. \A i \in 1..Len(r) : /\ Len(p) + i \in 1..(Len(p) + Len(r))
                             /\ ~(Len(p) + i <= Len(p))
                             /\ (Len(p) + i) - Len(p) = i
    BY <1>1
  <2> QED
    BY <1>1, <2>1
<1>4. SubSeq(p \o r, Len(p) + 1, Len(p \o r)) = r
  BY <1>2, <1>3, SeqEqual
<1> QED
  BY <1>4 DEF IsPrefixOf

\* And what a prefix precedes is a suffix.
LEMMA PrefixHasRest ==
  ASSUME NEW S, NEW p \in Seq(S), NEW q \in Seq(S), IsPrefixOf(p, q)
  PROVE  \E r \in Seq(S) : q = p \o r
<1>1. SubSeq(q, Len(p) + 1, Len(q)) \in Seq(S)
  <2>1. Len(p) \in Nat /\ Len(q) \in Nat
    BY LenProperties
  <2>2. \A i \in (Len(p) + 1)..Len(q) : q[i] \in S
    BY <2>1, ElementOfSeq
  <2> QED
    BY <2>1, <2>2, SubSeqProperties
<1> QED
  BY <1>1 DEF IsPrefixOf

\* A prefix of a prefix is one.
LEMMA PrefixShorter ==
  ASSUME NEW S, NEW p \in Seq(S), NEW b \in Seq(S), NEW q \in Seq(S), IsPrefixOf(p \o b, q)
  PROVE  IsPrefixOf(p, q)
<1>1. p \o b \in Seq(S)
  BY ConcatProperties
<1>2. PICK r \in Seq(S) : q = (p \o b) \o r
  BY <1>1, PrefixHasRest
<1>3. q = p \o (b \o r) /\ b \o r \in Seq(S)
  BY <1>2, ConcatAssociative, ConcatProperties
<1> QED
  BY <1>3, PrefixOfConcat

(***************************************************************************)
(* The inductive invariant, for each subscription.                         *)
(***************************************************************************)

\* Before subscribe() there is nothing.
Fresh(s) ==
  sub[s] = "none" =>
    fed[s] = <<>> /\ buffer[s] = <<>> /\ taken[s] = <<>> /\ loop[s] = "none"

\* The server pushes to a subscription while it is live or, in Rust, until the
\* task it aborted is dropped.
PushedToWhile(s) ==
  registered[s] => sub[s] = "live" \/ (sdk = "rust" /\ sub[s] = "stopped")

\* A buffer that may still grow, or be worked off, is complete.
InUse(s) == registered[s] \/ (Listening(s) /\ loop[s] # "ended")

Complete(s) == InUse(s) => taken[s] \o buffer[s] = fed[s]

TakenFirst(s) == IsPrefixOf(taken[s] \o buffer[s], fed[s])

Kept(s) == Fresh(s) /\ PushedToWhile(s) /\ Complete(s) /\ TakenFirst(s)

IInv == TypeOK /\ \A s \in Subs : Kept(s)

(***************************************************************************)
(* Type correctness.                                                       *)
(***************************************************************************)

LEMMA StoredFinite ==
  ASSUME TypeOK
  PROVE  Stored \subseteq Msgs /\ IsFiniteSet(Stored)
<1>1. /\ Len(mailbox) \in Nat
      /\ DOMAIN mailbox = 1..Len(mailbox)
      /\ mailbox \in [1..Len(mailbox) -> Msgs]
  BY LenProperties DEF TypeOK
<1>2. Stored \subseteq Msgs
  BY <1>1 DEF Stored
<1>3. mailbox \in Surjection(1..Len(mailbox), Stored)
  BY <1>1 DEF Surjection, Stored
<1>4. IsFiniteSet(1..Len(mailbox))
  BY <1>1, FS_Interval
<1> QED
  BY <1>2, <1>3, <1>4, FS_Surjection

\* What the server replays is a sequence of messages.
LEMMA ReplaysType ==
  ASSUME TypeOK, NEW filter, NEW r \in Replays(filter)
  PROVE  r \in Seq(Msgs)
<1> DEFINE matching == {m \in Stored : filter \in {"*", LevelOf[m]}}
<1>1. matching \subseteq Msgs /\ Cardinality(matching) \in Nat
  <2>1. matching \in SUBSET Stored
    OBVIOUS
  <2> HIDE DEF matching
  <2> QED
    BY <2>1, StoredFinite, FS_Subset, FS_CardinalityType
<1>2. r \in [1..Cardinality(matching) -> matching]
  BY DEF Replays
<1> HIDE DEF matching
<1> QED
  BY <1>1, <1>2

LEMMA AfterCallbackType ==
  ASSUME NEW s \in Subs
  PROVE  AfterCallback(s) \in {"idle", "hot", "ended"}
<1>1. CASE sub[s] # "stopped"
  BY <1>1 DEF AfterCallback
<1>2. CASE sub[s] = "stopped" /\ sdk \in {"go", "java"}
  BY <1>2 DEF AfterCallback
<1>3. CASE sub[s] = "stopped" /\ sdk \notin {"go", "java"}
  BY <1>3 DEF AfterCallback
<1> QED
  BY <1>1, <1>2, <1>3

LEMMA NoMessages == <<>> \in Seq(Msgs)
  BY EmptySeq

LEMMA InitTypeOK == Init => TypeOK
<1> SUFFICES ASSUME Init PROVE TypeOK
  OBVIOUS
<1>1. /\ mailbox \in Seq(Msgs)
      /\ fed \in [Subs -> Seq(Msgs)]
      /\ buffer \in [Subs -> Seq(Msgs)]
      /\ taken \in [Subs -> Seq(Msgs)]
  BY NoMessages DEF Init
<1>2. /\ sub \in [Subs -> {"none", "live", "stopped", "flushing"}]
      /\ registered \in [Subs -> BOOLEAN]
      /\ loop \in [Subs -> {"none", "idle", "running", "hot", "broken", "ended"}]
      /\ cur \in [Subs -> Msgs \cup {None}]
      /\ \A s \in Subs : cur[s] = None <=> loop[s] # "running"
  BY DEF Init
<1>3. /\ want \in [Subs -> Filters]
      /\ reconnects \in [Subs -> 0..MaxReconnects]
  BY SubscriptionAssumption DEF Init, Filters
<1> QED
  BY <1>1, <1>2, <1>3 DEF Init, TypeOK

\* Ending loops keeps the shape of what it changes, the link between a loop
\* and its current message included.
LEMMA EndLoopsType ==
  ASSUME TypeOK, NEW S, EndLoops(S)
  PROVE  /\ buffer' \in [Subs -> Seq(Msgs)]
         /\ loop' \in [Subs -> {"none", "idle", "running", "hot", "broken", "ended"}]
         /\ cur' \in [Subs -> Msgs \cup {None}]
         /\ \A s \in Subs : cur'[s] = None <=> loop'[s] # "running"
  BY NoMessages DEF TypeOK, EndLoops, Set

\* Steps of one subscription.
LEMMA StepTypeOKLoop ==
  ASSUME TypeOK, NEW s \in Subs
  PROVE  /\ Take(s) => TypeOK'
         /\ Leave(s) => TypeOK'
         /\ RustPanic(s) => TypeOK'
         /\ GoPanic(s) => TypeOK'
         /\ PythonCallbackCancelled(s) => TypeOK'
         /\ Unsubscribe(s) => TypeOK'
         /\ LoopStops(s) => TypeOK'
<1>1. ASSUME Take(s) PROVE TypeOK'
  <2>1. /\ Head(buffer[s]) \in Msgs
        /\ Tail(buffer[s]) \in Seq(Msgs)
        /\ Append(taken[s], Head(buffer[s])) \in Seq(Msgs)
    <3>1. taken[s] \in Seq(Msgs) /\ buffer[s] \in Seq(Msgs) /\ buffer[s] # <<>>
      BY <1>1 DEF TypeOK, Take
    <3> QED
      BY <3>1, TakeMoves
  <2>2. /\ buffer' \in [Subs -> Seq(Msgs)] /\ taken' \in [Subs -> Seq(Msgs)]
    BY <1>1, <2>1 DEF TypeOK, Take
  <2>3. /\ loop' \in [Subs -> {"none", "idle", "running", "hot", "broken", "ended"}]
        /\ cur' \in [Subs -> Msgs \cup {None}]
        /\ \A x \in Subs : cur'[x] = None <=> loop'[x] # "running"
    <3>1. CASE Unparseable(Head(buffer[s]))
      BY <1>1, <3>1 DEF TypeOK, Take
    <3>2. CASE ~Unparseable(Head(buffer[s]))
      <4>1. /\ loop' = [loop EXCEPT ![s] = "running"]
            /\ cur' = [cur EXCEPT ![s] = Head(buffer[s])]
            /\ Head(buffer[s]) \in Msgs /\ Head(buffer[s]) # None
        BY <1>1, <2>1, <3>2, SubscriptionAssumption DEF Take
      <4> QED
        BY <4>1 DEF TypeOK
    <3> QED
      BY <3>1, <3>2
  <2> QED
    BY <1>1, <2>2, <2>3 DEF TypeOK, Take, closeVars
<1>2. ASSUME Leave(s) PROVE TypeOK'
  <2>1. /\ loop' \in [Subs -> {"none", "idle", "running", "hot", "broken", "ended"}]
        /\ cur' \in [Subs -> Msgs \cup {None}]
        /\ \A x \in Subs : cur'[x] = None <=> loop'[x] # "running"
    BY <1>2, AfterCallbackType DEF TypeOK, Leave
  <2> QED
    BY <1>2, <2>1 DEF TypeOK, Leave, closeVars
<1>3. ASSUME RustPanic(s) PROVE TypeOK'
  BY <1>3, EndLoopsType DEF TypeOK, RustPanic, closeVars
<1>4. ASSUME GoPanic(s) PROVE TypeOK'
  BY <1>4, EndLoopsType DEF TypeOK, GoPanic, Set
<1>5. ASSUME Unsubscribe(s) PROVE TypeOK'
  <2>1. CASE RustUnsubscribe(s)
    <3>1. /\ buffer' \in [Subs -> Seq(Msgs)]
          /\ loop' \in [Subs -> {"none", "idle", "running", "hot", "broken", "ended"}]
          /\ cur' \in [Subs -> Msgs \cup {None}]
          /\ \A x \in Subs : cur'[x] = None <=> loop'[x] # "running"
      BY <2>1, EndLoopsType DEF TypeOK, RustUnsubscribe
    <3> QED
      BY <2>1, <3>1 DEF TypeOK, RustUnsubscribe, closeVars
  <2>2. CASE PythonUnsubscribe(s)
    <3>1. taken' \in [Subs -> Seq(Msgs)]
      <4>1. PICK k \in 0..Len(buffer[s]) :
              taken' = [taken EXCEPT ![s] = taken[s] \o SubSeq(buffer[s], 1, k)]
        BY <2>2 DEF PythonUnsubscribe
      <4>2. taken[s] \in Seq(Msgs) /\ buffer[s] \in Seq(Msgs) /\ Len(buffer[s]) \in Nat
        BY LenProperties DEF TypeOK
      <4>3. \A i \in 1..k : buffer[s][i] \in Msgs
        BY <4>2, ElementOfSeq
      <4>4. SubSeq(buffer[s], 1, k) \in Seq(Msgs)
        BY <4>3, SubSeqProperties
      <4> QED
        BY <4>1, <4>2, <4>4, ConcatProperties DEF TypeOK
    <3> QED
      BY <2>2, <3>1, EndLoopsType DEF TypeOK, PythonUnsubscribe, closeVars
  <2>3. CASE GoUnsubscribe(s)
    <3>1. /\ buffer' \in [Subs -> Seq(Msgs)]
          /\ loop' \in [Subs -> {"none", "idle", "running", "hot", "broken", "ended"}]
          /\ \A x \in Subs : cur'[x] = None <=> loop'[x] # "running"
      BY <2>3, NoMessages DEF TypeOK, GoUnsubscribe
    <3> QED
      BY <2>3, <3>1 DEF TypeOK, GoUnsubscribe, closeVars
  <2>4. CASE JsUnsubscribe(s)
    BY <2>4 DEF TypeOK, JsUnsubscribe, closeVars
  <2>5. CASE CsUnsubscribe(s)
    <3>1. /\ buffer' \in [Subs -> Seq(Msgs)]
          /\ loop' \in [Subs -> {"none", "idle", "running", "hot", "broken", "ended"}]
          /\ cur' \in [Subs -> Msgs \cup {None}]
          /\ \A x \in Subs : cur'[x] = None <=> loop'[x] # "running"
      BY <2>5, EndLoopsType DEF TypeOK, CsUnsubscribe
    <3> QED
      BY <2>5, <3>1 DEF TypeOK, CsUnsubscribe, closeVars
  <2> QED
    BY <1>5, <2>1, <2>2, <2>3, <2>4, <2>5 DEF Unsubscribe
<1>6. ASSUME LoopStops(s) PROVE TypeOK'
  <2>1. CASE RustAborted(s)
    BY <2>1, EndLoopsType DEF TypeOK, RustAborted, closeVars
  <2>2. CASE JsIteratorEnds(s)
    BY <2>2, EndLoopsType DEF TypeOK, JsIteratorEnds, closeVars
  <2>3. CASE CsLoopCancelled(s)
    BY <2>3, EndLoopsType DEF TypeOK, CsLoopCancelled, closeVars
  <2>4. CASE FlushedLoopEnds(s)
    BY <2>4, EndLoopsType DEF TypeOK, FlushedLoopEnds, closeVars
  <2> QED
    BY <1>6, <2>1, <2>2, <2>3, <2>4 DEF LoopStops
<1>7. ASSUME PythonCallbackCancelled(s) PROVE TypeOK'
  BY <1>7 DEF TypeOK, PythonCallbackCancelled, closeVars
<1> QED
  BY <1>1, <1>2, <1>3, <1>4, <1>5, <1>6, <1>7

\* Steps of the server.
LEMMA StepTypeOKServer ==
  ASSUME TypeOK
  PROVE  /\ \A m \in Msgs : Arrive(m) => TypeOK'
         /\ \A s \in Subs : Reregister(s) => TypeOK'
         /\ \A s \in Subs, filter \in Filters : Subscribe(s, filter) /\ Fresh(s) => TypeOK'
<1>1. ASSUME NEW m \in Msgs, Arrive(m) PROVE TypeOK'
  <2> DEFINE to == {s \in Subs : registered[s] /\ Wanted(s, m)}
  <2>1. \A q \in Seq(Msgs) : Append(q, m) \in Seq(Msgs)
    BY AppendProperties
  <2>2. /\ mailbox' = Append(mailbox, m)
        /\ fed' = [s \in Subs |-> IF s \in to THEN Append(fed[s], m) ELSE fed[s]]
        /\ buffer' = [s \in Subs |-> IF s \in to THEN Append(buffer[s], m) ELSE buffer[s]]
        /\ UNCHANGED <<sdk, want, sub, registered, taken, loop, cur, closeVars, reconnects>>
    BY <1>1 DEF Arrive
  <2> HIDE DEF to
  <2>3. /\ mailbox' \in Seq(Msgs)
        /\ fed' \in [Subs -> Seq(Msgs)]
        /\ buffer' \in [Subs -> Seq(Msgs)]
    BY <2>1, <2>2 DEF TypeOK
  <2> QED
    BY <2>2, <2>3 DEF TypeOK, closeVars
<1>2. ASSUME NEW s \in Subs, Reregister(s) PROVE TypeOK'
  <2>1. PICK r \in Replays(want[s]) :
          /\ fed' = [fed EXCEPT ![s] = fed[s] \o r]
          /\ buffer' = [buffer EXCEPT ![s] = buffer[s] \o r]
    BY <1>2 DEF Reregister
  <2>2. fed[s] \o r \in Seq(Msgs) /\ buffer[s] \o r \in Seq(Msgs)
    <3>1. r \in Seq(Msgs) /\ fed[s] \in Seq(Msgs) /\ buffer[s] \in Seq(Msgs)
      BY ReplaysType DEF TypeOK
    <3> QED
      BY <3>1, ConcatProperties
  <2>3. fed' \in [Subs -> Seq(Msgs)] /\ buffer' \in [Subs -> Seq(Msgs)]
    BY <2>1, <2>2 DEF TypeOK
  <2>4. reconnects' \in [Subs -> 0..MaxReconnects]
    BY <1>2, SubscriptionAssumption DEF TypeOK, Reregister
  <2> QED
    BY <1>2, <2>3, <2>4 DEF TypeOK, Reregister, closeVars
<1>3. ASSUME NEW s \in Subs, NEW filter \in Filters, Subscribe(s, filter), Fresh(s)
      PROVE  TypeOK'
  <2>1. PICK r \in Replays(filter) :
          /\ fed' = [fed EXCEPT ![s] = r]
          /\ buffer' = [buffer EXCEPT ![s] = r]
    BY <1>3 DEF Subscribe
  <2>2. fed' \in [Subs -> Seq(Msgs)] /\ buffer' \in [Subs -> Seq(Msgs)]
    BY <2>1, ReplaysType DEF TypeOK
  <2>3. /\ want' \in [Subs -> Filters]
        /\ sub' \in [Subs -> {"none", "live", "stopped", "flushing"}]
        /\ registered' \in [Subs -> BOOLEAN]
        /\ loop' \in [Subs -> {"none", "idle", "running", "hot", "broken", "ended"}]
    BY <1>3 DEF TypeOK, Subscribe
  <2>4. /\ cur' = cur /\ loop' = [loop EXCEPT ![s] = "idle"] /\ cur[s] = None
    BY <1>3 DEF TypeOK, Subscribe, Fresh
  <2>5. \A x \in Subs : cur'[x] = None <=> loop'[x] # "running"
    BY <2>4 DEF TypeOK
  <2> QED
    BY <1>3, <2>2, <2>3, <2>4, <2>5 DEF TypeOK, Subscribe, closeVars
<1> QED
  BY <1>1, <1>2, <1>3

\* Steps of close().
LEMMA StepTypeOKClose ==
  ASSUME TypeOK
  PROVE  /\ RustClose \/ CsClose \/ GoClose => TypeOK'
         /\ \A c \in Subs \cup {Main} : CloseStarts(c) => TypeOK'
         /\ CloseProceeds \/ JavaInterrupted => TypeOK'
<1>1. ASSUME RustClose \/ GoClose PROVE TypeOK'
  BY <1>1 DEF TypeOK, RustClose, GoClose, subVars
<1>2. ASSUME CsClose PROVE TypeOK'
  BY <1>2 DEF TypeOK, CsClose, Set
<1>3. ASSUME NEW c \in Subs \cup {Main}, CloseStarts(c) PROVE TypeOK'
  BY <1>3 DEF TypeOK, CloseStarts, subVars
<1>4. ASSUME DrainReachesServer PROVE TypeOK'
  BY <1>4 DEF TypeOK, DrainReachesServer, Set, closeVars
<1>5. ASSUME CloseDrained PROVE TypeOK'
  BY <1>5, EndLoopsType DEF TypeOK, CloseDrained
<1>6. ASSUME DrainTimesOut PROVE TypeOK'
  <2>1. PICK ends \in SUBSET Flushing :
          /\ loop' = Set(loop, ends, "ended")
          /\ cur' = Set(cur, ends, None)
    BY <1>6 DEF DrainTimesOut
  <2>2. /\ loop' \in [Subs -> {"none", "idle", "running", "hot", "broken", "ended"}]
        /\ cur' \in [Subs -> Msgs \cup {None}]
        /\ \A x \in Subs : cur'[x] = None <=> loop'[x] # "running"
    BY <2>1 DEF TypeOK, Set
  <2>3. /\ sub' \in [Subs -> {"none", "live", "stopped", "flushing"}]
        /\ buffer' \in [Subs -> Seq(Msgs)]
    BY <1>6, NoMessages DEF TypeOK, DrainTimesOut, Set
  <2> QED
    BY <1>6, <2>2, <2>3 DEF TypeOK, DrainTimesOut
<1>7. ASSUME JsCloseEnds PROVE TypeOK'
  BY <1>7 DEF TypeOK, JsCloseEnds, Set
<1>8. ASSUME JavaInterrupted PROVE TypeOK'
  BY <1>8 DEF TypeOK, JavaInterrupted, subVars
<1> QED
  BY <1>1, <1>2, <1>3, <1>4, <1>5, <1>6, <1>7, <1>8 DEF CloseProceeds

(***************************************************************************)
(* Most steps push nothing and take nothing: at most they stop a           *)
(* subscription and discard its buffer.                                    *)
(***************************************************************************)

Settles(s) ==
  /\ fed'[s] = fed[s] /\ taken'[s] = taken[s]
  /\ buffer'[s] \in {buffer[s], <<>>}
  /\ InUse(s)' => InUse(s) /\ buffer'[s] = buffer[s]
  /\ sub'[s] = "none" => sub[s] = "none" /\ loop'[s] = loop[s]
  /\ PushedToWhile(s)'

LEMMA SettlingKeeps ==
  ASSUME IInv, NEW s \in Subs, Settles(s)
  PROVE  Kept(s)'
<1>1. /\ taken[s] \in Seq(Msgs) /\ buffer[s] \in Seq(Msgs) /\ fed[s] \in Seq(Msgs)
      /\ Kept(s)
  BY DEF IInv, TypeOK, Kept
<1>2. Fresh(s)'
  BY <1>1 DEF Kept, Fresh, Settles
<1>3. Complete(s)'
  BY <1>1 DEF Kept, Complete, Settles
<1>4. TakenFirst(s)'
  <2>1. IsPrefixOf(taken[s] \o buffer[s], fed[s])
    BY <1>1 DEF Kept, TakenFirst
  <2>2. taken[s] \o <<>> = taken[s] /\ IsPrefixOf(taken[s], fed[s])
    BY <1>1, <2>1, ConcatEmptySeq, PrefixShorter
  <2> QED
    BY <2>1, <2>2 DEF TakenFirst, Settles
<1> QED
  BY <1>2, <1>3, <1>4 DEF Kept, Settles

\* A step that leaves alone what the invariant speaks of settles everything.
LEMMA NothingSettles ==
  ASSUME IInv, UNCHANGED <<sdk, sub, registered, fed, buffer, taken, loop>>, NEW x \in Subs
  PROVE  Settles(x)
  BY DEF Settles, IInv, Kept, PushedToWhile, InUse, Listening

LEMMA LoopSettles ==
  ASSUME IInv, NEW s \in Subs, NEW x \in Subs
  PROVE  /\ Leave(s) => Settles(x)
         /\ RustPanic(s) => Settles(x)
         /\ GoPanic(s) => Settles(x)
         /\ PythonCallbackCancelled(s) => Settles(x)
         /\ LoopStops(s) => Settles(x)
<1> USE DEF Settles, IInv, Kept, TypeOK, Fresh, PushedToWhile, InUse, Listening, EndLoops, Set, closeVars
<1>1. ASSUME Leave(s) PROVE Settles(x)
  BY <1>1, AfterCallbackType DEF Leave
<1>2. ASSUME RustPanic(s) PROVE Settles(x)
  BY <1>2 DEF RustPanic
<1>3. ASSUME GoPanic(s) PROVE Settles(x)
  BY <1>3 DEF GoPanic, Started
<1>4. ASSUME RustAborted(s) PROVE Settles(x)
  BY <1>4 DEF RustAborted
<1>5. ASSUME JsIteratorEnds(s) PROVE Settles(x)
  BY <1>5 DEF JsIteratorEnds
<1>6. ASSUME CsLoopCancelled(s) PROVE Settles(x)
  BY <1>6 DEF CsLoopCancelled
<1>7. ASSUME FlushedLoopEnds(s) PROVE Settles(x)
  BY <1>7 DEF FlushedLoopEnds
<1>8. ASSUME PythonCallbackCancelled(s) PROVE Settles(x)
  BY <1>8 DEF PythonCallbackCancelled
<1> QED
  BY <1>1, <1>2, <1>3, <1>4, <1>5, <1>6, <1>7, <1>8 DEF LoopStops

LEMMA UnsubscribeSettles ==
  ASSUME IInv, NEW s \in Subs, NEW x \in Subs,
         Unsubscribe(s), PythonUnsubscribe(s) => x # s
  PROVE  Settles(x)
<1> USE DEF Settles, IInv, Kept, TypeOK, Fresh, PushedToWhile, InUse, Listening, EndLoops, Set, closeVars
<1>1. CASE RustUnsubscribe(s)
  BY <1>1 DEF RustUnsubscribe
<1>2. CASE PythonUnsubscribe(s)
  <2>1. x # s
    BY <1>2
  <2>2. taken'[x] = taken[x]
    BY <1>2, <2>1 DEF PythonUnsubscribe
  <2> QED
    BY <1>2, <2>1, <2>2 DEF PythonUnsubscribe
<1>3. CASE GoUnsubscribe(s)
  BY <1>3 DEF GoUnsubscribe
<1>4. CASE JsUnsubscribe(s)
  BY <1>4 DEF JsUnsubscribe
<1>5. CASE CsUnsubscribe(s)
  BY <1>5 DEF CsUnsubscribe
<1> QED
  BY <1>1, <1>2, <1>3, <1>4, <1>5 DEF Unsubscribe

LEMMA CloseSettles ==
  ASSUME IInv, NEW x \in Subs
  PROVE  /\ RustClose \/ CsClose \/ GoClose => Settles(x)
         /\ \A c \in Subs \cup {Main} : CloseStarts(c) => Settles(x)
         /\ CloseProceeds \/ JavaInterrupted => Settles(x)
<1> USE DEF Settles, IInv, Kept, TypeOK, Fresh, PushedToWhile, InUse, Listening, Set, Flushing
<1>1. ASSUME RustClose \/ GoClose PROVE Settles(x)
  BY <1>1, NothingSettles DEF RustClose, GoClose, subVars
<1>2. ASSUME CsClose PROVE Settles(x)
  BY <1>2 DEF CsClose
<1>3. ASSUME NEW c \in Subs \cup {Main}, CloseStarts(c) PROVE Settles(x)
  BY <1>3, NothingSettles DEF CloseStarts, subVars
<1>4. ASSUME DrainReachesServer PROVE Settles(x)
  BY <1>4 DEF DrainReachesServer, closeVars
<1>5. ASSUME CloseDrained PROVE Settles(x)
  BY <1>5 DEF CloseDrained, AllFlushed, EndLoops
<1>6. ASSUME DrainTimesOut PROVE Settles(x)
  BY <1>6 DEF DrainTimesOut
<1>7. ASSUME JsCloseEnds PROVE Settles(x)
  BY <1>7 DEF JsCloseEnds
<1>8. ASSUME JavaInterrupted PROVE Settles(x)
  BY <1>8, NothingSettles DEF JavaInterrupted, subVars
<1> QED
  BY <1>1, <1>2, <1>3, <1>4, <1>5, <1>6, <1>7, <1>8 DEF CloseProceeds

(***************************************************************************)
(* The steps that push or take.                                            *)
(***************************************************************************)

LEMMA ArriveKeeps ==
  ASSUME IInv, NEW m \in Msgs, Arrive(m), NEW s \in Subs
  PROVE  Kept(s)'
<1>1. /\ taken[s] \in Seq(Msgs) /\ buffer[s] \in Seq(Msgs) /\ fed[s] \in Seq(Msgs)
      /\ Kept(s)
  BY DEF IInv, TypeOK
<1>2. CASE registered[s] /\ Wanted(s, m)
  <2>1. /\ fed'[s] = Append(fed[s], m) /\ buffer'[s] = Append(buffer[s], m)
        /\ UNCHANGED <<sdk, sub, registered, taken, loop>>
    BY <1>2 DEF Arrive
  <2>2. taken[s] \o buffer[s] = fed[s]
    BY <1>1, <1>2 DEF Kept, Complete, InUse
  <2>3. taken[s] \o Append(buffer[s], m) = Append(fed[s], m)
    <3>1. taken[s] \o Append(buffer[s], m) = Append(taken[s] \o buffer[s], m)
      <4> DEFINE t == taken[s]
                 b == buffer[s]
      <4>1. t \in Seq(Msgs) /\ b \in Seq(Msgs)
        BY <1>1
      <4> HIDE DEF t, b
      <4>2. t \o Append(b, m) = Append(t \o b, m)
        BY <4>1, PushAppends
      <4> QED
        BY <4>2 DEF t, b
    <3> QED
      BY <2>2, <3>1
  <2>4. sub[s] # "none"
    BY <1>1, <1>2 DEF Kept, PushedToWhile
  <2>5. IsPrefixOf(Append(fed[s], m), Append(fed[s], m) \o <<>>)
        /\ Append(fed[s], m) \o <<>> = Append(fed[s], m)
    <3>1. Append(fed[s], m) \in Seq(Msgs)
      BY <1>1, AppendProperties
    <3> QED
      BY <3>1, NoMessages, PrefixOfConcat, ConcatEmptySeq
  <2> QED
    BY <1>1, <2>1, <2>3, <2>4, <2>5
       DEF Kept, Fresh, PushedToWhile, Complete, TakenFirst
<1>3. CASE ~(registered[s] /\ Wanted(s, m))
  <2>1. UNCHANGED <<sdk, sub, registered, taken, loop, fed[s], buffer[s]>>
    BY <1>3 DEF Arrive
  <2> QED
    BY <1>1, <2>1
       DEF Kept, Fresh, PushedToWhile, Complete, TakenFirst, InUse, Listening
<1> QED
  BY <1>2, <1>3

LEMMA ReregisterKeeps ==
  ASSUME IInv, NEW x \in Subs, Reregister(x), NEW s \in Subs
  PROVE  Kept(s)'
<1>1. /\ taken[s] \in Seq(Msgs) /\ buffer[s] \in Seq(Msgs) /\ fed[s] \in Seq(Msgs)
      /\ Kept(s)
  BY DEF IInv, TypeOK
<1>2. /\ registered[x]
      /\ UNCHANGED <<sdk, sub, registered, taken, loop>>
  BY DEF Reregister
<1>3. PICK r \in Replays(want[x]) :
        /\ fed' = [fed EXCEPT ![x] = fed[x] \o r]
        /\ buffer' = [buffer EXCEPT ![x] = buffer[x] \o r]
  BY DEF Reregister
<1>4. CASE s = x
  <2>1. r \in Seq(Msgs)
    BY ReplaysType DEF IInv
  <2>2. fed'[s] = fed[s] \o r /\ buffer'[s] = buffer[s] \o r
    BY <1>3, <1>4 DEF IInv, TypeOK
  <2>3. taken[s] \o buffer[s] = fed[s] /\ sub[s] # "none"
    BY <1>1, <1>2, <1>4 DEF Kept, Complete, InUse, PushedToWhile
  <2>4. taken[s] \o (buffer[s] \o r) = fed[s] \o r
    <3>1. (taken[s] \o buffer[s]) \o r = taken[s] \o (buffer[s] \o r)
      <4> DEFINE t == taken[s]
                 b == buffer[s]
      <4>1. t \in Seq(Msgs) /\ b \in Seq(Msgs)
        BY <1>1
      <4> HIDE DEF t, b
      <4>2. (t \o b) \o r = t \o (b \o r)
        BY <2>1, <4>1, ConcatAssociative
      <4> QED
        BY <4>2 DEF t, b
    <3> QED
      BY <2>3, <3>1
  <2>5. /\ IsPrefixOf(fed[s] \o r, (fed[s] \o r) \o <<>>)
        /\ (fed[s] \o r) \o <<>> = fed[s] \o r
    <3>1. fed[s] \o r \in Seq(Msgs)
      BY <1>1, <2>1, ConcatProperties
    <3> QED
      BY <3>1, NoMessages, PrefixOfConcat, ConcatEmptySeq
  <2> QED
    BY <1>1, <1>2, <2>2, <2>3, <2>4, <2>5
       DEF Kept, Fresh, PushedToWhile, Complete, TakenFirst
<1>5. CASE s # x
  <2>1. UNCHANGED <<fed[s], buffer[s]>>
    BY <1>3, <1>5 DEF IInv, TypeOK
  <2> QED
    BY <1>1, <1>2, <2>1
       DEF Kept, Fresh, PushedToWhile, Complete, TakenFirst, InUse, Listening
<1> QED
  BY <1>4, <1>5

LEMMA SubscribeKeeps ==
  ASSUME IInv, NEW x \in Subs, NEW filter \in Filters, Subscribe(x, filter), NEW s \in Subs
  PROVE  Kept(s)'
<1>1. Kept(s)
  BY DEF IInv
<1>2. PICK r \in Replays(filter) :
        /\ fed' = [fed EXCEPT ![x] = r]
        /\ buffer' = [buffer EXCEPT ![x] = r]
  BY DEF Subscribe
<1>3. CASE s = x
  <2>1. r \in Seq(Msgs)
    BY ReplaysType DEF IInv
  <2>2. fed'[s] = r /\ buffer'[s] = r /\ sub'[s] = "live" /\ taken'[s] = <<>>
    BY <1>1, <1>2, <1>3 DEF IInv, TypeOK, Subscribe, Kept, Fresh
  <2>3. <<>> \o r = r /\ r \o <<>> = r /\ IsPrefixOf(r, r \o <<>>)
    BY <2>1, NoMessages, PrefixOfConcat, ConcatEmptySeq
  <2> QED
    BY <2>2, <2>3 DEF Kept, Fresh, PushedToWhile, Complete, TakenFirst
<1>4. CASE s # x
  <2>1. UNCHANGED <<sdk, sub[s], registered[s], taken[s], loop[s], fed[s], buffer[s]>>
    BY <1>2, <1>4 DEF Subscribe, IInv, TypeOK
  <2> QED
    BY <1>1, <2>1
       DEF Kept, Fresh, PushedToWhile, Complete, TakenFirst, InUse, Listening
<1> QED
  BY <1>3, <1>4

LEMMA TakeKeeps ==
  ASSUME IInv, NEW x \in Subs, Take(x), NEW s \in Subs
  PROVE  Kept(s)'
<1>1. Kept(s) /\ UNCHANGED <<sdk, sub, registered, fed>>
  BY DEF IInv, Take
<1>2. CASE s = x
  <2>1. /\ taken[s] \in Seq(Msgs) /\ buffer[s] \in Seq(Msgs) /\ buffer[s] # <<>>
        /\ taken'[s] = Append(taken[s], Head(buffer[s]))
        /\ buffer'[s] = Tail(buffer[s])
    BY <1>2 DEF IInv, TypeOK, Take
  <2>2. taken'[s] \o buffer'[s] = taken[s] \o buffer[s]
    BY <2>1, TakeMoves
  <2>3. sub[s] # "none" /\ (Listening(s) => loop[s] # "ended")
    BY <1>2 DEF Take, MayTake, Listening
  <2> QED
    BY <1>1, <2>2, <2>3
       DEF Kept, Fresh, PushedToWhile, Complete, TakenFirst, InUse, Listening
<1>3. CASE s # x
  <2>1. UNCHANGED <<taken[s], loop[s], buffer[s]>>
    BY <1>3 DEF Take, IInv, TypeOK
  <2> QED
    BY <1>1, <2>1
       DEF Kept, Fresh, PushedToWhile, Complete, TakenFirst, InUse, Listening
<1> QED
  BY <1>2, <1>3

\* What a cancelled task of Python takes while it is not suspended is the first
\* part of its buffer.
LEMMA PythonUnsubscribeKeeps ==
  ASSUME IInv, NEW s \in Subs, PythonUnsubscribe(s)
  PROVE  Kept(s)'
<1>1. /\ taken[s] \in Seq(Msgs) /\ buffer[s] \in Seq(Msgs) /\ fed[s] \in Seq(Msgs)
      /\ Len(buffer[s]) \in Nat
      /\ Kept(s)
  BY LenProperties DEF IInv, TypeOK
<1>2. /\ sub'[s] = "stopped" /\ ~registered'[s] /\ fed' = fed /\ buffer'[s] = <<>>
  BY DEF PythonUnsubscribe, IInv, TypeOK, EndLoops, Set
<1>3. PICK k \in 0..Len(buffer[s]) : taken'[s] = taken[s] \o SubSeq(buffer[s], 1, k)
  BY DEF PythonUnsubscribe, IInv, TypeOK
<1> DEFINE front == SubSeq(buffer[s], 1, k)
           back == SubSeq(buffer[s], k + 1, Len(buffer[s]))
<1>4. front \in Seq(Msgs) /\ back \in Seq(Msgs) /\ front \o back = buffer[s]
  <2>1. /\ \A i \in 1..k : buffer[s][i] \in Msgs
        /\ \A i \in (k + 1)..Len(buffer[s]) : buffer[s][i] \in Msgs
    BY <1>1, ElementOfSeq
  <2>2. front \in Seq(Msgs) /\ back \in Seq(Msgs)
    BY <1>1, <2>1, SubSeqProperties
  <2>3. front \o back = SubSeq(buffer[s], 1, Len(buffer[s]))
    <3>1. 1 \in 1..(Len(buffer[s]) + 1) /\ k \in 0..Len(buffer[s]) /\ 1 - 1 = 0
          /\ Len(buffer[s]) \in k..Len(buffer[s])
      BY <1>1
    <3> QED
      BY <1>1, <3>1, ConcatAdjacentSubSeq
  <2> QED
    BY <1>1, <2>2, <2>3, SubSeqFull
<1> HIDE DEF front, back
<1>5. /\ taken[s] \o front \in Seq(Msgs)
      /\ taken[s] \o buffer[s] = (taken[s] \o front) \o back
  <2>1. taken[s] \o front \in Seq(Msgs)
    BY <1>1, <1>4, ConcatProperties
  <2>2. (taken[s] \o front) \o back = taken[s] \o (front \o back)
    <3> DEFINE t == taken[s]
    <3>1. t \in Seq(Msgs) /\ front \in Seq(Msgs) /\ back \in Seq(Msgs)
      BY <1>1, <1>4
    <3> HIDE DEF t
    <3>2. (t \o front) \o back = t \o (front \o back)
      BY <3>1, ConcatAssociative
    <3> QED
      BY <3>2 DEF t
  <2> QED
    BY <1>4, <2>1, <2>2
<1>6. IsPrefixOf(taken[s] \o front, fed[s])
  BY <1>1, <1>4, <1>5, PrefixShorter DEF Kept, TakenFirst
<1>7. taken'[s] \o buffer'[s] = taken[s] \o front
  BY <1>2, <1>3, <1>5, ConcatEmptySeq DEF front
<1> QED
  BY <1>2, <1>6, <1>7
     DEF Kept, Fresh, PushedToWhile, Complete, TakenFirst, InUse, Listening

(***************************************************************************)
(* The theorems.                                                           *)
(***************************************************************************)

LEMMA InitIInv == Init => IInv
<1> SUFFICES ASSUME Init PROVE IInv
  OBVIOUS
<1>1. <<>> \o <<>> = <<>> /\ IsPrefixOf(<<>>, <<>> \o <<>>)
  BY NoMessages, PrefixOfConcat, ConcatEmptySeq
<1>2. ASSUME NEW s \in Subs PROVE Kept(s)
  BY <1>1 DEF Init, Kept, Fresh, PushedToWhile, Complete, TakenFirst
<1> QED
  BY <1>2, InitTypeOK DEF IInv

LEMMA StepIInv == IInv /\ [Next]_vars => IInv'
<1> SUFFICES ASSUME IInv, [Next]_vars PROVE IInv'
  OBVIOUS
<1>1. ASSUME NEW m \in Msgs, Arrive(m) PROVE IInv'
  BY <1>1, StepTypeOKServer, ArriveKeeps DEF IInv
<1>2. ASSUME NEW s \in Subs, NEW filter \in Filters, Subscribe(s, filter) PROVE IInv'
  <2>1. Fresh(s)
    BY DEF IInv, Kept
  <2> QED
    BY <1>2, <2>1, StepTypeOKServer, SubscribeKeeps DEF IInv
<1>3. ASSUME NEW s \in Subs, Reregister(s) PROVE IInv'
  BY <1>3, StepTypeOKServer, ReregisterKeeps DEF IInv
<1>4. ASSUME NEW s \in Subs, Take(s) PROVE IInv'
  BY <1>4, StepTypeOKLoop, TakeKeeps DEF IInv
<1>5. ASSUME NEW s \in Subs,
             \/ Leave(s) \/ RustPanic(s) \/ GoPanic(s) \/ PythonCallbackCancelled(s)
             \/ LoopStops(s)
      PROVE  IInv'
  BY <1>5, StepTypeOKLoop, LoopSettles, SettlingKeeps DEF IInv
<1>6. ASSUME NEW s \in Subs, Unsubscribe(s) PROVE IInv'
  <2>1. TypeOK'
    BY <1>6, StepTypeOKLoop DEF IInv
  <2>2. ASSUME NEW x \in Subs PROVE Kept(x)'
    <3>1. CASE PythonUnsubscribe(s) /\ x = s
      BY <3>1, PythonUnsubscribeKeeps
    <3>2. CASE PythonUnsubscribe(s) => x # s
      BY <1>6, <3>2, UnsubscribeSettles, SettlingKeeps
    <3> QED
      BY <3>1, <3>2
  <2> QED
    BY <2>1, <2>2 DEF IInv
<1>7. ASSUME RustClose \/ CsClose \/ GoClose \/ CloseProceeds \/ JavaInterrupted PROVE IInv'
  BY <1>7, StepTypeOKClose, CloseSettles, SettlingKeeps DEF IInv
<1>8. ASSUME NEW c \in Subs \cup {Main}, CloseStarts(c) PROVE IInv'
  BY <1>8, StepTypeOKClose, CloseSettles, SettlingKeeps DEF IInv
<1>9. CASE Terminated \/ UNCHANGED vars
  <2>1. UNCHANGED vars
    BY <1>9 DEF Terminated
  <2>2. TypeOK'
    BY <2>1 DEF IInv, TypeOK, vars, subVars, closeVars
  <2>3. UNCHANGED <<sdk, sub, registered, fed, buffer, taken, loop>>
    BY <2>1 DEF vars, subVars
  <2> QED
    BY <2>2, <2>3, NothingSettles, SettlingKeeps DEF IInv
<1> QED
  BY <1>1, <1>2, <1>3, <1>4, <1>5, <1>6, <1>7, <1>8, <1>9 DEF Next

LEMMA Invariance == Spec => []IInv
<1> QED
  BY InitIInv, StepIInv, PTL DEF Spec

\* The variables of the subscriptions keep their shape, and a loop has a
\* current message exactly while its callback runs.
THEOREM TypeCorrect == Spec => []TypeOK
<1>1. IInv => TypeOK
  BY DEF IInv
<1> QED
  BY <1>1, Invariance, PTL

\* A subscription that has not been stopped has, taken or waiting, exactly what
\* the server pushed, in order; and what the loop of any subscription has taken
\* is the first part of that, however the subscription was stopped.
THEOREM NothingIsSkipped == Spec => []NothingSkipped
<1>1. IInv => NothingSkipped
  BY DEF IInv, Kept, Complete, InUse, TakenFirst, NothingSkipped
<1> QED
  BY <1>1, Invariance, PTL

(***************************************************************************)
(* Order and duplicates: what the server has pushed, and what has arrived. *)
(***************************************************************************)

\* A message arrives once.
MailboxDistinct == \A i, j \in DOMAIN mailbox : mailbox[i] = mailbox[j] => i = j

\* Only stored messages that the filter admits are pushed ...
FedWanted(s) == \A i \in DOMAIN fed[s] : fed[s][i] \in Stored /\ Wanted(s, fed[s][i])

\* ... and while the subscription is registered, all of them are.
FedAll(s) ==
  registered[s] =>
    \A m \in Stored : Wanted(s, m) => \E i \in DOMAIN fed[s] : fed[s][i] = m

\* FirstInOrder and OncePerRegistration, of what was pushed.
FedInOrder(s) ==
  \A j \in DOMAIN fed[s], m \in Stored :
    (ArrivedBefore(m, fed[s][j]) /\ LevelOf[m] = LevelOf[fed[s][j]])
      => \E i \in 1..(j - 1) : fed[s][i] = m

Positions(q, m) == {i \in DOMAIN q : q[i] = m}

FedOnce(s) == \A m \in Msgs : Cardinality(Positions(fed[s], m)) <= 1 + reconnects[s]

Pushed(s) == FedWanted(s) /\ FedAll(s) /\ FedInOrder(s) /\ FedOnce(s)

OrderInv == MailboxDistinct /\ \A s \in Subs : Pushed(s)

LEMMA PositionsFinite ==
  ASSUME NEW q \in Seq(Msgs), NEW m
  PROVE  IsFiniteSet(Positions(q, m)) /\ Cardinality(Positions(q, m)) \in Nat
<1>1. Len(q) \in Nat /\ DOMAIN q = 1..Len(q)
  BY LenProperties
<1>2. IsFiniteSet(1..Len(q))
  BY <1>1, FS_Interval
<1>3. Positions(q, m) \in SUBSET (1..Len(q))
  BY <1>1 DEF Positions
<1> QED
  BY <1>2, <1>3, FS_Subset, FS_CardinalityType

\* A sequence without duplicates has a message at one place at most ...
LEMMA PositionsOfDistinct ==
  ASSUME NEW r \in Seq(Msgs), \A i, j \in DOMAIN r : r[i] = r[j] => i = j, NEW m
  PROVE  Cardinality(Positions(r, m)) <= 1
<1>1. CASE Positions(r, m) = {}
  BY <1>1, FS_EmptySet
<1>2. CASE Positions(r, m) # {}
  <2>1. PICK k : k \in Positions(r, m)
    BY <1>2
  <2>2. Positions(r, m) = {k}
    BY <2>1 DEF Positions
  <2>3. Cardinality({k}) = 1
    BY FS_Singleton
  <2> QED
    BY <2>2, <2>3
<1> QED
  BY <1>1, <1>2

\* ... and adds one at most to where another has it.
LEMMA PositionsOfConcat ==
  ASSUME NEW q \in Seq(Msgs), NEW r \in Seq(Msgs),
         \A i, j \in DOMAIN r : r[i] = r[j] => i = j, NEW m
  PROVE  /\ Cardinality(Positions(q \o r, m)) <= Cardinality(Positions(q, m)) + 1
         /\ (\A j \in DOMAIN r : r[j] # m) => Positions(q \o r, m) = Positions(q, m)
<1>1. /\ Len(q) \in Nat /\ DOMAIN q = 1..Len(q) /\ Len(r) \in Nat /\ DOMAIN r = 1..Len(r)
      /\ q \o r \in Seq(Msgs) /\ Len(q \o r) = Len(q) + Len(r)
      /\ DOMAIN (q \o r) = 1..(Len(q) + Len(r))
      /\ \A i \in 1..(Len(q) + Len(r)) :
           (q \o r)[i] = IF i <= Len(q) THEN q[i] ELSE r[i - Len(q)]
  BY LenProperties, ConcatProperties
<1>2. \A i \in 1..(Len(q) + Len(r)) :
        \/ i \in 1..Len(q) /\ (q \o r)[i] = q[i]
        \/ i \notin 1..Len(q) /\ i - Len(q) \in 1..Len(r) /\ (q \o r)[i] = r[i - Len(q)]
  BY <1>1
<1>3. \A i \in 1..Len(q) : i \in 1..(Len(q) + Len(r)) /\ (q \o r)[i] = q[i]
  BY <1>1
<1>4. CASE \E k \in DOMAIN r : r[k] = m
  <2>1. PICK k \in DOMAIN r : r[k] = m
    BY <1>4
  <2>2. k \in Nat /\ \A i \in 1..(Len(q) + Len(r)) : i - Len(q) = k <=> i = Len(q) + k
    BY <1>1, <2>1
  <2>3. /\ \A j \in DOMAIN r : r[j] = m => j = k
        /\ Len(q) + k \in 1..(Len(q) + Len(r))
        /\ Len(q) + k \notin 1..Len(q)
    BY <1>1, <2>1
  <2>4. \A i \in Positions(q \o r, m) : i \in Positions(q, m) \cup {Len(q) + k}
    <3> SUFFICES ASSUME NEW i \in Positions(q \o r, m), i \notin 1..Len(q)
                 PROVE  i = Len(q) + k
      BY <1>1, <1>2 DEF Positions
    <3>1. i \in 1..(Len(q) + Len(r)) /\ i - Len(q) \in 1..Len(r) /\ r[i - Len(q)] = m
      BY <1>1, <1>2 DEF Positions
    <3>2. i - Len(q) = k
      BY <1>1, <2>3, <3>1
    <3> QED
      BY <2>2, <3>1, <3>2
  <2>5. Cardinality(Positions(q, m) \cup {Len(q) + k}) <= Cardinality(Positions(q, m)) + 1
        /\ IsFiniteSet(Positions(q, m) \cup {Len(q) + k})
    <3>1. IsFiniteSet(Positions(q, m)) /\ Cardinality(Positions(q, m)) \in Nat
      BY PositionsFinite
    <3> DEFINE P == Positions(q, m)
               l == Len(q) + k
    <3> HIDE DEF P, l
    <3>2. IsFiniteSet(P \cup {l}) /\ Cardinality(P \cup {l}) = IF l \in P THEN Cardinality(P) ELSE Cardinality(P) + 1
      BY <3>1, FS_AddElement DEF P
    <3>3. Cardinality(P) \in Nat
      BY <3>1 DEF P
    <3>4. Cardinality(P \cup {l}) <= Cardinality(P) + 1
      BY <3>2, <3>3
    <3> QED
      BY <3>2, <3>4 DEF P, l
  <2>6. Cardinality(Positions(q \o r, m)) <= Cardinality(Positions(q, m) \cup {Len(q) + k})
    BY <2>4, <2>5, FS_Subset
  <2>7. /\ Cardinality(Positions(q, m)) \in Nat /\ Cardinality(Positions(q \o r, m)) \in Nat
        /\ Cardinality(Positions(q, m) \cup {Len(q) + k}) \in Nat
    BY <1>1, <2>5, PositionsFinite, FS_CardinalityType
  <2> QED
    BY <2>1, <2>5, <2>6, <2>7
<1>5. CASE ~\E k \in DOMAIN r : r[k] = m
  <2>1. Positions(q \o r, m) = Positions(q, m)
    BY <1>1, <1>2, <1>3, <1>5 DEF Positions
  <2>2. Cardinality(Positions(q, m)) \in Nat
    BY PositionsFinite
  <2> QED
    BY <2>1, <2>2
<1> QED
  BY <1>4, <1>5

\* What arrived before something else did not arrive after it.
LEMMA ArrivalIsOrder ==
  ASSUME TypeOK, MailboxDistinct, NEW m, NEW n, ArrivedBefore(m, n)
  PROVE  m # n /\ ~ArrivedBefore(n, m) /\ m \in Stored /\ n \in Stored
<1>1. Len(mailbox) \in Nat /\ DOMAIN mailbox = 1..Len(mailbox)
  BY LenProperties DEF TypeOK
<1> QED
  BY <1>1 DEF ArrivedBefore, MailboxDistinct, Stored

\* A replay has every stored message the filter admits, once, those of a level as
\* they arrived.
LEMMA ReplayFacts ==
  ASSUME TypeOK, MailboxDistinct, NEW filter, NEW r \in Replays(filter)
  PROVE  /\ r \in Seq(Msgs)
         /\ \A i \in DOMAIN r : r[i] \in Stored /\ filter \in {"*", LevelOf[r[i]]}
         /\ \A m \in Stored : filter \in {"*", LevelOf[m]} => \E i \in DOMAIN r : r[i] = m
         /\ \A i, j \in DOMAIN r : r[i] = r[j] => i = j
         /\ \A i, j \in DOMAIN r :
              ArrivedBefore(r[i], r[j]) /\ LevelOf[r[i]] = LevelOf[r[j]] => i < j
<1> DEFINE matching == {m \in Stored : filter \in {"*", LevelOf[m]}}
           n == Cardinality(matching)
<1>1. matching \subseteq Msgs /\ matching \subseteq Stored /\ IsFiniteSet(matching) /\ n \in Nat
  <2>1. matching \in SUBSET Stored
    OBVIOUS
  <2> HIDE DEF matching
  <2> QED
    BY <2>1, StoredFinite, FS_Subset, FS_CardinalityType
<1>2. r \in [1..n -> matching] /\ \A i, j \in 1..n : i < j => ReplayedBefore(r[i], r[j])
  BY DEF Replays
<1>3. \A m \in matching : m \in Stored /\ filter \in {"*", LevelOf[m]}
  OBVIOUS
<1>4. \A m \in Stored : filter \in {"*", LevelOf[m]} => m \in matching
  OBVIOUS
<1> HIDE DEF matching, n
<1>5. \A m \in Msgs : Rank[LevelOf[m]] \in Nat
  <2>1. \A m \in Msgs : LevelOf[m] \in {"critical", "urgent", "normal"}
    BY SubscriptionAssumption DEF Levels
  <2>2. Rank["critical"] = 1 /\ Rank["urgent"] = 2 /\ Rank["normal"] = 3
    BY DEF Rank
  <2> QED
    BY <2>1, <2>2
<1>6. \A i, j \in 1..n : i < j => r[i] # r[j]
  <2> SUFFICES ASSUME NEW i \in 1..n, NEW j \in 1..n, i < j, r[i] = r[j] PROVE FALSE
    OBVIOUS
  <2>1. ReplayedBefore(r[i], r[i]) /\ r[i] \in Msgs
    BY <1>1, <1>2
  <2>2. ArrivedBefore(r[i], r[i])
    BY <1>5, <2>1 DEF ReplayedBefore
  <2> QED
    BY <2>2, ArrivalIsOrder
<1>7. \A i, j \in 1..n : r[i] = r[j] => i = j
  <2> SUFFICES ASSUME NEW i \in 1..n, NEW j \in 1..n, i # j PROVE r[i] # r[j]
    OBVIOUS
  <2>1. i < j \/ j < i
    BY <1>1
  <2> QED
    BY <1>6, <2>1
<1>8. r \in Injection(1..n, matching)
  BY <1>2, <1>7 DEF Injection, IsInjective
<1>9. r \in Surjection(1..n, matching)
  <2>1. Cardinality(1..n) = n
    BY <1>1, FS_Interval
  <2> QED
    BY <1>1, <1>8, <2>1, FS_Injection DEF n
<1>10. ASSUME NEW i \in 1..n, NEW j \in 1..n,
              ArrivedBefore(r[i], r[j]), LevelOf[r[i]] = LevelOf[r[j]]
       PROVE  i < j
  <2>1. i # j /\ ~ArrivedBefore(r[j], r[i])
    BY <1>10, ArrivalIsOrder
  <2>2. ASSUME j < i PROVE FALSE
    <3>1. ReplayedBefore(r[j], r[i]) /\ r[i] \in Msgs /\ r[j] \in Msgs
      BY <1>1, <1>2, <2>2
    <3> QED
      BY <1>5, <1>10, <2>1, <3>1 DEF ReplayedBefore
  <2> QED
    BY <1>1, <2>1, <2>2
<1>11. DOMAIN r = 1..n /\ r \in Seq(Msgs)
  BY <1>1, <1>2
<1>12. \A m \in matching : \E i \in 1..n : r[i] = m
  BY <1>9 DEF Surjection
<1> QED
  BY <1>2, <1>3, <1>4, <1>7, <1>10, <1>11, <1>12

\* A step that pushes nothing to s and registers nothing.
LEMMA UnpushedKeeps ==
  ASSUME NEW s \in Subs, Pushed(s),
         UNCHANGED <<mailbox, want[s], fed[s], reconnects[s]>>, registered'[s] => registered[s]
  PROVE  Pushed(s)'
  BY DEF Pushed, FedWanted, FedAll, FedInOrder, FedOnce, Stored, Wanted, ArrivedBefore

LEMMA ArriveKeepsOrder ==
  ASSUME IInv, IInv', OrderInv, NEW m \in Msgs, Arrive(m)
  PROVE  OrderInv'
<1>1. /\ m \notin Stored /\ mailbox' = Append(mailbox, m)
      /\ UNCHANGED <<want, registered, reconnects>>
      /\ mailbox \in Seq(Msgs)
      /\ \A s \in Subs : /\ fed[s] \in Seq(Msgs) /\ reconnects[s] \in Nat
                         /\ fed'[s] = IF registered[s] /\ Wanted(s, m) THEN Append(fed[s], m) ELSE fed[s]
  BY SubscriptionAssumption DEF Arrive, IInv, TypeOK
<1>2. /\ Len(mailbox) \in Nat /\ DOMAIN mailbox = 1..Len(mailbox)
      /\ DOMAIN mailbox' = 1..(Len(mailbox) + 1)
      /\ \A i \in 1..Len(mailbox) : mailbox'[i] = mailbox[i]
      /\ mailbox'[Len(mailbox) + 1] = m
  BY <1>1, LenProperties, AppendProperties
<1>3. \A i \in DOMAIN mailbox : mailbox[i] # m
  BY <1>1 DEF Stored
<1>4. Stored' = Stored \cup {m}
  BY <1>2 DEF Stored
<1>5. MailboxDistinct'
  BY <1>2, <1>3 DEF OrderInv, MailboxDistinct
<1>6. \A x, y : y # m => (ArrivedBefore(x, y)' <=> ArrivedBefore(x, y))
  BY <1>2 DEF ArrivedBefore
<1>7. \A x, y : ArrivedBefore(x, y)' => x \in Stored
  <2> SUFFICES ASSUME NEW x, NEW y, ArrivedBefore(x, y)' PROVE x \in Stored
    OBVIOUS
  <2>1. PICK i \in DOMAIN mailbox', j \in DOMAIN mailbox' : i < j /\ mailbox'[i] = x
    BY DEF ArrivedBefore
  <2>2. i \in 1..Len(mailbox)
    BY <1>2, <2>1
  <2> QED
    BY <1>2, <2>1, <2>2 DEF Stored
<1>8. ASSUME NEW s \in Subs PROVE Pushed(s)'
  <2> DEFINE q == fed[s]
  <2>0. q \in Seq(Msgs) /\ Len(q) \in Nat /\ DOMAIN q = 1..Len(q)
    BY <1>1, LenProperties
  <2>1. \A i \in DOMAIN q : q[i] \in Stored /\ q[i] # m /\ Wanted(s, q[i])
    BY <1>1 DEF OrderInv, Pushed, FedWanted
  <2>2. CASE ~(registered[s] /\ Wanted(s, m))
    <3>1. fed'[s] = q
      BY <1>1, <2>2
    <3>2. FedWanted(s)'
      BY <1>1, <1>4, <2>1, <3>1 DEF FedWanted, Wanted
    <3>3. FedAll(s)'
      BY <1>1, <1>4, <2>2, <3>1 DEF OrderInv, Pushed, FedAll, Wanted
    <3>4. FedInOrder(s)'
      BY <1>6, <1>7, <2>1, <3>1 DEF OrderInv, Pushed, FedInOrder
    <3>5. FedOnce(s)'
      BY <1>1, <3>1 DEF OrderInv, Pushed, FedOnce
    <3> QED
      BY <3>2, <3>3, <3>4, <3>5 DEF Pushed
  <2>3. CASE registered[s] /\ Wanted(s, m)
    <3>1. fed'[s] = Append(q, m)
      BY <1>1, <2>3
    <3>2. /\ DOMAIN fed'[s] = 1..(Len(q) + 1)
          /\ \A i \in 1..Len(q) : fed'[s][i] = q[i]
          /\ fed'[s][Len(q) + 1] = m
      <4> HIDE DEF q
      <4> QED
        BY <2>0, <3>1, AppendProperties
    <3>3. FedWanted(s)'
      BY <1>1, <1>4, <2>0, <2>1, <2>3, <3>2 DEF FedWanted, Wanted
    <3>4. FedAll(s)'
      <4> SUFFICES ASSUME NEW x \in Stored', Wanted(s, x)'
                   PROVE  \E i \in DOMAIN fed'[s] : fed'[s][i] = x
        BY DEF FedAll
      <4>1. CASE x = m
        BY <2>0, <3>2, <4>1
      <4>2. CASE x # m
        <5>1. PICK i \in DOMAIN q : q[i] = x
          BY <1>1, <1>4, <2>3, <4>2 DEF OrderInv, Pushed, FedAll, Wanted
        <5> QED
          BY <2>0, <3>2, <5>1
      <4> QED
        BY <4>1, <4>2
    <3>5. FedInOrder(s)'
      <4> SUFFICES ASSUME NEW j \in DOMAIN fed'[s], NEW x \in Stored',
                          ArrivedBefore(x, fed[s][j])', LevelOf[x] = LevelOf[fed'[s][j]]
                   PROVE  \E i \in 1..(j - 1) : fed'[s][i] = x
        BY DEF FedInOrder
      <4>1. x \in Stored
        BY <1>7 DEF ArrivedBefore
      <4>2. CASE j \in 1..Len(q)
        <5>1. ArrivedBefore(x, q[j]) /\ LevelOf[x] = LevelOf[q[j]]
          <6>1. q[j] # m /\ fed'[s][j] = q[j]
            BY <2>0, <2>1, <3>2, <4>2
          <6>2. \E a, b \in DOMAIN mailbox' : a < b /\ mailbox'[a] = x /\ mailbox'[b] = q[j]
            BY <6>1 DEF ArrivedBefore
          <6> QED
            BY <1>6, <6>1, <6>2 DEF ArrivedBefore
        <5>2. PICK i \in 1..(j - 1) : q[i] = x
          BY <2>0, <4>1, <4>2, <5>1 DEF OrderInv, Pushed, FedInOrder
        <5> QED
          BY <2>0, <3>2, <4>2, <5>2
      <4>3. CASE j = Len(q) + 1
        <5>1. Wanted(s, x)
          BY <2>3, <3>2, <4>3 DEF Wanted
        <5>2. PICK i \in DOMAIN q : q[i] = x
          BY <2>3, <4>1, <5>1 DEF OrderInv, Pushed, FedAll
        <5> QED
          BY <2>0, <3>2, <4>3, <5>2
      <4> QED
        BY <2>0, <3>2, <4>2, <4>3
    <3>6. FedOnce(s)'
      <4> SUFFICES ASSUME NEW x \in Msgs
                   PROVE  Cardinality(Positions(fed'[s], x)) <= 1 + reconnects[s]
        BY <1>1 DEF FedOnce
      <4>1. CASE x = m
        <5>1. Positions(fed'[s], x) = {Len(q) + 1}
          BY <2>0, <2>1, <3>2, <4>1 DEF Positions
        <5>2. Cardinality({Len(q) + 1}) = 1
          BY FS_Singleton
        <5> QED
          BY <1>1, <5>1, <5>2
      <4>2. CASE x # m
        <5>1. Positions(fed'[s], x) = Positions(q, x)
          BY <2>0, <3>2, <4>2 DEF Positions
        <5> QED
          BY <5>1 DEF OrderInv, Pushed, FedOnce
      <4> QED
        BY <4>1, <4>2
    <3> QED
      BY <3>3, <3>4, <3>5, <3>6 DEF Pushed
  <2> QED
    BY <2>2, <2>3
<1> QED
  BY <1>5, <1>8 DEF OrderInv

LEMMA ReregisterKeepsOrder ==
  ASSUME IInv, OrderInv, NEW x \in Subs, Reregister(x)
  PROVE  OrderInv'
<1>1. PICK r \in Replays(want[x]) : fed' = [fed EXCEPT ![x] = fed[x] \o r]
  BY DEF Reregister
<1>2. /\ registered[x] /\ UNCHANGED <<mailbox, want, registered>>
      /\ reconnects'[x] = reconnects[x] + 1
      /\ \A s \in Subs : s # x => fed'[s] = fed[s] /\ reconnects'[s] = reconnects[s]
  BY <1>1 DEF Reregister, IInv, TypeOK
<1>3. ASSUME NEW s \in Subs, s # x PROVE Pushed(s)'
  BY <1>2, <1>3, UnpushedKeeps DEF OrderInv
<1>4. Pushed(x)'
  <2> DEFINE q == fed[x]
  <2>1. q \in Seq(Msgs) /\ fed'[x] = q \o r /\ reconnects[x] \in Nat
    BY <1>1, SubscriptionAssumption DEF IInv, TypeOK
  <2>2. /\ r \in Seq(Msgs)
        /\ \A i \in DOMAIN r : r[i] \in Stored /\ Wanted(x, r[i])
        /\ \A i, j \in DOMAIN r : r[i] = r[j] => i = j
    BY ReplayFacts DEF IInv, OrderInv, Wanted
  <2>3. \A i \in DOMAIN q : q[i] \in Stored /\ Wanted(x, q[i])
    BY DEF OrderInv, Pushed, FedWanted
  <2>4. \A y \in Stored : Wanted(x, y) => \E i \in DOMAIN q : q[i] = y
    BY <1>2 DEF OrderInv, Pushed, FedAll
  <2>5. \A j \in DOMAIN q, y \in Stored :
          ArrivedBefore(y, q[j]) /\ LevelOf[y] = LevelOf[q[j]] => \E i \in 1..(j - 1) : q[i] = y
    BY DEF OrderInv, Pushed, FedInOrder
  <2>6. \A y \in Msgs : Cardinality(Positions(q, y)) <= 1 + reconnects[x]
    BY DEF OrderInv, Pushed, FedOnce
  <2> HIDE DEF q
  <2>7. /\ Len(q) \in Nat /\ DOMAIN q = 1..Len(q) /\ Len(r) \in Nat /\ DOMAIN r = 1..Len(r)
        /\ DOMAIN fed'[x] = 1..(Len(q) + Len(r))
        /\ \A i \in 1..Len(q) : i \in DOMAIN fed'[x] /\ fed'[x][i] = q[i]
        /\ \A i \in DOMAIN fed'[x] :
             i \notin 1..Len(q) => i - Len(q) \in 1..Len(r) /\ fed'[x][i] = r[i - Len(q)]
    <3>1. /\ q \o r \in Seq(Msgs) /\ Len(q \o r) = Len(q) + Len(r)
          /\ \A i \in 1..(Len(q) + Len(r)) :
               (q \o r)[i] = IF i <= Len(q) THEN q[i] ELSE r[i - Len(q)]
      BY <2>1, <2>2, ConcatProperties
    <3>2. DOMAIN (q \o r) = 1..(Len(q) + Len(r)) /\ Len(q) \in Nat /\ Len(r) \in Nat
          /\ DOMAIN q = 1..Len(q) /\ DOMAIN r = 1..Len(r)
      BY <2>1, <2>2, <3>1, LenProperties
    <3> QED
      BY <2>1, <3>1, <3>2
  <2>8. /\ Stored' = Stored
        /\ \A y : (Wanted(x, y)' <=> Wanted(x, y))
        /\ \A y, z : (ArrivedBefore(y, z)' <=> ArrivedBefore(y, z))
    BY <1>2 DEF Stored, Wanted, ArrivedBefore
  <2>9. FedWanted(x)'
    <3> SUFFICES ASSUME NEW i \in DOMAIN fed'[x]
                 PROVE  fed'[x][i] \in Stored /\ Wanted(x, fed'[x][i])
      BY <2>8 DEF FedWanted
    <3> QED
      BY <2>2, <2>3, <2>7
  <2>10. FedAll(x)'
    BY <2>4, <2>7, <2>8 DEF FedAll
  <2>11. FedInOrder(x)'
    <3> SUFFICES ASSUME NEW j \in DOMAIN fed'[x], NEW y \in Stored,
                        ArrivedBefore(y, fed'[x][j]), LevelOf[y] = LevelOf[fed'[x][j]]
                 PROVE  \E i \in 1..(j - 1) : fed'[x][i] = y
      BY <2>8 DEF FedInOrder
    <3>1. CASE j \in 1..Len(q)
      <4>1. PICK i \in 1..(j - 1) : q[i] = y
        BY <2>5, <2>7, <3>1
      <4> QED
        BY <2>7, <3>1, <4>1
    <3>2. CASE j \notin 1..Len(q)
      <4>1. Wanted(x, fed'[x][j])
        BY <2>2, <2>7, <3>2
      <4>2. Wanted(x, y)
        BY <4>1 DEF Wanted
      <4>3. PICK i \in DOMAIN q : q[i] = y
        BY <2>4, <4>2
      <4> QED
        BY <2>7, <3>2, <4>3
    <3> QED
      BY <3>1, <3>2
  <2>12. FedOnce(x)'
    <3> SUFFICES ASSUME NEW y \in Msgs
                 PROVE  Cardinality(Positions(q \o r, y)) <= 1 + (reconnects[x] + 1)
      BY <1>2, <2>1 DEF FedOnce
    <3>1. Cardinality(Positions(q \o r, y)) <= Cardinality(Positions(q, y)) + 1
      BY <2>1, <2>2, PositionsOfConcat
    <3>2. Cardinality(Positions(q, y)) \in Nat /\ Cardinality(Positions(q \o r, y)) \in Nat
      <4>1. q \o r \in Seq(Msgs)
        BY <2>1, <2>2, ConcatProperties
      <4> QED
        BY <2>1, <4>1, PositionsFinite
    <3> QED
      BY <2>1, <2>6, <3>1, <3>2
  <2> QED
    BY <2>9, <2>10, <2>11, <2>12 DEF Pushed
<1>5. MailboxDistinct'
  BY <1>2 DEF OrderInv, MailboxDistinct
<1> QED
  BY <1>3, <1>4, <1>5 DEF OrderInv

LEMMA SubscribeKeepsOrder ==
  ASSUME IInv, OrderInv, NEW x \in Subs, NEW filter \in Filters, Subscribe(x, filter)
  PROVE  OrderInv'
<1>1. PICK r \in Replays(filter) : fed' = [fed EXCEPT ![x] = r]
  BY DEF Subscribe
<1>2. /\ UNCHANGED <<mailbox, reconnects>> /\ want'[x] = filter /\ fed'[x] = r
      /\ \A s \in Subs : s # x => UNCHANGED <<fed[s], want[s], registered[s]>>
  BY <1>1 DEF Subscribe, IInv, TypeOK
<1>3. ASSUME NEW s \in Subs, s # x PROVE Pushed(s)'
  BY <1>2, <1>3, UnpushedKeeps DEF OrderInv
<1>4. Pushed(x)'
  <2>1. /\ r \in Seq(Msgs)
        /\ \A i \in DOMAIN r : r[i] \in Stored /\ filter \in {"*", LevelOf[r[i]]}
        /\ \A m \in Stored : filter \in {"*", LevelOf[m]} => \E i \in DOMAIN r : r[i] = m
        /\ \A i, j \in DOMAIN r : r[i] = r[j] => i = j
        /\ \A i, j \in DOMAIN r :
             ArrivedBefore(r[i], r[j]) /\ LevelOf[r[i]] = LevelOf[r[j]] => i < j
    BY ReplayFacts DEF IInv, OrderInv
  <2>2. Stored' = Stored /\ (\A y : Wanted(x, y)' <=> filter \in {"*", LevelOf[y]})
        /\ \A y, z : ArrivedBefore(y, z)' <=> ArrivedBefore(y, z)
    BY <1>2 DEF Stored, Wanted, ArrivedBefore
  <2>3. FedWanted(x)' /\ FedAll(x)'
    BY <1>2, <2>1, <2>2 DEF FedWanted, FedAll
  <2>4. FedInOrder(x)'
    <3> SUFFICES ASSUME NEW j \in DOMAIN r, NEW y \in Stored,
                        ArrivedBefore(y, r[j]), LevelOf[y] = LevelOf[r[j]]
                 PROVE  \E i \in 1..(j - 1) : r[i] = y
      BY <1>2, <2>2 DEF FedInOrder
    <3>1. PICK i \in DOMAIN r : r[i] = y
      BY <2>1
    <3>2. i < j
      BY <2>1, <3>1
    <3>3. DOMAIN r = 1..Len(r) /\ Len(r) \in Nat
      BY <2>1, LenProperties
    <3> QED
      BY <3>1, <3>2, <3>3
  <2>5. FedOnce(x)'
    <3> SUFFICES ASSUME NEW y \in Msgs
                 PROVE  Cardinality(Positions(r, y)) <= 1 + reconnects[x]
      BY <1>2 DEF FedOnce
    <3>1. Cardinality(Positions(r, y)) <= 1 /\ Cardinality(Positions(r, y)) \in Nat
      BY <2>1, PositionsOfDistinct, PositionsFinite
    <3>2. reconnects[x] \in Nat
      BY SubscriptionAssumption DEF IInv, TypeOK
    <3> QED
      BY <3>1, <3>2
  <2> QED
    BY <2>3, <2>4, <2>5 DEF Pushed
<1>5. MailboxDistinct'
  BY <1>2 DEF OrderInv, MailboxDistinct
<1> QED
  BY <1>3, <1>4, <1>5 DEF OrderInv

\* Nothing else pushes or registers anything.
PushesNothing ==
  /\ UNCHANGED <<mailbox, want, fed, reconnects>>
  /\ \A s \in Subs : registered'[s] => registered[s]

LEMMA OtherStepsPushNothing ==
  ASSUME TypeOK
  PROVE  /\ \A s \in Subs :
              Take(s) \/ Leave(s) \/ RustPanic(s) \/ GoPanic(s) \/ PythonCallbackCancelled(s)
                => PushesNothing
         /\ \A s \in Subs : Unsubscribe(s) \/ LoopStops(s) => PushesNothing
         /\ RustClose \/ CsClose \/ GoClose \/ CloseProceeds \/ JavaInterrupted => PushesNothing
         /\ \A c \in Subs \cup {Main} : CloseStarts(c) => PushesNothing
         /\ UNCHANGED vars => PushesNothing
<1> USE DEF PushesNothing
<1>1. ASSUME NEW s \in Subs,
             Take(s) \/ Leave(s) \/ RustPanic(s) \/ GoPanic(s) \/ PythonCallbackCancelled(s)
      PROVE  PushesNothing
  BY <1>1 DEF TypeOK, Take, Leave, RustPanic, GoPanic, PythonCallbackCancelled, Set
<1>2. ASSUME NEW s \in Subs, Unsubscribe(s) PROVE PushesNothing
  <2>1. CASE RustUnsubscribe(s)
    BY <2>1 DEF TypeOK, RustUnsubscribe
  <2>2. CASE ~RustUnsubscribe(s)
    BY <1>2, <2>2
       DEF TypeOK, Unsubscribe, PythonUnsubscribe, GoUnsubscribe, JsUnsubscribe, CsUnsubscribe
  <2> QED
    BY <2>1, <2>2
<1>3. ASSUME NEW s \in Subs, LoopStops(s) PROVE PushesNothing
  BY <1>3 DEF TypeOK, LoopStops, RustAborted, JsIteratorEnds, CsLoopCancelled, FlushedLoopEnds
<1>4. ASSUME RustClose \/ CsClose \/ GoClose PROVE PushesNothing
  BY <1>4 DEF TypeOK, RustClose, CsClose, GoClose, subVars, Set
<1>5. ASSUME CloseProceeds \/ JavaInterrupted PROVE PushesNothing
  BY <1>5 DEF TypeOK, CloseProceeds, DrainReachesServer, CloseDrained, DrainTimesOut, JsCloseEnds,
              JavaInterrupted, subVars, Set
<1>6. ASSUME NEW c \in Subs \cup {Main}, CloseStarts(c) PROVE PushesNothing
  BY <1>6 DEF CloseStarts, subVars
<1>7. ASSUME UNCHANGED vars PROVE PushesNothing
  BY <1>7 DEF vars, subVars
<1> QED
  BY <1>1, <1>2, <1>3, <1>4, <1>5, <1>6, <1>7

LEMMA PushingNothingKeepsOrder ==
  ASSUME OrderInv, PushesNothing
  PROVE  OrderInv'
<1>1. ASSUME NEW s \in Subs PROVE Pushed(s)'
  BY UnpushedKeeps DEF OrderInv, PushesNothing
<1> QED
  BY <1>1 DEF OrderInv, MailboxDistinct, PushesNothing

LEMMA InitOrderInv == Init => OrderInv
<1> SUFFICES ASSUME Init PROVE OrderInv
  OBVIOUS
<1>1. mailbox = <<>> /\ \A s \in Subs : fed[s] = <<>> /\ reconnects[s] = 0 /\ ~registered[s]
  BY DEF Init
<1>2. DOMAIN mailbox = {} /\ \A s \in Subs : DOMAIN fed[s] = {}
  BY <1>1
<1>3. ASSUME NEW s \in Subs PROVE Pushed(s)
  <2>1. ASSUME NEW m \in Msgs PROVE Cardinality(Positions(fed[s], m)) <= 1 + reconnects[s]
    <3>1. Positions(fed[s], m) = {}
      BY <1>2 DEF Positions
    <3> QED
      BY <1>1, <3>1, FS_EmptySet
  <2> QED
    BY <1>1, <1>2, <2>1 DEF Pushed, FedWanted, FedAll, FedInOrder, FedOnce
<1> QED
  BY <1>2, <1>3 DEF OrderInv, MailboxDistinct

LEMMA StepOrderInv == IInv /\ IInv' /\ OrderInv /\ [Next]_vars => OrderInv'
<1> SUFFICES ASSUME IInv, IInv', OrderInv, [Next]_vars PROVE OrderInv'
  OBVIOUS
<1>1. TypeOK
  BY DEF IInv
<1>2. CASE \E m \in Msgs : Arrive(m)
  BY <1>2, ArriveKeepsOrder
<1>3. CASE \E s \in Subs, filter \in Filters : Subscribe(s, filter)
  BY <1>3, SubscribeKeepsOrder
<1>4. CASE \E s \in Subs : Reregister(s)
  BY <1>4, ReregisterKeepsOrder
<1>5. ASSUME NEW s \in Subs,
             \/ Take(s) \/ Leave(s) \/ RustPanic(s) \/ GoPanic(s)
             \/ PythonCallbackCancelled(s) \/ Unsubscribe(s) \/ LoopStops(s)
      PROVE  OrderInv'
  BY <1>1, <1>5, OtherStepsPushNothing, PushingNothingKeepsOrder
<1>6. CASE RustClose \/ CsClose \/ GoClose \/ CloseProceeds \/ JavaInterrupted
           \/ \E c \in Subs \cup {Main} : CloseStarts(c)
  BY <1>1, <1>6, OtherStepsPushNothing, PushingNothingKeepsOrder
<1>7. CASE Terminated \/ UNCHANGED vars
  BY <1>1, <1>7, OtherStepsPushNothing, PushingNothingKeepsOrder DEF Terminated
<1> QED
  BY <1>2, <1>3, <1>4, <1>5, <1>6, <1>7 DEF Next

LEMMA OrderInvariance == Spec => []OrderInv
<1>1. Init /\ [][Next]_vars => []OrderInv
  <2>1. Init => IInv /\ OrderInv
    BY InitIInv, InitOrderInv
  <2>2. (IInv /\ OrderInv) /\ [Next]_vars => (IInv /\ OrderInv)'
    BY StepIInv, StepOrderInv
  <2> QED
    BY <2>1, <2>2, PTL
<1> QED
  BY <1>1 DEF Spec

\* What a loop has taken is where the server pushed it.
LEMMA TakenWherePushed ==
  ASSUME IInv, NEW s \in Subs
  PROVE  /\ taken[s] \in Seq(Msgs) /\ fed[s] \in Seq(Msgs)
         /\ DOMAIN taken[s] = 1..Len(taken[s]) /\ Len(taken[s]) \in Nat
         /\ \A i \in DOMAIN taken[s] : i \in DOMAIN fed[s] /\ taken[s][i] = fed[s][i]
<1> DEFINE t == taken[s]
           b == buffer[s]
           q == fed[s]
<1>1. t \in Seq(Msgs) /\ b \in Seq(Msgs) /\ q \in Seq(Msgs) /\ IsPrefixOf(t \o b, q)
  BY DEF IInv, TypeOK, Kept, TakenFirst
<1> HIDE DEF t, b, q
<1>2. IsPrefixOf(t, q)
  BY <1>1, PrefixShorter
<1>3. PICK r \in Seq(Msgs) : q = t \o r
  BY <1>1, <1>2, PrefixHasRest
<1>4. /\ Len(t) \in Nat /\ Len(r) \in Nat /\ DOMAIN t = 1..Len(t) /\ DOMAIN q = 1..Len(q)
      /\ Len(q) = Len(t) + Len(r)
      /\ \A i \in 1..(Len(t) + Len(r)) : q[i] = IF i <= Len(t) THEN t[i] ELSE r[i - Len(t)]
  BY <1>1, <1>3, LenProperties, ConcatProperties
<1>5. \A i \in DOMAIN t : i \in DOMAIN q /\ t[i] = q[i]
  BY <1>4
<1> QED
  BY <1>1, <1>4, <1>5 DEF t, b, q

\* Messages of one level reach a callback for the first time in the order in
\* which they arrived, whichever way each came: what precedes a message in what
\* was pushed has been taken before it.
THEOREM LevelsKeepTheirOrder == Spec => []FirstInOrder
<1>1. IInv /\ OrderInv => FirstInOrder
  <2> SUFFICES ASSUME IInv, OrderInv, NEW s \in Subs, NEW j \in DOMAIN taken[s], NEW m \in Stored,
                      ArrivedBefore(m, taken[s][j]), LevelOf[m] = LevelOf[taken[s][j]]
               PROVE  \E i \in 1..(j - 1) : taken[s][i] = m
    BY DEF FirstInOrder
  <2>1. /\ DOMAIN taken[s] = 1..Len(taken[s]) /\ Len(taken[s]) \in Nat
        /\ \A i \in DOMAIN taken[s] : i \in DOMAIN fed[s] /\ taken[s][i] = fed[s][i]
    BY TakenWherePushed
  <2>2. PICK i \in 1..(j - 1) : fed[s][i] = m
    BY <2>1 DEF OrderInv, Pushed, FedInOrder
  <2>3. i \in DOMAIN taken[s]
    BY <2>1, <2>2
  <2> QED
    BY <2>1, <2>2, <2>3
<1> QED
  BY <1>1, Invariance, OrderInvariance, PTL

\* A message is taken once per registration at most: only a reconnection makes
\* the library register again, and a replay has a message once.
THEOREM NoDuplicates == Spec => []OncePerRegistration
<1>1. IInv /\ OrderInv => OncePerRegistration
  <2> SUFFICES ASSUME IInv, OrderInv, NEW s \in Subs, NEW m \in Msgs
               PROVE  Cardinality({i \in DOMAIN taken[s] : taken[s][i] = m}) <= 1 + reconnects[s]
    BY DEF OncePerRegistration
  <2> DEFINE T == {i \in DOMAIN taken[s] : taken[s][i] = m}
             P == Positions(fed[s], m)
  <2>1. T \in SUBSET P /\ fed[s] \in Seq(Msgs)
    BY TakenWherePushed DEF Positions
  <2>2. IsFiniteSet(P) /\ Cardinality(P) \in Nat
    BY <2>1, PositionsFinite
  <2>3. Cardinality(P) <= 1 + reconnects[s] /\ reconnects[s] \in Nat
    BY SubscriptionAssumption DEF OrderInv, Pushed, FedOnce, IInv, TypeOK
  <2> HIDE DEF T, P
  <2>4. IsFiniteSet(T) /\ Cardinality(T) <= Cardinality(P)
    BY <2>1, <2>2, FS_Subset
  <2>5. Cardinality(T) \in Nat
    BY <2>4, FS_CardinalityType
  <2>6. Cardinality(T) <= 1 + reconnects[s]
    BY <2>2, <2>3, <2>4, <2>5
  <2> QED
    BY <2>6 DEF T
<1> QED
  BY <1>1, Invariance, OrderInvariance, PTL

(***************************************************************************)
(* close(): the loops survive until it returns and are quiet after it.     *)
(***************************************************************************)

\* Until close() returns, nothing but a Rust panic ends the loop of a
\* subscription that is in use, and nothing but a cancellation breaks Python's.
LoopLives(s) ==
  Listening(s) /\ client \in {"open", "closing"} =>
    \/ loop[s] \in {"idle", "running"}
    \/ sdk = "rust" /\ loop[s] = "ended"
    \/ sdk = "python" /\ loop[s] = "broken"

\* Once the drain is over no subscription is live, and those it worked off have
\* handled everything.
WorkedOff(s) ==
  drained =>
    /\ client = "closed" /\ sdk \in {"python", "java"}
    /\ sub[s] # "live"
    /\ sub[s] = "flushing" => loop[s] = "ended" /\ taken[s] = fed[s]

\* The loops of Python and Java look for a stop before they look for the next
\* message, and close() ends them.
StopsAtOnce(s) ==
  /\ sdk \in {"python", "java"} =>
       /\ loop[s] # "hot"
       /\ client = "closed" /\ Listening(s) => sub[s] = "flushing" /\ loop[s] = "ended"
  /\ sdk = "python" /\ sub[s] = "stopped" => loop[s] = "ended"

\* A drain takes all subscriptions at once, and none is made after it.
DrainsTogether ==
  Flushing # {} => client # "open" /\ \A s \in Subs : sub[s] # "live"

CloseInv ==
  DrainsTogether /\ \A s \in Subs : LoopLives(s) /\ WorkedOff(s) /\ StopsAtOnce(s)

\* Steps that leave the subscriptions and the client as they are, and the loops
\* where they listen.
LEMMA SteadyKeepsClose ==
  ASSUME CloseInv, UNCHANGED <<sdk, sub, client, drained>>,
         \A s \in Subs : /\ sub[s] # "stopped" /\ loop[s] \in {"idle", "running"} =>
                              loop'[s] \in {"idle", "running"}
                         /\ loop'[s] = loop[s] \/ loop[s] \notin {"broken", "ended"}
                         /\ loop'[s] # "hot" \/ sdk \notin {"python", "java"}
                         /\ drained /\ sub[s] = "flushing" => taken'[s] = taken[s] /\ fed'[s] = fed[s]
  PROVE  CloseInv'
<1>1. DrainsTogether'
  BY DEF CloseInv, DrainsTogether, Flushing
<1>2. ASSUME NEW s \in Subs PROVE (LoopLives(s) /\ WorkedOff(s) /\ StopsAtOnce(s))'
  BY DEF CloseInv, LoopLives, WorkedOff, StopsAtOnce, Listening
<1> QED
  BY <1>1, <1>2 DEF CloseInv

LEMMA ServerKeepsClose ==
  ASSUME IInv, CloseInv
  PROVE  /\ \A m \in Msgs : Arrive(m) => CloseInv'
         /\ \A s \in Subs : Reregister(s) => CloseInv'
<1>1. \A s \in Subs : drained /\ sub[s] = "flushing" => ~registered[s]
  BY DEF IInv, Kept, PushedToWhile
<1>2. \A s \in Subs : loop[s] # "hot" \/ sdk \notin {"python", "java"}
  BY DEF CloseInv, StopsAtOnce
<1>3. ASSUME NEW m \in Msgs, Arrive(m) PROVE CloseInv'
  <2>1. /\ UNCHANGED <<sdk, sub, client, drained, loop, taken>>
        /\ \A s \in Subs : ~registered[s] => fed'[s] = fed[s]
    BY <1>3 DEF Arrive, closeVars
  <2> QED
    BY <1>1, <1>2, <2>1, SteadyKeepsClose
<1>4. ASSUME NEW s \in Subs, Reregister(s) PROVE CloseInv'
  <2>1. /\ UNCHANGED <<sdk, sub, client, drained, loop, taken>>
        /\ \A x \in Subs : ~registered[x] => fed'[x] = fed[x]
    BY <1>4 DEF Reregister, closeVars, IInv, TypeOK
  <2> QED
    BY <1>1, <1>2, <2>1, SteadyKeepsClose
<1> QED
  BY <1>3, <1>4

LEMMA SubscribeKeepsClose ==
  ASSUME IInv, CloseInv, NEW s \in Subs, NEW filter \in Filters, Subscribe(s, filter)
  PROVE  CloseInv'
<1>1. /\ UNCHANGED <<sdk, client, drained, taken>> /\ client = "open"
      /\ sub'[s] = "live" /\ loop'[s] = "idle"
      /\ \A x \in Subs : x # s => sub'[x] = sub[x] /\ loop'[x] = loop[x] /\ fed'[x] = fed[x]
  BY DEF Subscribe, closeVars, IInv, TypeOK
<1>2. DrainsTogether'
  BY <1>1 DEF CloseInv, DrainsTogether, Flushing
<1>3. ASSUME NEW x \in Subs PROVE (LoopLives(x) /\ WorkedOff(x) /\ StopsAtOnce(x))'
  BY <1>1 DEF CloseInv, LoopLives, WorkedOff, StopsAtOnce, Listening
<1> QED
  BY <1>2, <1>3 DEF CloseInv

LEMMA LoopKeepsClose ==
  ASSUME IInv, CloseInv, NEW s \in Subs
  PROVE  /\ Take(s) => CloseInv'
         /\ Leave(s) => CloseInv'
         /\ RustPanic(s) => CloseInv'
         /\ GoPanic(s) => CloseInv'
         /\ PythonCallbackCancelled(s) => CloseInv'
         /\ LoopStops(s) => CloseInv'
<1>1. ASSUME Take(s) PROVE CloseInv'
  <2>1. loop[s] # "ended" /\ loop[s] \in {"idle", "hot"}
    BY <1>1 DEF Take, MayTake
  <2>2. /\ UNCHANGED <<sdk, sub, client, drained, fed>>
        /\ \A x \in Subs : x # s => loop'[x] = loop[x] /\ taken'[x] = taken[x]
        /\ loop'[s] \in {loop[s], "running"}
    BY <1>1 DEF Take, closeVars, IInv, TypeOK
  <2>3. drained => sub[s] # "flushing"
    BY <1>1, <2>1 DEF CloseInv, WorkedOff
  <2>4. \A x \in Subs : loop[x] # "hot" \/ sdk \notin {"python", "java"}
    BY DEF CloseInv, StopsAtOnce
  <2> QED
    BY <2>1, <2>2, <2>3, <2>4, SteadyKeepsClose
<1>2. ASSUME Leave(s) PROVE CloseInv'
  <2>1. /\ UNCHANGED <<sdk, sub, client, drained, fed, taken>> /\ loop[s] = "running"
        /\ \A x \in Subs : x # s => loop'[x] = loop[x]
        /\ loop'[s] = AfterCallback(s)
    BY <1>2 DEF Leave, closeVars, IInv, TypeOK
  <2>2. sub[s] # "stopped" => loop'[s] = "idle"
    BY <2>1 DEF AfterCallback
  <2>3. sdk = "python" => sub[s] # "stopped"
    BY <2>1 DEF CloseInv, StopsAtOnce
  <2>4. sdk \in {"python", "java"} => loop'[s] # "hot"
    BY <2>1, <2>2, <2>3 DEF AfterCallback
  <2>5. \A x \in Subs : loop[x] # "hot" \/ sdk \notin {"python", "java"}
    BY DEF CloseInv, StopsAtOnce
  <2> QED
    BY <2>1, <2>2, <2>4, <2>5, SteadyKeepsClose
<1>3. ASSUME RustPanic(s) PROVE CloseInv'
  <2>1. /\ UNCHANGED <<sdk, sub, client, drained, fed, taken>> /\ sdk = "rust"
        /\ \A x \in Subs : loop'[x] \in {loop[x], "ended"}
    BY <1>3 DEF RustPanic, EndLoops, Set, closeVars, IInv, TypeOK
  <2> QED
    BY <2>1 DEF CloseInv, DrainsTogether, Flushing, LoopLives, WorkedOff, StopsAtOnce, Listening
<1>4. ASSUME GoPanic(s) PROVE CloseInv'
  <2>1. UNCHANGED <<sdk, sub, drained, fed, taken>> /\ sdk = "go" /\ client' = "crashed"
    BY <1>4 DEF GoPanic
  <2> QED
    BY <2>1 DEF CloseInv, DrainsTogether, Flushing, LoopLives, WorkedOff, StopsAtOnce, Listening
<1>5. ASSUME LoopStops(s) PROVE CloseInv'
  <2>1. /\ UNCHANGED <<sdk, sub, client, drained, fed, taken>>
        /\ sdk \notin {"python", "java"}
        /\ sub[s] = "stopped" \/ client = "closed"
        /\ \A x \in Subs : x # s => loop'[x] = loop[x]
    BY <1>5 DEF LoopStops, RustAborted, JsIteratorEnds, CsLoopCancelled, FlushedLoopEnds, EndLoops,
                Set, closeVars, IInv, TypeOK
  <2> QED
    BY <2>1 DEF CloseInv, DrainsTogether, Flushing, LoopLives, WorkedOff, StopsAtOnce, Listening
<1>6. ASSUME PythonCallbackCancelled(s) PROVE CloseInv'
  <2>1. /\ UNCHANGED <<sdk, sub, client, drained, fed, taken>> /\ sdk = "python"
        /\ loop[s] = "running" /\ loop'[s] = "broken"
        /\ \A x \in Subs : x # s => loop'[x] = loop[x]
    BY <1>6 DEF PythonCallbackCancelled, closeVars, IInv, TypeOK
  <2>2. DrainsTogether'
    BY <2>1 DEF CloseInv, DrainsTogether, Flushing
  <2>3. ASSUME NEW x \in Subs PROVE (LoopLives(x) /\ WorkedOff(x) /\ StopsAtOnce(x))'
    BY <2>1 DEF CloseInv, LoopLives, WorkedOff, StopsAtOnce, Listening
  <2> QED
    BY <2>2, <2>3 DEF CloseInv
<1> QED
  BY <1>1, <1>2, <1>3, <1>4, <1>5, <1>6

LEMMA UnsubscribeKeepsClose ==
  ASSUME IInv, CloseInv, NEW s \in Subs, Unsubscribe(s)
  PROVE  CloseInv'
<1>1. /\ UNCHANGED <<sdk, client, drained, fed>> /\ sub[s] = "live"
      /\ sub' = [sub EXCEPT ![s] = "stopped"]
  BY DEF Unsubscribe, RustUnsubscribe, PythonUnsubscribe, GoUnsubscribe, JsUnsubscribe,
         CsUnsubscribe, closeVars
<1>2. sub'[s] = "stopped" /\ \A x \in Subs : x # s => sub'[x] = sub[x]
  BY <1>1 DEF IInv, TypeOK
<1>3. \A x \in Subs : x # s => loop'[x] = loop[x] /\ taken'[x] = taken[x]
  <2>1. CASE RustUnsubscribe(s)
    BY <2>1 DEF RustUnsubscribe, EndLoops, Set, IInv, TypeOK
  <2>2. CASE PythonUnsubscribe(s)
    BY <2>2 DEF PythonUnsubscribe, EndLoops, Set, IInv, TypeOK
  <2>3. CASE GoUnsubscribe(s)
    BY <2>3 DEF GoUnsubscribe, IInv, TypeOK
  <2>4. CASE JsUnsubscribe(s) \/ CsUnsubscribe(s)
    BY <2>4 DEF JsUnsubscribe, CsUnsubscribe, EndLoops, Set, IInv, TypeOK
  <2> QED
    BY <2>1, <2>2, <2>3, <2>4 DEF Unsubscribe
<1>4. /\ sdk = "python" => loop'[s] = "ended"
      /\ sdk = "java" => loop'[s] \in {loop[s], "ended"}
  <2>1. CASE PythonUnsubscribe(s)
    BY <2>1 DEF PythonUnsubscribe, EndLoops, Set, IInv, TypeOK
  <2>2. CASE GoUnsubscribe(s)
    BY <2>2 DEF GoUnsubscribe, IInv, TypeOK
  <2>3. CASE RustUnsubscribe(s) \/ JsUnsubscribe(s) \/ CsUnsubscribe(s)
    BY <2>3 DEF RustUnsubscribe, JsUnsubscribe, CsUnsubscribe
  <2> QED
    BY <2>1, <2>2, <2>3 DEF Unsubscribe
<1>5. DrainsTogether'
  BY <1>1, <1>2 DEF CloseInv, DrainsTogether, Flushing
<1>6. ASSUME NEW x \in Subs PROVE (LoopLives(x) /\ WorkedOff(x) /\ StopsAtOnce(x))'
  BY <1>1, <1>2, <1>3, <1>4 DEF CloseInv, LoopLives, WorkedOff, StopsAtOnce, Listening
<1> QED
  BY <1>5, <1>6 DEF CloseInv

LEMMA CloseKeepsClose ==
  ASSUME IInv, CloseInv
  PROVE  /\ RustClose \/ CsClose \/ GoClose => CloseInv'
         /\ \A c \in Subs \cup {Main} : CloseStarts(c) => CloseInv'
         /\ CloseProceeds \/ JavaInterrupted => CloseInv'
<1> USE DEF LoopLives, WorkedOff, StopsAtOnce, Listening
<1>1. ASSUME RustClose \/ GoClose PROVE CloseInv'
  BY <1>1 DEF RustClose, GoClose, subVars, CloseInv, DrainsTogether, Flushing
<1>2. ASSUME CsClose PROVE CloseInv'
  BY <1>2 DEF CsClose, Set, CloseInv, DrainsTogether, Flushing, IInv, TypeOK
<1>3. ASSUME NEW c \in Subs \cup {Main}, CloseStarts(c) PROVE CloseInv'
  BY <1>3 DEF CloseStarts, subVars, CloseInv, DrainsTogether, Flushing
<1>4. ASSUME DrainReachesServer PROVE CloseInv'
  <2>1. /\ UNCHANGED <<sdk, fed, taken, loop, client, drained>> /\ client # "open"
        /\ client = "closed" => sdk = "go"
        /\ \A s \in Subs : sub'[s] = IF sub[s] = "live" THEN "flushing" ELSE sub[s]
    BY <1>4 DEF DrainReachesServer, Draining, Set, closeVars, IInv, TypeOK
  <2>2. DrainsTogether'
    BY <2>1 DEF DrainsTogether, Flushing
  <2>3. ASSUME NEW s \in Subs PROVE (LoopLives(s) /\ WorkedOff(s) /\ StopsAtOnce(s))'
    BY <2>1 DEF CloseInv
  <2> QED
    BY <2>2, <2>3 DEF CloseInv
<1>5. ASSUME CloseDrained PROVE CloseInv'
  <2>1. /\ UNCHANGED <<sdk, sub, fed, taken>> /\ client = "closing" /\ client' = "closed"
        /\ sdk \in {"python", "java"}
        /\ \A s \in Subs : sub[s] # "live"
        /\ \A s \in Flushing : loop[s] \in {"idle", "broken", "ended"} /\ buffer[s] = <<>>
        /\ \A s \in Subs :
             loop'[s] = IF s \in Flushing /\ loop[s] \in {"idle", "broken"} THEN "ended" ELSE loop[s]
    BY <1>5 DEF CloseDrained, AllFlushed, EndLoops, Set, IInv, TypeOK
  <2>2. DrainsTogether'
    BY <2>1 DEF DrainsTogether, Flushing
  <2>3. ASSUME NEW s \in Subs PROVE (LoopLives(s) /\ WorkedOff(s) /\ StopsAtOnce(s))'
    <3>1. CASE sub[s] = "flushing"
      <4>1. s \in Flushing /\ loop[s] \in {"idle", "broken"} /\ buffer[s] = <<>>
        BY <2>1, <3>1 DEF CloseInv, Flushing
      <4>2. taken[s] \o <<>> = fed[s]
        BY <4>1, <3>1 DEF IInv, Kept, Complete, InUse
      <4>3. taken[s] = fed[s]
        BY <4>2, ConcatEmptySeq DEF IInv, TypeOK
      <4> QED
        BY <2>1, <3>1, <4>1, <4>3
    <3>2. CASE sub[s] # "flushing"
      BY <2>1, <3>2 DEF CloseInv, Flushing
    <3> QED
      BY <3>1, <3>2
  <2> QED
    BY <2>2, <2>3 DEF CloseInv
<1>6. ASSUME DrainTimesOut PROVE CloseInv'
  <2>1. /\ UNCHANGED <<sdk, fed, taken, drained>> /\ client' = "closed"
        /\ sdk \in {"python", "java", "go"} /\ Draining /\ Flushing # {}
        /\ \A s \in Subs : sub'[s] = IF s \in Flushing THEN "stopped" ELSE sub[s]
    BY <1>6 DEF DrainTimesOut, Set, IInv, TypeOK
  <2>2. \A s \in Subs : /\ sdk = "python" /\ s \in Flushing => loop'[s] = "ended"
                        /\ loop'[s] \in {loop[s], "ended"}
    BY <1>6 DEF DrainTimesOut, Set, IInv, TypeOK
  <2>3. \A s \in Subs : sub[s] # "live"
    BY <2>1 DEF CloseInv, DrainsTogether
  <2>4. \A s \in Subs : sub'[s] \notin {"live", "flushing"}
    BY <2>1, <2>3 DEF Flushing
  <2>5. DrainsTogether'
    BY <2>4 DEF DrainsTogether, Flushing
  <2>6. ASSUME NEW s \in Subs PROVE (LoopLives(s) /\ WorkedOff(s) /\ StopsAtOnce(s))'
    BY <2>1, <2>2, <2>4 DEF CloseInv, Draining
  <2> QED
    BY <2>5, <2>6 DEF CloseInv
<1>7. ASSUME JsCloseEnds PROVE CloseInv'
  BY <1>7 DEF JsCloseEnds, Set, CloseInv, DrainsTogether, Flushing, IInv, TypeOK
<1>8. ASSUME JavaInterrupted PROVE CloseInv'
  BY <1>8 DEF JavaInterrupted, subVars, CloseInv, DrainsTogether, Flushing
<1> QED
  BY <1>1, <1>2, <1>3, <1>4, <1>5, <1>6, <1>7, <1>8 DEF CloseProceeds

LEMMA InitCloseInv == Init => CloseInv
  BY DEF Init, CloseInv, DrainsTogether, Flushing, LoopLives, WorkedOff, StopsAtOnce, Listening

LEMMA StepCloseInv == IInv /\ CloseInv /\ [Next]_vars => CloseInv'
<1> SUFFICES ASSUME IInv, CloseInv, [Next]_vars PROVE CloseInv'
  OBVIOUS
<1>1. CASE \E m \in Msgs : Arrive(m)
  BY <1>1, ServerKeepsClose
<1>2. CASE \E s \in Subs, filter \in Filters : Subscribe(s, filter)
  BY <1>2, SubscribeKeepsClose
<1>3. CASE \E s \in Subs : Reregister(s)
  BY <1>3, ServerKeepsClose
<1>4. ASSUME NEW s \in Subs,
             \/ Take(s) \/ Leave(s) \/ RustPanic(s) \/ GoPanic(s)
             \/ PythonCallbackCancelled(s) \/ LoopStops(s)
      PROVE  CloseInv'
  BY <1>4, LoopKeepsClose
<1>5. CASE \E s \in Subs : Unsubscribe(s)
  BY <1>5, UnsubscribeKeepsClose
<1>6. CASE RustClose \/ CsClose \/ GoClose \/ CloseProceeds \/ JavaInterrupted
           \/ \E c \in Subs \cup {Main} : CloseStarts(c)
  BY <1>6, CloseKeepsClose
<1>7. CASE Terminated \/ UNCHANGED vars
  <2>1. UNCHANGED vars
    BY <1>7 DEF Terminated
  <2> QED
    BY <2>1 DEF vars, subVars, closeVars, CloseInv, DrainsTogether, Flushing, LoopLives, WorkedOff,
                StopsAtOnce, Listening
<1> QED
  BY <1>1, <1>2, <1>3, <1>4, <1>5, <1>6, <1>7 DEF Next

LEMMA CloseInvariance == Spec => [](IInv /\ CloseInv)
<1>1. Init => IInv /\ CloseInv
  BY InitIInv, InitCloseInv
<1>2. (IInv /\ CloseInv) /\ [Next]_vars => (IInv /\ CloseInv)'
  BY StepIInv, StepCloseInv
<1> QED
  BY <1>1, <1>2, PTL DEF Spec

\* While the client is open, a subscription that was not cancelled has a loop
\* that listens, but for the two things no SDK guards against: in Rust a panic
\* of the callback, which ends the loop, and in Python a CancelledError in it,
\* which breaks it.
THEOREM CallbacksEndNoLoop == Spec => []LoopsSurvive
<1>1. CloseInv => LoopsSurvive
  BY DEF CloseInv, LoopLives, Listening, LoopsSurvive
<1> QED
  BY <1>1, CloseInvariance, PTL

\* A close() that returns because everything is drained leaves no message of a
\* subscription in use unhandled, and no callback running on one.
THEOREM DrainHandlesAll == Spec => []DrainedMeansHandled
<1>1. IInv /\ CloseInv => DrainedMeansHandled
  <2> SUFFICES ASSUME IInv, CloseInv, drained, NEW s \in Flushing
               PROVE  taken[s] = fed[s] /\ cur[s] = None
    BY DEF DrainedMeansHandled
  <2>1. s \in Subs /\ taken[s] = fed[s] /\ loop[s] = "ended"
    BY DEF CloseInv, WorkedOff, Flushing
  <2> QED
    BY <2>1 DEF IInv, TypeOK
<1> QED
  BY <1>1, CloseInvariance, PTL

\* Once close() of Python or Java has done its work no callback is called, whether
\* the buffers were worked off or the time for it ran out: the engines of these
\* two are the ones that wait for the drain and look for a stop before they take
\* a message.
THEOREM QuietAfterClose ==
  ASSUME Sdks \subseteq {"python", "java"}
  PROVE  Spec => CloseIsQuiet
<1>1. (IInv /\ CloseInv) /\ [Next]_vars => [client = "closed" => taken' = taken]_vars
  <2> SUFFICES ASSUME IInv, CloseInv, [Next]_vars, client = "closed" PROVE taken' = taken
    OBVIOUS
  <2>1. /\ sdk \in {"python", "java"}
        /\ \A s \in Subs : sub[s] # "live" /\ ~MayTake(s)
    BY DEF CloseInv, StopsAtOnce, MayTake, Listening, IInv, TypeOK
  <2>2. CASE \E m \in Msgs : Arrive(m)
    BY <2>2 DEF Arrive
  <2>3. CASE \E s \in Subs, filter \in Filters : Subscribe(s, filter)
    BY <2>3 DEF Subscribe
  <2>4. ASSUME NEW s \in Subs,
               \/ Reregister(s) \/ Take(s) \/ Leave(s) \/ RustPanic(s) \/ GoPanic(s)
               \/ PythonCallbackCancelled(s) \/ LoopStops(s)
        PROVE  taken' = taken
    BY <2>1, <2>4 DEF Reregister, Take, Leave, RustPanic, GoPanic, PythonCallbackCancelled,
                      LoopStops, RustAborted, JsIteratorEnds, CsLoopCancelled, FlushedLoopEnds
  <2>5. ASSUME NEW s \in Subs, Unsubscribe(s) PROVE taken' = taken
    BY <2>1, <2>5 DEF Unsubscribe, RustUnsubscribe, PythonUnsubscribe, GoUnsubscribe,
                      JsUnsubscribe, CsUnsubscribe
  <2>6. CASE RustClose \/ CsClose \/ GoClose \/ CloseProceeds \/ JavaInterrupted
             \/ \E c \in Subs \cup {Main} : CloseStarts(c)
    BY <2>6 DEF RustClose, CsClose, GoClose, CloseStarts, CloseProceeds, DrainReachesServer,
                CloseDrained, DrainTimesOut, JsCloseEnds, JavaInterrupted, subVars
  <2>7. CASE Terminated \/ UNCHANGED vars
    BY <2>7 DEF Terminated, vars, subVars
  <2> QED
    BY <2>2, <2>3, <2>4, <2>5, <2>6, <2>7 DEF Next
<1>2. Spec => [][client = "closed" => taken' = taken]_vars
  BY <1>1, CloseInvariance, PTL DEF Spec
<1> QED
  BY <1>2 DEF CloseIsQuiet

=============================================================================
