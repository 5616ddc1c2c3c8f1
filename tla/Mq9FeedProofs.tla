---------------------------- MODULE Mq9FeedProofs ----------------------------
(***************************************************************************)
(* The subscriptions of Mq9Subscription implement the queues of Mq9Feed,   *)
(* for every SDK and any number of messages, subscriptions and             *)
(* reconnections.                                                          *)
(***************************************************************************)
EXTENDS Mq9SubscriptionProofs

Over == {s \in Subs : loop[s] \in {"broken", "ended"}}

Gone == {s \in Subs : loop[s] = "ended"}

\* The inductive invariant of Mq9SubscriptionProofs does not say that the server
\* has stopped pushing to a loop that has ended.
EndedIsUnregistered == \A s \in Subs : loop[s] = "ended" => ~registered[s]

FInv == IInv /\ EndedIsUnregistered

\* What a step that pushes nothing and takes nothing, but from a subscription
\* that ends in that step, does to the queue.
Closes ==
  /\ fed' = fed
  /\ taken' \in [Subs -> Seq(Msgs)]
  /\ Over \subseteq Over' /\ Gone \subseteq Gone'
  /\ \A s \in Subs : s \in Over \/ s \notin Over' => taken'[s] = taken[s]
  /\ \A s \in Subs : Feed!Begins(taken[s], taken'[s])

-----------------------------------------------------------------------------
\* The two modules have the same notion of a prefix.
LEMMA SamePrefix ==
  ASSUME NEW p, NEW q
  PROVE  Feed!Begins(p, q) <=> IsPrefixOf(p, q)
BY DEF Feed!Begins, IsPrefixOf

LEMMA PrefixOfItself ==
  ASSUME NEW S, NEW p \in Seq(S)
  PROVE  Feed!Begins(p, p)
<1>1. <<>> \in Seq(S) /\ p \o <<>> = p
  OBVIOUS
<1>2. IsPrefixOf(p, p \o <<>>)
  BY <1>1, PrefixOfConcat
<1> QED
  BY <1>1, <1>2, SamePrefix

\* What a loop has taken begins what the server has pushed.
LEMMA TakenBegins ==
  ASSUME IInv, NEW s \in Subs
  PROVE  /\ taken[s] \in Seq(Msgs) /\ fed[s] \in Seq(Msgs)
         /\ Feed!Begins(taken[s], fed[s])
<1>1. taken[s] \in Seq(Msgs) /\ buffer[s] \in Seq(Msgs) /\ fed[s] \in Seq(Msgs)
  BY DEF IInv, TypeOK
<1>2. IsPrefixOf(taken[s] \o buffer[s], fed[s])
  BY DEF IInv, Kept, TakenFirst
<1> QED
  BY <1>1, <1>2, PrefixShorter, SamePrefix

-----------------------------------------------------------------------------
\* The steps of one subscription's loop, and of unsubscribe(), that take nothing.
LEMMA LoopCloses ==
  ASSUME FInv, NEW s \in Subs,
         \/ Leave(s) \/ RustPanic(s) \/ GoPanic(s) \/ PythonCallbackCancelled(s) \/ LoopStops(s)
         \/ RustUnsubscribe(s) \/ GoUnsubscribe(s) \/ JsUnsubscribe(s) \/ CsUnsubscribe(s)
  PROVE  fed' = fed /\ taken' = taken /\ Over \subseteq Over' /\ Gone \subseteq Gone'
<1> USE DEF FInv, IInv, TypeOK, EndLoops, Set, Over, Gone
<1>1. CASE Leave(s)
  BY <1>1 DEF Leave
<1>2. CASE RustPanic(s)
  BY <1>2 DEF RustPanic
<1>3. CASE GoPanic(s)
  BY <1>3 DEF GoPanic
<1>4. CASE RustAborted(s)
  BY <1>4 DEF RustAborted
<1>5. CASE JsIteratorEnds(s)
  BY <1>5 DEF JsIteratorEnds
<1>6. CASE CsLoopCancelled(s)
  BY <1>6 DEF CsLoopCancelled
<1>7. CASE FlushedLoopEnds(s)
  BY <1>7 DEF FlushedLoopEnds
<1>8. CASE RustUnsubscribe(s)
  BY <1>8 DEF RustUnsubscribe
<1>9. CASE GoUnsubscribe(s)
  BY <1>9 DEF GoUnsubscribe
<1>10. CASE JsUnsubscribe(s)
  BY <1>10 DEF JsUnsubscribe
<1>11. CASE CsUnsubscribe(s)
  BY <1>11 DEF CsUnsubscribe
<1>12. CASE PythonCallbackCancelled(s)
  BY <1>12 DEF PythonCallbackCancelled
<1> QED
  BY <1>1, <1>2, <1>3, <1>4, <1>5, <1>6, <1>7, <1>8, <1>9, <1>10, <1>11, <1>12 DEF LoopStops

\* The steps of close().
LEMMA CloseCloses ==
  ASSUME FInv,
         \/ RustClose \/ CsClose \/ GoClose \/ CloseProceeds \/ JavaInterrupted
         \/ \E c \in Subs \cup {Main} : CloseStarts(c)
  PROVE  fed' = fed /\ taken' = taken /\ Over \subseteq Over' /\ Gone \subseteq Gone'
<1> USE DEF FInv, IInv, TypeOK, EndLoops, Set, Over, Gone, subVars
<1>1. CASE RustClose
  BY <1>1 DEF RustClose
<1>2. CASE CsClose
  BY <1>2 DEF CsClose
<1>3. CASE GoClose
  BY <1>3 DEF GoClose
<1>4. CASE \E c \in Subs \cup {Main} : CloseStarts(c)
  BY <1>4 DEF CloseStarts
<1>5. CASE DrainReachesServer
  BY <1>5 DEF DrainReachesServer
<1>6. CASE CloseDrained
  BY <1>6 DEF CloseDrained
<1>7. CASE DrainTimesOut
  BY <1>7 DEF DrainTimesOut
<1>8. CASE JsCloseEnds
  BY <1>8 DEF JsCloseEnds
<1>9. CASE JavaInterrupted
  BY <1>9 DEF JavaInterrupted
<1> QED
  BY <1>1, <1>2, <1>3, <1>4, <1>5, <1>6, <1>7, <1>8, <1>9 DEF CloseProceeds

\* unsubscribe() of Python may take a few messages, and ends the loop.
LEMMA PythonUnsubscribeCloses ==
  ASSUME FInv, NEW s \in Subs, PythonUnsubscribe(s)
  PROVE  Closes
<1> USE DEF FInv, IInv, TypeOK
<1>1. fed' = fed /\ loop' = Set(loop, {s}, "ended")
  BY DEF PythonUnsubscribe, EndLoops
<1>2. PICK k \in 0..Len(buffer[s]) :
        /\ k > 0 => loop[s] = "running"
        /\ taken' = [taken EXCEPT ![s] = taken[s] \o SubSeq(buffer[s], 1, k)]
  BY DEF PythonUnsubscribe
<1>3. taken[s] \in Seq(Msgs) /\ SubSeq(buffer[s], 1, k) \in Seq(Msgs)
  <2>1. buffer[s] \in Seq(Msgs) /\ k \in 0..Len(buffer[s])
    OBVIOUS
  <2>2. \A i \in 1..k : buffer[s][i] \in Msgs
    BY <2>1
  <2> QED
    BY <2>1, <2>2
<1> DEFINE front == SubSeq(buffer[s], 1, k)
<1>4. k = 0 => taken[s] \o front = taken[s]
  <2>1. k = 0 => front = <<>>
    BY <1>3
  <2> QED
    BY <1>3, <2>1
<1>5. /\ taken[s] \o front \in Seq(Msgs)
      /\ Feed!Begins(taken[s], taken[s] \o front)
  <2> DEFINE t == taken[s]
  <2>1. t \in Seq(Msgs) /\ front \in Seq(Msgs)
    BY <1>3
  <2> HIDE DEF t, front
  <2>2. t \o front \in Seq(Msgs) /\ IsPrefixOf(t, t \o front)
    BY <2>1, PrefixOfConcat
  <2> QED
    BY <2>2, SamePrefix DEF t
<1> HIDE DEF front
<1>6. taken' = [taken EXCEPT ![s] = taken[s] \o front]
  BY <1>2 DEF front
<1>7. s \in Over => k = 0
  BY <1>2 DEF Over
<1>8. ASSUME NEW x \in Subs PROVE Feed!Begins(taken[x], taken'[x])
  <2>1. x # s => taken'[x] = taken[x]
    BY <1>6
  <2>2. taken[x] \in Seq(Msgs)
    OBVIOUS
  <2>3. Feed!Begins(taken[x], taken[x])
    BY <2>2, PrefixOfItself
  <2> QED
    BY <1>5, <1>6, <2>1, <2>3
<1> QED
  BY <1>1, <1>4, <1>5, <1>6, <1>7, <1>8 DEF Closes, Over, Gone, Set

\* A step that takes nothing and brings no ended loop back closes, too.
LEMMA QuietCloses ==
  ASSUME FInv, fed' = fed, taken' = taken, Over \subseteq Over', Gone \subseteq Gone'
  PROVE  Closes
<1>1. \A x \in Subs : Feed!Begins(taken[x], taken'[x])
  <2> TAKE x \in Subs
  <2>1. taken[x] \in Seq(Msgs)
    BY DEF FInv, IInv, TypeOK
  <2> QED
    BY <2>1, PrefixOfItself
<1> QED
  BY <1>1 DEF Closes, FInv, IInv, TypeOK

\* Such a step ends the queues whose loops it ends.
LEMMA ClosesEnds ==
  ASSUME FInv, IInv', Closes
  PROVE  Feed!End
<1>1. /\ Over \subseteq Over' /\ Over' \subseteq Subs
      /\ Gone \subseteq Gone' /\ Gone' \subseteq Over'
  BY DEF Over, Gone, Closes
<1>2. ASSUME NEW s \in Subs
      PROVE  IF s \in Over' \ Over
             THEN Feed!Begins(taken[s], taken'[s]) /\ Feed!Begins(taken'[s], fed[s])
             ELSE taken'[s] = taken[s]
  <2>1. Feed!Begins(taken'[s], fed'[s])
    <3>1. /\ taken'[s] \in Seq(Msgs) /\ buffer'[s] \in Seq(Msgs) /\ fed'[s] \in Seq(Msgs)
          /\ IsPrefixOf(taken'[s] \o buffer'[s], fed'[s])
      BY DEF IInv, TypeOK, Kept, TakenFirst
    <3> QED
      BY <3>1, PrefixShorter, SamePrefix
  <2>2. Feed!Begins(taken'[s], fed[s])
    BY <2>1 DEF Closes
  <2> QED
    BY <2>2 DEF Closes, Over
<1> QED
  BY <1>1, <1>2 DEF Feed!End, Closes, Over, Gone

-----------------------------------------------------------------------------
\* A new message is pushed to queues that are not gone.
LEMMA ArrivePushes ==
  ASSUME FInv, NEW m \in Msgs, Arrive(m)
  PROVE  Feed!Push
<1> DEFINE to == {s \in Subs : registered[s] /\ Wanted(s, m)}
<1>1. /\ fed' = [s \in Subs |-> IF s \in to THEN Append(fed[s], m) ELSE fed[s]]
      /\ taken' = taken /\ loop' = loop
  BY DEF Arrive
<1>2. \A s \in to : registered[s]
  OBVIOUS
<1> HIDE DEF to
<1>3. ASSUME NEW s \in Subs
      PROVE  /\ fed'[s] \in Seq(Msgs)
             /\ Feed!Begins(fed[s], fed'[s])
             /\ s \in Gone => fed'[s] = fed[s]
  <2> DEFINE f == fed[s]
  <2>1. f \in Seq(Msgs)
    BY DEF FInv, IInv, TypeOK
  <2>2. fed'[s] = IF s \in to THEN Append(f, m) ELSE f
    BY <1>1
  <2>3. s \in Gone => s \notin to
    BY <1>2 DEF Gone, FInv, EndedIsUnregistered
  <2> HIDE DEF f
  <2>4. Append(f, m) \in Seq(Msgs) /\ Feed!Begins(f, Append(f, m))
    <3>1. <<m>> \in Seq(Msgs) /\ Append(f, m) = f \o <<m>>
      BY <2>1, AppendIsConcat
    <3>2. IsPrefixOf(f, f \o <<m>>)
      BY <2>1, <3>1, PrefixOfConcat
    <3> QED
      BY <2>1, <3>1, <3>2, SamePrefix
  <2>5. Feed!Begins(f, f)
    BY <2>1, PrefixOfItself
  <2> QED
    BY <2>1, <2>2, <2>3, <2>4, <2>5 DEF f
<1>4. fed' \in [Subs -> Seq(Msgs)]
  BY <1>1, <1>3
<1> QED
  BY <1>1, <1>3, <1>4 DEF Feed!Push, Over, Gone

\* A replay is pushed to a queue that is not gone.
LEMMA ReplayPushes ==
  ASSUME FInv, NEW x \in Subs, NEW r \in Seq(Msgs), loop[x] # "ended",
         fed' = [fed EXCEPT ![x] = fed[x] \o r], taken' = taken, Over' = Over, Gone' = Gone
  PROVE  Feed!Push
<1>1. ASSUME NEW s \in Subs
      PROVE  /\ fed'[s] \in Seq(Msgs)
             /\ Feed!Begins(fed[s], fed'[s])
             /\ s \in Gone => fed'[s] = fed[s]
  <2> DEFINE f == fed[s]
  <2>1. f \in Seq(Msgs)
    BY DEF FInv, IInv, TypeOK
  <2>2. fed'[s] = IF s = x THEN f \o r ELSE f
    BY DEF FInv, IInv, TypeOK
  <2>3. s \in Gone => s # x
    BY DEF Gone
  <2> HIDE DEF f
  <2>4. f \o r \in Seq(Msgs) /\ IsPrefixOf(f, f \o r)
    BY <2>1, PrefixOfConcat
  <2>5. Feed!Begins(f, f \o r) /\ Feed!Begins(f, f)
    BY <2>1, <2>4, PrefixOfItself, SamePrefix
  <2> QED
    BY <2>1, <2>2, <2>3, <2>4, <2>5 DEF f
<1>2. fed' \in [Subs -> Seq(Msgs)]
  BY <1>1 DEF FInv, IInv, TypeOK
<1> QED
  BY <1>1, <1>2 DEF Feed!Push, Over, Gone

\* The message the loop takes is the next of the queue.
LEMMA TakeHandles ==
  ASSUME FInv, NEW s \in Subs, Take(s)
  PROVE  Feed!Handle(s)
<1> DEFINE t == taken[s]
           b == buffer[s]
           f == fed[s]
<1>1. t \in Seq(Msgs) /\ b \in Seq(Msgs) /\ f \in Seq(Msgs) /\ b # <<>>
  BY DEF FInv, IInv, TypeOK, Take
<1>2. IsPrefixOf(t \o b, f)
  BY DEF FInv, IInv, Kept, TakenFirst
<1>3. /\ taken' = [taken EXCEPT ![s] = Append(t, Head(b))]
      /\ fed' = fed
  BY DEF Take
<1>4. Over' = Over /\ Gone' = Gone /\ s \notin Over
  <2>1. loop[s] \in {"idle", "hot"}
    BY DEF Take, MayTake, FInv, IInv, Kept
  <2>2. loop' = loop \/ loop' = [loop EXCEPT ![s] = "running"]
    BY DEF Take
  <2> QED
    BY <2>1, <2>2 DEF Over, Gone, FInv, IInv, TypeOK
<1> HIDE DEF t, b, f
<1>5. t \o b \in Seq(Msgs)
  BY <1>1
<1>6. PICK r \in Seq(Msgs) : f = (t \o b) \o r
  BY <1>1, <1>2, <1>5, PrefixHasRest
<1>7. Len(t) + 1 \in DOMAIN f /\ f[Len(t) + 1] = Head(b)
  BY <1>1, <1>5, <1>6
<1> QED
  BY <1>3, <1>4, <1>7 DEF Feed!Handle, Over, Gone, t, b, f

-----------------------------------------------------------------------------
\* No step ends a loop the server goes on pushing to, or registers one that has
\* ended.
LEMMA StepEndedIsUnregistered ==
  ASSUME FInv, [Next]_vars
  PROVE  EndedIsUnregistered'
<1> USE DEF EndedIsUnregistered, FInv, IInv, TypeOK, Kept, PushedToWhile
<1>1. ASSUME NEW m \in Msgs, Arrive(m) PROVE EndedIsUnregistered'
  BY <1>1 DEF Arrive
<1>2. ASSUME NEW s \in Subs, NEW filter \in Filters, Subscribe(s, filter)
      PROVE  EndedIsUnregistered'
  BY <1>2 DEF Subscribe
<1>3. ASSUME NEW s \in Subs, Reregister(s) PROVE EndedIsUnregistered'
  BY <1>3 DEF Reregister
<1>4. ASSUME NEW s \in Subs, Take(s) PROVE EndedIsUnregistered'
  <2>1. registered' = registered
    BY <1>4 DEF Take
  <2>2. loop' = loop \/ loop' = [loop EXCEPT ![s] = "running"]
    BY <1>4 DEF Take
  <2> QED
    BY <2>1, <2>2
<1>5. ASSUME NEW s \in Subs, Leave(s) PROVE EndedIsUnregistered'
  <2>1. registered' = registered /\ loop' = [loop EXCEPT ![s] = AfterCallback(s)]
    BY <1>5 DEF Leave
  <2>2. ASSUME sub[s] # "stopped" PROVE AfterCallback(s) = "idle"
    BY <2>2 DEF AfterCallback
  <2>3. ASSUME sub[s] = "stopped", sdk \notin {"go", "java"} PROVE AfterCallback(s) = "hot"
    BY <2>3 DEF AfterCallback
  <2>4. registered[s] => AfterCallback(s) # "ended"
    BY <2>2, <2>3
  <2> QED
    BY <2>1, <2>4
<1>6. ASSUME NEW s \in Subs,
             RustPanic(s) \/ GoPanic(s) \/ PythonCallbackCancelled(s) \/ LoopStops(s)
      PROVE  EndedIsUnregistered'
  <2> USE DEF EndLoops, Set
  <2>1. CASE RustPanic(s)
    BY <2>1 DEF RustPanic
  <2>2. CASE GoPanic(s)
    BY <2>2 DEF GoPanic
  <2>3. CASE RustAborted(s)
    BY <2>3 DEF RustAborted
  <2>4. CASE JsIteratorEnds(s)
    BY <2>4 DEF JsIteratorEnds
  <2>5. CASE CsLoopCancelled(s)
    BY <2>5 DEF CsLoopCancelled
  <2>6. CASE FlushedLoopEnds(s)
    BY <2>6 DEF FlushedLoopEnds
  <2>7. CASE PythonCallbackCancelled(s)
    BY <2>7 DEF PythonCallbackCancelled
  <2> QED
    BY <1>6, <2>1, <2>2, <2>3, <2>4, <2>5, <2>6, <2>7 DEF LoopStops
<1>7. ASSUME NEW s \in Subs, Unsubscribe(s) PROVE EndedIsUnregistered'
  <2> USE DEF EndLoops, Set
  <2>1. CASE RustUnsubscribe(s)
    BY <2>1 DEF RustUnsubscribe
  <2>2. CASE PythonUnsubscribe(s)
    BY <2>2 DEF PythonUnsubscribe
  <2>3. CASE GoUnsubscribe(s)
    BY <2>3 DEF GoUnsubscribe
  <2>4. CASE JsUnsubscribe(s)
    BY <2>4 DEF JsUnsubscribe
  <2>5. CASE CsUnsubscribe(s)
    BY <2>5 DEF CsUnsubscribe
  <2> QED
    BY <1>7, <2>1, <2>2, <2>3, <2>4, <2>5 DEF Unsubscribe
<1>8. ASSUME \/ RustClose \/ CsClose \/ GoClose \/ CloseProceeds \/ JavaInterrupted
             \/ \E c \in Subs \cup {Main} : CloseStarts(c)
      PROVE  EndedIsUnregistered'
  <2> USE DEF EndLoops, Set, subVars
  <2>1. CASE RustClose \/ GoClose \/ JavaInterrupted
    BY <2>1 DEF RustClose, GoClose, JavaInterrupted
  <2>2. CASE CsClose
    BY <2>2 DEF CsClose
  <2>3. CASE \E c \in Subs \cup {Main} : CloseStarts(c)
    BY <2>3 DEF CloseStarts
  <2>4. CASE DrainReachesServer
    BY <2>4 DEF DrainReachesServer
  <2>5. CASE CloseDrained
    BY <2>5 DEF CloseDrained, Flushing
  <2>6. CASE DrainTimesOut
    BY <2>6 DEF DrainTimesOut, Flushing
  <2>7. CASE JsCloseEnds
    BY <2>7 DEF JsCloseEnds
  <2> QED
    BY <1>8, <2>1, <2>2, <2>3, <2>4, <2>5, <2>6, <2>7 DEF CloseProceeds
<1>9. CASE UNCHANGED vars
  BY <1>9 DEF vars, subVars
<1> QED
  BY <1>1, <1>2, <1>3, <1>4, <1>5, <1>6, <1>7, <1>8, <1>9 DEF Next, Terminated

\* Every step of a subscription is one of its queue, or changes nothing there.
LEMMA StepImplements ==
  ASSUME FInv, IInv', [Next]_vars
  PROVE  [Feed!Next]_(Feed!feedVars)
<1>1. ASSUME NEW m \in Msgs, Arrive(m) PROVE Feed!Push
  BY <1>1, ArrivePushes
<1>2. ASSUME NEW s \in Subs, NEW filter \in Filters, Subscribe(s, filter) PROVE Feed!Push
  <2>1. PICK r \in Replays(filter) : fed' = [fed EXCEPT ![s] = r]
    BY <1>2 DEF Subscribe
  <2>2. r \in Seq(Msgs) /\ <<>> \o r = r
    BY <2>1, ReplaysType DEF FInv, IInv
  <2>3. sub[s] = "none" /\ fed[s] = <<>> /\ loop[s] = "none"
    BY <1>2 DEF Subscribe, FInv, IInv, Kept, Fresh
  <2>4. taken' = taken /\ loop' = [loop EXCEPT ![s] = "idle"]
    BY <1>2 DEF Subscribe
  <2>5. Over' = Over /\ Gone' = Gone
    BY <2>3, <2>4 DEF Over, Gone, FInv, IInv, TypeOK
  <2> QED
    BY <2>1, <2>2, <2>3, <2>4, <2>5, ReplayPushes
<1>3. ASSUME NEW s \in Subs, Reregister(s) PROVE Feed!Push
  <2>1. PICK r \in Replays(want[s]) : fed' = [fed EXCEPT ![s] = fed[s] \o r]
    BY <1>3 DEF Reregister
  <2>2. r \in Seq(Msgs)
    BY <2>1, ReplaysType DEF FInv, IInv
  <2>3. registered[s] /\ taken' = taken /\ loop' = loop
    BY <1>3 DEF Reregister
  <2>4. Over' = Over /\ Gone' = Gone /\ loop[s] # "ended"
    BY <2>3 DEF Over, Gone, FInv, EndedIsUnregistered
  <2> QED
    BY <2>1, <2>2, <2>3, <2>4, ReplayPushes
<1>4. ASSUME NEW s \in Subs, Take(s) PROVE Feed!Handle(s)
  BY <1>4, TakeHandles
<1>5. ASSUME NEW s \in Subs, PythonUnsubscribe(s) PROVE Feed!End
  BY <1>5, PythonUnsubscribeCloses, ClosesEnds
<1>6. ASSUME NEW s \in Subs,
             \/ Leave(s) \/ RustPanic(s) \/ GoPanic(s) \/ PythonCallbackCancelled(s)
             \/ LoopStops(s)
             \/ RustUnsubscribe(s) \/ GoUnsubscribe(s) \/ JsUnsubscribe(s) \/ CsUnsubscribe(s)
      PROVE  Feed!End
  BY <1>6, LoopCloses, QuietCloses, ClosesEnds
<1>7. ASSUME \/ RustClose \/ CsClose \/ GoClose \/ CloseProceeds \/ JavaInterrupted
             \/ \E c \in Subs \cup {Main} : CloseStarts(c)
      PROVE  Feed!End
  BY <1>7, CloseCloses, QuietCloses, ClosesEnds
<1>8. CASE UNCHANGED vars
  BY <1>8 DEF Feed!feedVars, vars, subVars
<1> QED
  BY <1>1, <1>2, <1>3, <1>4, <1>5, <1>6, <1>7, <1>8
     DEF Next, Unsubscribe, Terminated, Feed!Next

\* Every SDK's subscription is a queue: whatever is pushed is handled in order,
\* each once, with nothing left out in between, until the subscription is over,
\* and after that nothing is handled, or pushed unless its loop is merely broken:
\* through replays, reconnections, unsubscribe(), panics, cancelled callbacks and
\* close().
THEOREM SubscriptionIsQueue == Spec => ImplementsFeed
<1>1. Init => Feed!Init
  BY DEF Init, Feed!Init
<1>2. Init => FInv
  <2>1. Init => EndedIsUnregistered
    BY DEF Init, EndedIsUnregistered
  <2> QED
    BY <2>1, InitIInv DEF FInv
<1>3. FInv /\ [Next]_vars => FInv'
  <2>1. FInv /\ [Next]_vars => IInv'
    BY StepIInv DEF FInv
  <2> QED
    BY <2>1, StepEndedIsUnregistered DEF FInv
<1>4. FInv /\ FInv' /\ [Next]_vars => [Feed!Next]_(Feed!feedVars)
  BY StepImplements DEF FInv
<1> QED
  BY <1>1, <1>2, <1>3, <1>4, PTL DEF Spec, ImplementsFeed, Feed!Spec
=============================================================================
