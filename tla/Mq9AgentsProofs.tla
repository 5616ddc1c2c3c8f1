-------------------------- MODULE Mq9AgentsProofs --------------------------
(***************************************************************************)
(* The multi-agent demo, for any number of runs of A, of letters and of    *)
(* restarts, lost connections and failed calls: whom B answers to; and,    *)
(* undisturbed, which answers A collects.                                  *)
(***************************************************************************)
EXTENDS Mq9Agents, FiniteSetTheorems, SequenceTheorems, TLAPS

(***************************************************************************)
(* The replay: the letters in another order, the first one first.          *)
(***************************************************************************)

LEMMA RankFacts ==
  ASSUME NEW m \in Letters
  PROVE  RankOf(m) = IF m.what <= 1 THEN 1 ELSE m.what
<1>1. m.what \in {0, 1, 2, 3}
  BY DEF Letters, Address, Expected
<1>2. CASE m.what \in {0, 1}
  <2>1. LevelOf(m) = "critical"
    BY <1>2 DEF LevelOf, TaskLevel, Address
  <2> QED
    BY <1>2, <2>1 DEF RankOf
<1>3. CASE m.what = 2
  <2>1. LevelOf(m) = "urgent"
    BY <1>3 DEF LevelOf, TaskLevel, Address
  <2> QED
    BY <1>3, <2>1 DEF RankOf
<1>4. CASE m.what = 3
  <2>1. LevelOf(m) = "normal"
    BY <1>4 DEF LevelOf, TaskLevel, Address
  <2> QED
    BY <1>4, <2>1 DEF RankOf
<1> QED
  BY <1>1, <1>2, <1>3, <1>4

Stored == DOMAIN rendezvous

LEMMA StoredFacts ==
  ASSUME TypeOK
  PROVE  /\ Len(rendezvous) \in Nat /\ Stored = 1..Len(rendezvous) /\ IsFiniteSet(Stored)
         /\ \A i \in Stored : rendezvous[i] \in Letters
         /\ \A i \in Stored : RankOf(rendezvous[i]) \in Nat /\ RankOf(rendezvous[i]) >= 1
<1>1. Len(rendezvous) \in Nat /\ Stored = 1..Len(rendezvous)
      /\ \A i \in Stored : rendezvous[i] \in Letters
  BY LenProperties, ElementOfSeq DEF TypeOK, Stored
<1>2. IsFiniteSet(1..Len(rendezvous))
  BY <1>1, FS_Interval
<1>3. \A m \in Letters : m.what \in Nat
  BY DEF Letters, Address, Expected
<1> QED
  BY <1>1, <1>2, <1>3, RankFacts

\* The order of a replay is a strict total order.
LEMMA OrderFacts ==
  ASSUME TypeOK, NEW i \in Stored, NEW j \in Stored
  PROVE  /\ ~GoesBefore(i, i)
         /\ i # j => GoesBefore(i, j) \/ GoesBefore(j, i)
         /\ \A k \in Stored : GoesBefore(i, j) /\ GoesBefore(j, k) => GoesBefore(i, k)
<1>1. i \in Nat /\ j \in Nat /\ \A k \in Stored : k \in Nat
  BY StoredFacts
<1>2. \A k \in Stored : RankOf(rendezvous[k]) \in Nat
  BY StoredFacts
<1> QED
  BY <1>1, <1>2 DEF GoesBefore

\* So every letter has a place of its own in it.
Before(j) == {i \in Stored : GoesBefore(i, j)}

LEMMA PlaceFacts ==
  ASSUME TypeOK
  PROVE  /\ \A j \in Stored : Place(j) \in Stored
         /\ \A i, j \in Stored : Place(i) = Place(j) => i = j
         /\ \A k \in Stored : \E i \in Stored : Place(i) = k
<1> DEFINE n == Len(rendezvous)
<1>1. /\ n \in Nat /\ Stored = 1..n /\ IsFiniteSet(Stored)
      /\ \A j \in Stored : Place(j) = 1 + Cardinality(Before(j))
  BY StoredFacts DEF Place, Before, Stored
<1> HIDE DEF n
<1>2. Cardinality(Stored) = n
  <2>1. Cardinality(1..n) = IF 1 > n THEN 0 ELSE n - 1 + 1
    BY <1>1, FS_Interval
  <2> QED
    BY <1>1, <2>1
<1>3. \A j \in Stored : IsFiniteSet(Before(j)) /\ Cardinality(Before(j)) \in Nat
  <2> TAKE j \in Stored
  <2>1. Before(j) \in SUBSET Stored
    BY DEF Before
  <2> QED
    BY <1>1, <2>1, FS_Subset, FS_CardinalityType
<1>4. ASSUME NEW j \in Stored PROVE Place(j) \in Stored
  <2>1. Before(j) \cup {j} \in SUBSET Stored /\ j \notin Before(j)
    BY OrderFacts DEF Before
  <2>2. Cardinality(Before(j) \cup {j}) = Cardinality(Before(j)) + 1
    BY <1>3, <2>1, FS_AddElement
  <2>3. Cardinality(Before(j) \cup {j}) <= n
    BY <1>1, <1>2, <2>1, FS_Subset
  <2> QED
    BY <1>1, <1>3, <2>2, <2>3
<1>5. ASSUME NEW i \in Stored, NEW j \in Stored, GoesBefore(i, j)
      PROVE  Place(i) < Place(j)
  <2>1. Before(i) \cup {i} \in SUBSET Before(j) /\ i \notin Before(i)
    BY <1>5, OrderFacts DEF Before
  <2>2. Cardinality(Before(i) \cup {i}) = Cardinality(Before(i)) + 1
    BY <1>3, <2>1, FS_AddElement
  <2>3. Cardinality(Before(i) \cup {i}) <= Cardinality(Before(j))
    BY <1>3, <2>1, FS_Subset
  <2> QED
    BY <1>1, <1>3, <2>2, <2>3
<1>6. ASSUME NEW i \in Stored, NEW j \in Stored, i # j
      PROVE  Place(i) # Place(j)
  <2>1. GoesBefore(i, j) \/ GoesBefore(j, i)
    BY <1>6, OrderFacts
  <2>2. Place(i) \in Nat /\ Place(j) \in Nat
    BY <1>1, <1>4
  <2> QED
    BY <1>5, <2>1, <2>2
<1> DEFINE places == [j \in Stored |-> Place(j)]
<1>7. places \in Injection(Stored, Stored)
  BY <1>4, <1>6 DEF Injection, IsInjective
<1>8. places \in Surjection(Stored, Stored)
  <2> HIDE DEF places
  <2> QED
    BY <1>1, <1>7, FS_Injection
<1>9. \A k \in Stored : \E i \in Stored : Place(i) = k
  BY <1>8 DEF Surjection
<1> QED
  BY <1>4, <1>6, <1>9

LEMMA ReplayFacts ==
  ASSUME TypeOK
  PROVE  /\ Replay \in Seq(Letters) /\ Len(Replay) = Len(rendezvous)
         /\ \A k \in Stored, i \in Stored : Place(i) = k => Replay[k] = rendezvous[i]
<1>1. Len(rendezvous) \in Nat /\ Stored = 1..Len(rendezvous) /\ \A i \in Stored : rendezvous[i] \in Letters
  BY StoredFacts
<1>2. \A k \in Stored : (CHOOSE i \in Stored : Place(i) = k) \in Stored
                        /\ Place(CHOOSE i \in Stored : Place(i) = k) = k
  BY PlaceFacts
<1>3. Replay = [k \in Stored |-> rendezvous[CHOOSE i \in Stored : Place(i) = k]]
  BY DEF Replay, Stored
<1>4. Replay \in [1..Len(rendezvous) -> Letters]
  BY <1>1, <1>2, <1>3
<1>5. Replay \in Seq(Letters) /\ Len(Replay) = Len(rendezvous)
  BY <1>1, <1>4, IsASeq, LenProperties
<1>6. \A k \in Stored, i \in Stored : Place(i) = k => Replay[k] = rendezvous[i]
  <2> SUFFICES ASSUME NEW k \in Stored, NEW i \in Stored, Place(i) = k
               PROVE  Replay[k] = rendezvous[i]
    OBVIOUS
  <2>1. (CHOOSE x \in Stored : Place(x) = k) = i
    BY <1>2, PlaceFacts
  <2> QED
    BY <1>3, <2>1
<1> QED
  BY <1>5, <1>6

\* A replay begins with the letter no other goes before.
LEMMA ReplayHead ==
  ASSUME TypeOK, rendezvous # <<>>
  PROVE  /\ Replay # <<>> /\ Replay \in Seq(Letters)
         /\ \E i \in Stored : Head(Replay) = rendezvous[i] /\ \A j \in Stored : ~GoesBefore(j, i)
<1>1. Len(rendezvous) \in Nat /\ Len(rendezvous) # 0
  BY EmptySeq, LenProperties DEF TypeOK
<1>2. 1 \in Stored /\ IsFiniteSet(Stored)
  BY <1>1, StoredFacts
<1>3. PICK i \in Stored : Place(i) = 1
  BY <1>2, PlaceFacts
<1>4. \A j \in Stored : ~GoesBefore(j, i)
  <2>1. 1 = 1 + Cardinality(Before(i))
    BY <1>3 DEF Place, Before, Stored
  <2>2. IsFiniteSet(Before(i)) /\ Cardinality(Before(i)) \in Nat
    <3>1. Before(i) \in SUBSET Stored
      BY DEF Before
    <3> QED
      BY <1>2, <3>1, FS_Subset, FS_CardinalityType
  <2>3. Cardinality(Before(i)) = 0
    BY <2>1, <2>2
  <2>4. Before(i) = {}
    BY <2>2, <2>3, FS_EmptySet
  <2> QED
    BY <2>4 DEF Before
<1>5. Replay[1] = rendezvous[i] /\ Replay \in Seq(Letters) /\ Len(Replay) # 0
  BY <1>1, <1>2, <1>3, ReplayFacts
<1> QED
  BY <1>4, <1>5, EmptySeq, HeadTailProperties

\* The letters of one run are replayed as they arrived.
LEMMA ReplayOfOneRun ==
  ASSUME TypeOK, NEW r, \A i \in Stored : rendezvous[i] = [from |-> r, what |-> i - 1]
  PROVE  Replay = rendezvous
<1>1. /\ Len(rendezvous) \in Nat /\ Stored = 1..Len(rendezvous)
      /\ \A i \in Stored : rendezvous[i] \in Letters
  BY StoredFacts
<1>2. \A i \in Stored : RankOf(rendezvous[i]) = IF i <= 2 THEN 1 ELSE i - 1
  <2> TAKE i \in Stored
  <2>1. rendezvous[i] \in Letters
    BY <1>1
  <2>2. rendezvous[i].what = i - 1
    <3>1. rendezvous[i] = [from |-> r, what |-> i - 1]
      OBVIOUS
    <3> QED
      BY <3>1
  <2>3. RankOf(rendezvous[i]) = IF rendezvous[i].what <= 1 THEN 1 ELSE rendezvous[i].what
    BY <2>1, RankFacts
  <2> QED
    BY <1>1, <2>2, <2>3
<1>3. \A i, j \in Stored : GoesBefore(i, j) <=> i < j
  BY <1>1, <1>2 DEF GoesBefore
<1>4. ASSUME NEW j \in Stored PROVE Place(j) = j
  <2>1. Before(j) = 1..(j - 1)
    BY <1>1, <1>3 DEF Before
  <2>2. Cardinality(1..(j - 1)) = j - 1
    <3>1. j \in Nat /\ j >= 1 /\ j - 1 \in Int /\ 1 \in Int
      BY <1>1
    <3>2. Cardinality(1..(j - 1)) = IF 1 > j - 1 THEN 0 ELSE (j - 1) - 1 + 1
      BY <3>1, FS_Interval, Zenon
    <3> QED
      BY <3>1, <3>2
  <2>3. Place(j) = 1 + Cardinality(Before(j)) /\ j \in Nat
    BY <1>1 DEF Place, Before, Stored
  <2> QED
    BY <2>1, <2>2, <2>3
<1>5. /\ Replay \in Seq(Letters) /\ Len(Replay) = Len(rendezvous)
      /\ \A j \in 1..Len(rendezvous) : Replay[j] = rendezvous[j]
  BY <1>1, <1>4, ReplayFacts
<1> QED
  BY <1>5, SeqEqual DEF TypeOK

(***************************************************************************)
(* The inductive invariant: the letters and who has got them.              *)
(***************************************************************************)

\* Of a run, the address is stored first or missing, and before anything else
\* of it has left; nothing is missing if no connection was lost.
Senders ==
  /\ \A r \in Runs : a[r] = "idle" => sent[r] = 0 /\ coming[r] = <<>> /\ results[r] = <<>>
  /\ \A r \in Runs : sent[r] > 0 =>
       \/ Address \in missing[r]
       \/ \E j \in DOMAIN rendezvous : rendezvous[j] = [from |-> r, what |-> Address]
  /\ \A i \in DOMAIN rendezvous :
       LET r == rendezvous[i].from
       IN  /\ a[r] # "idle"
           /\ \/ Address \in missing[r]
              \/ \E j \in 1..i : rendezvous[j] = [from |-> r, what |-> Address]
  /\ troubles = 0 => \A r \in Runs : missing[r] = {}

\* A letter which B may take for the address: an address that is the first one,
\* or a task whose address is missing.
MayBeFirst(m) ==
  /\ \E i \in DOMAIN rendezvous : rendezvous[i] = m
  /\ m.what = Address => FirstAddressOf(m.from)
  /\ m.what # Address => Address \in missing[m.from]

\* B answers to such a letter, or will: it is the next one it gets.
FirstLetter ==
  /\ replyTo # NoMsg => MayBeFirst(replyTo)
  /\ b = "waiting" /\ replyTo = NoMsg =>
       IF buffer = <<>> THEN rendezvous = <<>> ELSE MayBeFirst(Head(buffer))
  /\ cur # NoMsg \/ outbox # <<>> \/ processed > 0 => replyTo # NoMsg
  /\ \A r \in Runs : answers[r] # <<>> => FirstAddressOf(r)

IInv == TypeOK /\ Senders /\ FirstLetter


(***************************************************************************)
(* Type correctness.                                                       *)
(***************************************************************************)

LEMMA NoLetters == <<>> \in Seq(Letters) /\ Len(<<>>) = 0 /\ \A S : <<>> \in Seq(S)
  OBVIOUS

LEMMA NoMsgIsNone == NoMsg \notin Letters
  BY AgentsAssumption DEF Letters, Address, Expected

\* Taking the first letter of a queue.
LEMMA HeadOfQueue ==
  ASSUME NEW q \in Seq(Letters), q # <<>>
  PROVE  /\ Head(q) \in Letters /\ Head(q) = q[1] /\ Len(q) \in Nat /\ Len(q) > 0
         /\ Tail(q) \in Seq(Letters) /\ Len(Tail(q)) = Len(q) - 1
         /\ \A i \in 1..(Len(q) - 1) : Tail(q)[i] = q[i + 1]
<1>1. Len(q) \in Nat /\ Len(q) # 0
  BY EmptySeq, LenProperties
<1> QED
  BY <1>1, HeadTailProperties

LEMMA AppendLetter ==
  ASSUME NEW q \in Seq(Letters), NEW m \in Letters
  PROVE  /\ Append(q, m) \in Seq(Letters) /\ Len(Append(q, m)) = Len(q) + 1 /\ Len(q) \in Nat
         /\ DOMAIN q = 1..Len(q) /\ DOMAIN Append(q, m) = 1..(Len(q) + 1)
         /\ \A i \in 1..Len(q) : Append(q, m)[i] = q[i]
         /\ Append(q, m)[Len(q) + 1] = m
         /\ Append(q, m) # <<>>
<1>1. /\ Append(q, m) \in Seq(Letters) /\ Len(Append(q, m)) = Len(q) + 1 /\ Len(q) \in Nat
      /\ \A i \in 1..Len(q) : Append(q, m)[i] = q[i]
      /\ Append(q, m)[Len(q) + 1] = m
  BY AppendProperties, LenProperties
<1>2. DOMAIN q = 1..Len(q) /\ DOMAIN Append(q, m) = 1..Len(Append(q, m))
  BY <1>1, LenProperties
<1> QED
  BY <1>1, <1>2, NoLetters

\* The last letters of a queue.
LEMMA LastLetters ==
  ASSUME NEW q \in Seq(Letters), NEW k \in 0..Len(q)
  PROVE  SubSeq(q, k + 1, Len(q)) \in Seq(Letters)
<1>1. Len(q) \in Nat /\ k + 1 \in 1..Len(q) + 1
  BY LenProperties
<1>2. \A i \in (k + 1)..Len(q) : q[i] \in Letters
  BY <1>1, ElementOfSeq
<1> QED
  BY <1>1, <1>2, SubSeqProperties

LEMMA SentFacts ==
  ASSUME TypeOK, NEW r \in Runs
  PROVE  sent[r] \in Nat /\ sent[r] \in 0..Expected + 1 /\ Expected + 1 = 4
<1>1. sent[r] \in 0..Expected + 1
  BY DEF TypeOK
<1>2. Expected + 1 = 4
  BY DEF Expected
<1> QED
  BY <1>1, <1>2

LEMMA InitTypeOK == Init => TypeOK
<1> SUFFICES ASSUME Init PROVE TypeOK
  OBVIOUS
<1>1. <<>> \in Seq(Letters)
  BY NoLetters
<1>2. /\ answers \in [Runs -> Seq(Letters)]
      /\ coming \in [Runs -> Seq(Letters)]
      /\ results \in [Runs -> Seq(Letters)]
  BY <1>1 DEF Init
<1>3. /\ a \in [Runs -> {"idle", "sending", "waiting", "done", "gone"}]
      /\ sent \in [Runs -> 0..Expected + 1]
      /\ missing \in [Runs -> SUBSET (Address..Expected)]
  BY DEF Init, Expected
<1>4. {cur, replyTo} \subseteq Letters \cup {NoMsg}
  BY DEF Init
<1>5. troubles \in 0..MaxTroubles
  BY AgentsAssumption DEF Init
<1> QED
  BY <1>1, <1>2, <1>3, <1>4, <1>5 DEF Init, TypeOK

LEMMA StepTypeOKA ==
  ASSUME TypeOK, NEW r \in Runs, A(r)
  PROVE  TypeOK'
<1> USE DEF TypeOK
<1>1. CASE AStart(r)
  BY <1>1 DEF AStart, bVars
<1>2. CASE ASend(r)
  <2> DEFINE m == [from |-> r, what |-> sent[r]]
  <2>1. m \in Letters /\ sent[r] + 1 \in 0..Expected + 1
    BY <1>2 DEF ASend, Letters, Address, Expected
  <2>2. rendezvous' = Append(rendezvous, m) /\ buffer' \in {buffer, Append(buffer, m)}
        /\ sent' = [sent EXCEPT ![r] = sent[r] + 1]
        /\ UNCHANGED <<answers, a, missing, coming, results, b, cur, replyTo, processed, done, outbox,
                       troubles>>
    BY <1>2 DEF ASend
  <2> HIDE DEF m
  <2>3. rendezvous' \in Seq(Letters) /\ buffer' \in Seq(Letters)
    BY <2>1, <2>2, AppendLetter
  <2>4. sent' \in [Runs -> 0..Expected + 1]
    BY <2>1, <2>2
  <2> QED
    BY <2>2, <2>3, <2>4
<1>3. CASE ASubscribe(r)
  BY <1>3 DEF ASubscribe, bVars
<1>4. CASE AReceive(r)
  <2>1. coming[r] \in Seq(Letters) /\ results[r] \in Seq(Letters) /\ coming[r] # <<>>
    BY <1>4 DEF AReceive
  <2>2. Tail(coming[r]) \in Seq(Letters) /\ Append(results[r], Head(coming[r])) \in Seq(Letters)
    BY <2>1, HeadOfQueue, AppendLetter
  <2> QED
    BY <1>4, <2>2 DEF AReceive, bVars
<1>5. CASE AEnds(r)
  BY <1>5 DEF AEnds, bVars
<1>6. CASE AGivesUp(r)
  BY <1>6 DEF AGivesUp, bVars
<1>7. CASE AReconnects(r)
  <2>1. coming[r] \o answers[r] \in Seq(Letters)
    BY ConcatProperties
  <2>2. troubles + 1 \in 0..MaxTroubles
    BY <1>7, AgentsAssumption DEF AReconnects
  <2>3. PICK next \in sent[r]..Expected + 1 :
          /\ sent' = [sent EXCEPT ![r] = next]
          /\ missing' = [missing EXCEPT ![r] = @ \cup Between(sent[r], next - 1)]
    BY <1>7 DEF AReconnects
  <2>4. sent' \in [Runs -> 0..Expected + 1]
    <3>1. sent[r] \in Nat /\ Expected + 1 = 4
      BY SentFacts
    <3>2. next \in 0..Expected + 1
      BY <3>1
    <3> QED
      BY <2>3, <3>2
  <2>5. missing' \in [Runs -> SUBSET (Address..Expected)]
    BY <2>3 DEF Between
  <2>6. coming' \in [Runs -> Seq(Letters)]
    BY <1>7, <2>1 DEF AReconnects
  <2>7. troubles' = troubles + 1 /\ UNCHANGED <<rendezvous, answers, a, results, bVars>>
    BY <1>7 DEF AReconnects
  <2> QED
    BY <2>2, <2>4, <2>5, <2>6, <2>7 DEF bVars
<1> QED
  BY <1>1, <1>2, <1>3, <1>4, <1>5, <1>6, <1>7 DEF A

LEMMA MoreTroubles == TypeOK /\ troubles < MaxTroubles => troubles + 1 \in 0..MaxTroubles
  BY AgentsAssumption DEF TypeOK

LEMMA StepTypeOKB ==
  ASSUME IInv, B
  PROVE  TypeOK'
<1> USE DEF IInv, TypeOK
<1>1. CASE BStart
  BY <1>1, ReplayFacts, NoLetters, MoreTroubles DEF BStart, aVars
<1>2. CASE BTake
  <2>1. Head(buffer) \in Letters /\ Tail(buffer) \in Seq(Letters)
    BY <1>2, HeadOfQueue DEF BTake
  <2> QED
    BY <1>2, <2>1 DEF BTake, aVars
<1>3. CASE BAnswer
  <2>1. cur \in Letters /\ Append(outbox, cur) \in Seq(Letters)
    BY <1>3, AppendLetter DEF BAnswer
  <2> QED
    BY <1>3, <2>1 DEF BAnswer, aVars, BAlive
<1>4. CASE BAnswerFails
  BY <1>4, MoreTroubles DEF BAnswerFails, aVars
<1>5. CASE BWriteOut
  <2>1. Head(outbox) \in Letters /\ Tail(outbox) \in Seq(Letters)
    BY <1>5, HeadOfQueue DEF BWriteOut
  <2>2. replyTo \in Letters /\ replyTo.from \in Runs
    <3>1. replyTo \in Letters
      BY <1>5 DEF BWriteOut, FirstLetter
    <3> QED
      BY <3>1 DEF Letters
  <2>3. /\ Append(answers[replyTo.from], Head(outbox)) \in Seq(Letters)
        /\ Append(coming[replyTo.from], Head(outbox)) \in Seq(Letters)
    BY <2>1, <2>2, AppendLetter
  <2>4. answers' \in [Runs -> Seq(Letters)] /\ coming' \in [Runs -> Seq(Letters)]
    BY <1>5, <2>3 DEF BWriteOut
  <2> QED
    BY <1>5, <2>1, <2>4 DEF BWriteOut
<1>6. CASE BUnsubscribe
  BY <1>6, NoLetters DEF BUnsubscribe, aVars
<1>7. CASE BExit
  BY <1>7 DEF BExit, aVars
<1>8. CASE BReconnects
  <2>1. buffer \o Replay \in Seq(Letters)
    BY ReplayFacts, ConcatProperties
  <2>2. outbox' \in Seq(Letters)
    <3>1. PICK k \in 0..Len(outbox) : outbox' = SubSeq(outbox, k + 1, Len(outbox))
      BY <1>8 DEF BReconnects
    <3> QED
      BY <3>1, LastLetters
  <2>3. /\ troubles' = troubles + 1 /\ troubles < MaxTroubles
        /\ buffer' \in {buffer, buffer \o Replay}
        /\ UNCHANGED <<rendezvous, answers, aVars, b, cur, replyTo, processed, done>>
    BY <1>8 DEF BReconnects
  <2> QED
    BY <2>1, <2>2, <2>3, MoreTroubles DEF aVars
<1> QED
  BY <1>1, <1>2, <1>3, <1>4, <1>5, <1>6, <1>7, <1>8 DEF B

(***************************************************************************)
(* Steps that preserve the rest of the inductive invariant.                *)
(***************************************************************************)

\* A rendezvous that gets a letter more.
LEMMA RendezvousGrows ==
  ASSUME TypeOK, NEW m \in Letters, rendezvous' = Append(rendezvous, m)
  PROVE  /\ rendezvous' # <<>>
         /\ rendezvous # <<>> => rendezvous'[1] = rendezvous[1]
         /\ rendezvous = <<>> => rendezvous'[1] = m
         /\ Len(rendezvous') = Len(rendezvous) + 1
         /\ DOMAIN rendezvous' = 1..(Len(rendezvous) + 1)
         /\ \A i \in DOMAIN rendezvous : i \in DOMAIN rendezvous' /\ rendezvous'[i] = rendezvous[i]
         /\ rendezvous'[Len(rendezvous) + 1] = m
<1>1. rendezvous \in Seq(Letters) /\ Len(rendezvous) \in Nat /\ DOMAIN rendezvous = 1..Len(rendezvous)
      /\ (rendezvous = <<>> <=> Len(rendezvous) = 0)
  BY EmptySeq, LenProperties DEF TypeOK
<1> QED
  BY <1>1, AppendLetter

LEMMA SendersStep ==
  ASSUME IInv, [Next]_vars
  PROVE  Senders'
<1>0. /\ Senders /\ TypeOK
      /\ \A i \in DOMAIN rendezvous : rendezvous[i].from \in Runs
  <2>1. \A i \in DOMAIN rendezvous : rendezvous[i] \in Letters
    BY StoredFacts DEF IInv, Stored
  <2>2. \A m \in Letters : m.from \in Runs
    BY DEF Letters
  <2> QED
    BY <2>1, <2>2 DEF IInv
<1>1. ASSUME NEW r \in Runs, ASend(r) PROVE Senders'
  <2> DEFINE m == [from |-> r, what |-> sent[r]]
  <2>1. m \in Letters /\ m.what = sent[r] /\ m.from = r /\ sent[r] \in Nat
    BY <1>1 DEF ASend, IInv, TypeOK, Letters, Address, Expected
  <2>2. /\ rendezvous' = Append(rendezvous, m) /\ a[r] = "sending"
        /\ UNCHANGED <<a, missing, coming, results, troubles>>
        /\ \A x \in Runs : x # r => sent'[x] = sent[x]
    BY <1>1 DEF ASend, IInv, TypeOK
  <2>3. sent[r] = 0 => m = [from |-> r, what |-> Address]
    BY DEF Address
  <2> HIDE DEF m
  <2>4. \A x \in Runs : a'[x] = "idle" => sent'[x] = 0 /\ coming'[x] = <<>> /\ results'[x] = <<>>
    BY <1>0, <2>2 DEF Senders
  <2>5. /\ DOMAIN rendezvous' = DOMAIN rendezvous \cup {Len(rendezvous) + 1}
        /\ \A i \in DOMAIN rendezvous : rendezvous'[i] = rendezvous[i]
        /\ rendezvous'[Len(rendezvous) + 1] = m
        /\ DOMAIN rendezvous = 1..Len(rendezvous) /\ Len(rendezvous) \in Nat
    <3>1. DOMAIN rendezvous = 1..Len(rendezvous) /\ Len(rendezvous) \in Nat
      BY <1>0, LenProperties DEF TypeOK
    <3> QED
      BY <1>0, <2>1, <2>2, <3>1, RendezvousGrows
  <2>6. \/ Address \in missing[r]
        \/ \E j \in DOMAIN rendezvous' : rendezvous'[j] = [from |-> r, what |-> Address]
    <3>1. CASE sent[r] = 0
      BY <2>3, <2>5, <3>1
    <3>2. CASE sent[r] # 0
      <4>1. sent[r] > 0
        BY <2>1, <3>2
      <4> QED
        BY <1>0, <2>5, <4>1 DEF Senders
    <3> QED
      BY <3>1, <3>2
  <2>7. \A x \in Runs : sent'[x] > 0 =>
          \/ Address \in missing[x]
          \/ \E j \in DOMAIN rendezvous' : rendezvous'[j] = [from |-> x, what |-> Address]
    <3> TAKE x \in Runs
    <3>1. CASE x = r
      BY <2>6, <3>1
    <3>2. CASE x # r
      BY <1>0, <2>2, <2>5, <3>2 DEF Senders
    <3> QED
      BY <3>1, <3>2
  <2>8. ASSUME NEW i \in DOMAIN rendezvous'
        PROVE  LET x == rendezvous'[i].from
               IN  /\ a'[x] # "idle"
                   /\ \/ Address \in missing'[x]
                      \/ \E j \in 1..i : rendezvous'[j] = [from |-> x, what |-> Address]
    <3>1. CASE i \in DOMAIN rendezvous
      <4>1. 1..i \subseteq DOMAIN rendezvous /\ rendezvous'[i] = rendezvous[i]
        BY <2>5, <3>1
      <4> DEFINE x == rendezvous[i].from
      <4>2. /\ a[x] # "idle"
            /\ \/ Address \in missing[x]
               \/ \E j \in 1..i : rendezvous[j] = [from |-> x, what |-> Address]
        BY <1>0, <3>1 DEF Senders
      <4>3. \A j \in 1..i : rendezvous'[j] = rendezvous[j]
        BY <2>5, <4>1
      <4> HIDE DEF x
      <4>4. /\ a'[x] # "idle"
            /\ \/ Address \in missing'[x]
               \/ \E j \in 1..i : rendezvous'[j] = [from |-> x, what |-> Address]
        BY <2>2, <4>2, <4>3
      <4> QED
        BY <4>1, <4>4 DEF x
    <3>2. CASE i = Len(rendezvous) + 1
      <4>1. rendezvous'[i] = m /\ rendezvous'[i].from = r
        BY <2>1, <2>5, <3>2
      <4>2. \A j \in DOMAIN rendezvous' : j \in 1..i
        BY <2>5, <3>2
      <4>3. \/ Address \in missing'[r]
            \/ \E j \in 1..i : rendezvous'[j] = [from |-> r, what |-> Address]
        BY <2>2, <2>6, <4>2
      <4> QED
        BY <2>2, <4>1, <4>3
    <3> QED
      BY <2>5, <3>1, <3>2
  <2>9. troubles' = 0 => \A x \in Runs : missing'[x] = {}
    BY <1>0, <2>2 DEF Senders
  <2> QED
    BY <2>2, <2>4, <2>7, <2>8, <2>9 DEF Senders
<1>2. ASSUME NEW r \in Runs, AStart(r) \/ ASubscribe(r) \/ AReceive(r) \/ AEnds(r) \/ AGivesUp(r)
      PROVE  Senders'
  <2>1. /\ UNCHANGED <<rendezvous, sent, missing, troubles>>
        /\ a'[r] # "idle" /\ \A x \in Runs : x # r => a'[x] = a[x]
        /\ \A x \in Runs : x # r => coming'[x] = coming[x] /\ results'[x] = results[x]
    BY <1>2 DEF AStart, ASubscribe, AReceive, AEnds, AGivesUp, IInv, TypeOK
  <2>2. \A i \in DOMAIN rendezvous : a'[rendezvous[i].from] # "idle"
    BY <1>0, <2>1 DEF Senders
  <2> QED
    BY <1>0, <2>1, <2>2 DEF Senders
<1>3. ASSUME NEW r \in Runs, AReconnects(r) PROVE Senders'
  <2>1. PICK next \in sent[r]..Expected + 1 :
          /\ sent' = [sent EXCEPT ![r] = next]
          /\ missing' = [missing EXCEPT ![r] = @ \cup Between(sent[r], next - 1)]
    BY <1>3 DEF AReconnects
  <2>2. /\ a[r] # "idle" /\ troubles' # 0 /\ UNCHANGED <<rendezvous, a, results>>
        /\ \A x \in Runs : x # r => coming'[x] = coming[x]
    BY <1>0, <1>3, AgentsAssumption DEF AReconnects, TypeOK
  <2>3. /\ sent'[r] = next /\ \A x \in Runs : x # r => sent'[x] = sent[x] /\ missing'[x] = missing[x]
        /\ missing'[r] = missing[r] \cup Between(sent[r], next - 1)
    BY <1>0, <2>1 DEF TypeOK
  <2>4. \A x \in Runs : missing[x] \subseteq missing'[x]
    BY <2>3
  <2>5. sent[r] = 0 /\ next > 0 => Address \in missing'[r]
    <3>1. next \in Int
      BY <1>0, <2>1 DEF TypeOK, Expected
    <3>2. sent[r] = 0 /\ next > 0 => Address \in Between(sent[r], next - 1)
      BY <3>1 DEF Between, Address, Expected
    <3> QED
      BY <2>3, <3>2
  <2>6. \A x \in Runs : sent'[x] > 0 =>
          \/ Address \in missing'[x]
          \/ \E j \in DOMAIN rendezvous : rendezvous[j] = [from |-> x, what |-> Address]
    <3> TAKE x \in Runs
    <3>1. CASE x = r /\ sent[r] = 0
      BY <2>3, <2>5, <3>1
    <3>2. CASE sent[x] > 0
      BY <1>0, <2>4, <3>2 DEF Senders
    <3>3. CASE x # r
      BY <1>0, <2>3, <3>3 DEF Senders
    <3>4. sent[r] \in Nat
      BY <1>0, SentFacts
    <3> QED
      BY <3>1, <3>2, <3>3, <3>4
  <2>7. \A i \in DOMAIN rendezvous :
          LET x == rendezvous[i].from
          IN  /\ a[x] # "idle"
              /\ \/ Address \in missing'[x]
                 \/ \E j \in 1..i : rendezvous[j] = [from |-> x, what |-> Address]
    BY <1>0, <2>4 DEF Senders
  <2> QED
    BY <1>0, <2>2, <2>3, <2>6, <2>7 DEF Senders
<1>4. CASE BWriteOut
  <2>1. UNCHANGED <<rendezvous, a, sent, missing, results, troubles>>
    BY <1>4 DEF BWriteOut
  <2>2. a[replyTo.from] # "idle"
    <3>1. replyTo # NoMsg
      BY <1>4 DEF IInv, FirstLetter, BWriteOut
    <3>2. PICK i \in DOMAIN rendezvous : rendezvous[i] = replyTo
      BY <3>1 DEF IInv, FirstLetter, MayBeFirst
    <3> QED
      BY <1>0, <3>2 DEF Senders
  <2>3. \A x \in Runs : a[x] = "idle" => coming'[x] = coming[x]
    BY <1>4, <2>2 DEF BWriteOut, IInv, TypeOK
  <2> QED
    BY <1>0, <2>1, <2>3 DEF Senders
<1>5. CASE \/ BStart \/ BTake \/ BAnswer \/ BAnswerFails \/ BUnsubscribe \/ BExit \/ BReconnects
           \/ UNCHANGED vars
  <2>1. UNCHANGED <<rendezvous, aVars>> /\ (troubles' = 0 => troubles = 0)
    BY <1>0, <1>5, AgentsAssumption
       DEF BStart, BTake, BAnswer, BAnswerFails, BUnsubscribe, BExit, BReconnects, vars, TypeOK
  <2> QED
    BY <1>0, <2>1 DEF Senders, aVars
<1> QED
  BY <1>1, <1>2, <1>3, <1>4, <1>5 DEF Next, A, B

\* What may be taken for the address may be so later: letters are added behind
\* it, and what is missing stays so.
LEMMA StillFirst ==
  ASSUME TypeOK, NEW r \in Runs, A(r)
  PROVE  /\ \A x : FirstAddressOf(x) => FirstAddressOf(x)'
         /\ \A m \in Letters : MayBeFirst(m) => MayBeFirst(m)'
<1>1. /\ \A i \in DOMAIN rendezvous : i \in DOMAIN rendezvous' /\ rendezvous'[i] = rendezvous[i]
      /\ \A x \in Runs : missing[x] \subseteq missing'[x]
  <2>1. CASE ASend(r)
    <3> DEFINE m == [from |-> r, what |-> sent[r]]
    <3>1. m \in Letters
      BY <2>1 DEF ASend, TypeOK, Letters, Address, Expected
    <3>2. rendezvous' = Append(rendezvous, m) /\ missing' = missing
      BY <2>1 DEF ASend
    <3> HIDE DEF m
    <3> QED
      BY <3>1, <3>2, RendezvousGrows
  <2>2. CASE AReconnects(r)
    BY <2>2 DEF AReconnects, TypeOK
  <2>3. CASE AStart(r) \/ ASubscribe(r) \/ AReceive(r) \/ AEnds(r) \/ AGivesUp(r)
    BY <2>3 DEF AStart, ASubscribe, AReceive, AEnds, AGivesUp
  <2> QED
    BY <2>1, <2>2, <2>3 DEF A
<1>2. \A i \in DOMAIN rendezvous : 1..(i - 1) \subseteq DOMAIN rendezvous
  BY StoredFacts DEF Stored
<1>3. ASSUME NEW x, FirstAddressOf(x) PROVE FirstAddressOf(x)'
  <2>1. PICK i \in DOMAIN rendezvous :
          /\ rendezvous[i] = [from |-> x, what |-> Address]
          /\ \A j \in 1..(i - 1) : rendezvous[j].what # Address
    BY <1>3 DEF FirstAddressOf
  <2>2. \A j \in 1..(i - 1) : rendezvous'[j].what # Address
    BY <1>1, <1>2, <2>1
  <2>3. i \in DOMAIN rendezvous' /\ rendezvous'[i] = [from |-> x, what |-> Address]
    BY <1>1, <2>1
  <2> QED
    BY <2>2, <2>3 DEF FirstAddressOf
<1>4. ASSUME NEW m \in Letters, MayBeFirst(m) PROVE MayBeFirst(m)'
  <2>1. \E i \in DOMAIN rendezvous' : rendezvous'[i] = m
    BY <1>1, <1>4 DEF MayBeFirst
  <2>2. m.what = Address => FirstAddressOf(m.from)'
    BY <1>3, <1>4 DEF MayBeFirst
  <2>3. m.what # Address => Address \in missing'[m.from]
    BY <1>1, <1>4 DEF MayBeFirst, Letters
  <2> QED
    BY <2>1, <2>2, <2>3 DEF MayBeFirst
<1> QED
  BY <1>3, <1>4

\* The first letter ever stored may be taken for the address.
LEMMA FirstStored ==
  ASSUME IInv, NEW r \in Runs, ASend(r), rendezvous = <<>>,
         NEW m \in Letters, m = [from |-> r, what |-> sent[r]]
  PROVE  MayBeFirst(m)'
<1>1. m.from = r /\ m.what = sent[r]
  OBVIOUS
<1>2. rendezvous' = Append(rendezvous, m) /\ missing' = missing
  BY DEF ASend
<1>3. sent[r] \in Nat /\ Len(rendezvous) = 0 /\ DOMAIN rendezvous = {}
  BY SentFacts, NoLetters DEF IInv
<1>4. DOMAIN rendezvous' = {1} /\ rendezvous'[1] = m
  BY <1>1, <1>2, <1>3, RendezvousGrows DEF IInv
<1>5. m.what = Address => FirstAddressOf(m.from)'
  <2>1. SUFFICES ASSUME m.what = Address PROVE FirstAddressOf(m.from)'
    OBVIOUS
  <2>2. m = [from |-> m.from, what |-> Address]
    BY <1>1, <2>1
  <2>3. \A j \in 1..(1 - 1) : rendezvous'[j].what # Address
    OBVIOUS
  <2> QED
    BY <1>4, <2>2, <2>3 DEF FirstAddressOf
<1>6. m.what # Address => Address \in missing'[m.from]
  BY <1>1, <1>2, <1>3 DEF IInv, Senders, Address
<1> QED
  BY <1>4, <1>5, <1>6 DEF MayBeFirst

\* What a replay begins with may be taken for the address: addresses come before
\* the tasks that were stored behind them.
LEMMA ReplayedFirst ==
  ASSUME IInv, rendezvous # <<>>
  PROVE  Replay \in Seq(Letters) /\ Replay # <<>> /\ MayBeFirst(Head(Replay))
<1>1. Replay \in Seq(Letters) /\ Replay # <<>>
  BY ReplayHead DEF IInv
<1>2. PICK i \in Stored : Head(Replay) = rendezvous[i] /\ \A j \in Stored : ~GoesBefore(j, i)
  BY ReplayHead DEF IInv
<1> DEFINE m == rendezvous[i]
<1>3. /\ m \in Letters /\ m.what \in 0..3 /\ m.from \in Runs
      /\ m = [from |-> m.from, what |-> m.what]
  <2>1. m \in Letters
    BY StoredFacts DEF IInv
  <2> QED
    BY <2>1 DEF Letters, Address, Expected
<1>4. Stored = 1..Len(rendezvous) /\ Len(rendezvous) \in Nat
  BY StoredFacts DEF IInv
<1>5. ASSUME NEW j \in Stored, rendezvous[j].what = Address, j # i PROVE i < j
  <2>1. rendezvous[j] \in Letters /\ RankOf(rendezvous[j]) = 1
    <3>1. rendezvous[j] \in Letters
      BY StoredFacts DEF IInv
    <3> QED
      BY <1>5, <3>1, RankFacts DEF Address
  <2>2. RankOf(m) \in Nat /\ RankOf(m) >= 1
    BY StoredFacts DEF IInv
  <2>3. ~(RankOf(rendezvous[j]) < RankOf(m) \/ (RankOf(rendezvous[j]) = RankOf(m) /\ j < i))
    BY <1>2 DEF GoesBefore
  <2> QED
    BY <1>4, <1>5, <2>1, <2>2, <2>3
<1>6. ASSUME m.what = Address PROVE FirstAddressOf(m.from)
  <2>1. \A j \in 1..(i - 1) : j \in Stored /\ j # i /\ ~(i < j)
    BY <1>4
  <2>2. \A j \in 1..(i - 1) : rendezvous[j].what # Address
    BY <1>5, <2>1
  <2> QED
    BY <1>3, <1>6, <2>2 DEF FirstAddressOf, Stored
<1>7. ASSUME m.what # Address PROVE Address \in missing[m.from]
  <2>1. SUFFICES ASSUME NEW j \in 1..i, rendezvous[j] = [from |-> m.from, what |-> Address]
                 PROVE  FALSE
    BY DEF IInv, Senders, Stored
  <2>2. rendezvous[j].what = Address /\ j \in Stored /\ j # i /\ ~(i < j)
    BY <1>4, <1>7, <2>1
  <2> QED
    BY <1>5, <2>2
<1> HIDE DEF m
<1>8. MayBeFirst(m)
  BY <1>6, <1>7 DEF MayBeFirst, Stored, m
<1> QED
  BY <1>1, <1>2, <1>8 DEF m

LEMMA FirstLetterStep ==
  ASSUME IInv, [Next]_vars
  PROVE  FirstLetter'
<1>0. FirstLetter /\ TypeOK
  BY DEF IInv
<1>1. ASSUME NEW r \in Runs, ASend(r) PROVE FirstLetter'
  <2>1. PICK m \in Letters : m = [from |-> r, what |-> sent[r]]
    BY <1>0, <1>1 DEF ASend, TypeOK, Letters, Address, Expected
  <2>2. /\ rendezvous' = Append(rendezvous, m)
        /\ buffer' = IF b = "waiting" THEN Append(buffer, m) ELSE buffer
        /\ UNCHANGED <<answers, b, cur, replyTo, processed, outbox>>
    BY <1>1, <2>1 DEF ASend, BListens
  <2>3. rendezvous = <<>> => MayBeFirst(m)'
    BY <1>1, <2>1, FirstStored
  <2>4. /\ \A x : FirstAddressOf(x) => FirstAddressOf(x)'
        /\ \A x \in Letters : MayBeFirst(x) => MayBeFirst(x)'
    BY <1>0, <1>1, StillFirst DEF A
  <2>5. ASSUME b = "waiting", replyTo = NoMsg
        PROVE  buffer' # <<>> /\ MayBeFirst(Head(buffer))'
    <3>1. /\ buffer \in Seq(Letters) /\ buffer' = Append(buffer, m)
          /\ buffer' # <<>> /\ buffer' \in Seq(Letters) /\ Len(buffer) \in Nat
          /\ \A i \in 1..Len(buffer) : buffer'[i] = buffer[i]
          /\ buffer'[Len(buffer) + 1] = m
      BY <1>0, <2>1, <2>2, <2>5, AppendLetter DEF TypeOK
    <3>2. Head(buffer') = buffer'[1]
      BY <3>1, HeadOfQueue
    <3>3. CASE buffer = <<>>
      <4>1. rendezvous = <<>> /\ Len(buffer) + 1 = 1
        BY <1>0, <2>5, <3>3, NoLetters DEF FirstLetter
      <4>2. Head(buffer') = m
        BY <3>1, <3>2, <4>1
      <4> QED
        BY <2>3, <3>1, <4>1, <4>2
    <3>4. CASE buffer # <<>>
      <4>1. MayBeFirst(Head(buffer))
        BY <1>0, <2>5, <3>4 DEF FirstLetter
      <4>2. Head(buffer) = buffer[1] /\ 1 \in 1..Len(buffer) /\ Head(buffer) \in Letters
        BY <3>1, <3>4, HeadOfQueue
      <4>3. \A x \in Letters : x = Head(buffer) => MayBeFirst(x)'
        BY <2>4, <4>1
      <4>4. Head(buffer') = Head(buffer)
        BY <3>1, <3>2, <4>2
      <4> QED
        BY <3>1, <4>2, <4>3, <4>4
    <3> QED
      BY <3>3, <3>4
  <2>6. replyTo # NoMsg => MayBeFirst(replyTo)'
    BY <1>0, <2>2, <2>4 DEF FirstLetter, TypeOK
  <2> QED
    BY <1>0, <2>2, <2>4, <2>5, <2>6 DEF FirstLetter
<1>2. ASSUME NEW r \in Runs,
             AStart(r) \/ ASubscribe(r) \/ AReceive(r) \/ AEnds(r) \/ AGivesUp(r) \/ AReconnects(r)
      PROVE  FirstLetter'
  <2>1. UNCHANGED <<rendezvous, answers, bVars>>
    BY <1>2 DEF AStart, ASubscribe, AReceive, AEnds, AGivesUp, AReconnects
  <2>2. /\ \A x : FirstAddressOf(x) => FirstAddressOf(x)'
        /\ \A x \in Letters : MayBeFirst(x) => MayBeFirst(x)'
    BY <1>0, <1>2, StillFirst DEF A
  <2>3. buffer # <<>> => Head(buffer) \in Letters
    BY <1>0, HeadOfQueue DEF TypeOK
  <2> QED
    BY <1>0, <2>1, <2>2, <2>3 DEF FirstLetter, TypeOK, bVars
<1>3. rendezvous # <<>> => Replay \in Seq(Letters) /\ Replay # <<>> /\ MayBeFirst(Head(Replay))
  BY ReplayedFirst
<1>4. ASSUME rendezvous = <<>> PROVE Replay = <<>>
  <2>1. Replay \in Seq(Letters) /\ Len(Replay) = 0
    BY <1>0, <1>4, ReplayFacts, NoLetters
  <2> QED
    BY <2>1, EmptySeq
<1>5. CASE BStart
  <2>1. /\ buffer' = Replay /\ cur' = NoMsg /\ replyTo' = NoMsg /\ processed' = 0 /\ outbox' = <<>>
        /\ UNCHANGED <<rendezvous, answers, missing>>
    BY <1>5 DEF BStart, aVars
  <2> QED
    BY <1>0, <1>3, <1>4, <2>1 DEF FirstLetter, MayBeFirst, FirstAddressOf
<1>6. CASE BTake
  <2>1. /\ b = "waiting" /\ buffer # <<>> /\ cur = NoMsg
        /\ UNCHANGED <<rendezvous, answers, missing, b, processed, outbox>>
    BY <1>6 DEF BTake, BListens, aVars
  <2>2. Head(buffer) # NoMsg
    BY <1>0, <2>1, HeadOfQueue, NoMsgIsNone DEF TypeOK
  <2>3. CASE replyTo = NoMsg
    <3>1. MayBeFirst(Head(buffer))
      BY <1>0, <2>1, <2>3 DEF FirstLetter
    <3>2. replyTo' = Head(buffer) /\ cur' = cur
      BY <1>6, <2>3 DEF BTake
    <3> QED
      BY <1>0, <2>1, <2>2, <3>1, <3>2 DEF FirstLetter, MayBeFirst, FirstAddressOf
  <2>4. CASE replyTo # NoMsg
    <3>1. replyTo' = replyTo
      BY <1>6, <2>4 DEF BTake
    <3> QED
      BY <1>0, <2>1, <2>4, <3>1 DEF FirstLetter, MayBeFirst, FirstAddressOf
  <2> QED
    BY <2>3, <2>4
<1>7. CASE BAnswer
  <2>1. /\ UNCHANGED <<rendezvous, answers, missing, buffer, replyTo>> /\ cur # NoMsg
        /\ b' \in {b, "panicked"}
    BY <1>7 DEF BAnswer, aVars
  <2> QED
    BY <1>0, <2>1 DEF FirstLetter, MayBeFirst, FirstAddressOf
<1>8. CASE BAnswerFails
  BY <1>0, <1>8 DEF BAnswerFails, FirstLetter, MayBeFirst, FirstAddressOf, aVars
<1>9. CASE BWriteOut
  <2>1. /\ UNCHANGED <<rendezvous, missing, b, buffer, cur, replyTo, processed>> /\ outbox # <<>>
        /\ \A x \in Runs : x # replyTo.from \/ replyTo.what # Address => answers'[x] = answers[x]
    BY <1>0, <1>9 DEF BWriteOut, TypeOK
  <2>2. replyTo # NoMsg /\ MayBeFirst(replyTo)
    BY <1>0, <2>1 DEF FirstLetter
  <2>3. replyTo.what = Address => FirstAddressOf(replyTo.from)
    BY <2>2 DEF MayBeFirst
  <2>4. \A x \in Runs : answers'[x] # <<>> => FirstAddressOf(x)
    BY <1>0, <2>1, <2>3 DEF FirstLetter
  <2> QED
    BY <1>0, <2>1, <2>2, <2>4 DEF FirstLetter, MayBeFirst, FirstAddressOf
<1>10. CASE BUnsubscribe \/ BExit
  BY <1>0, <1>10 DEF BUnsubscribe, BExit, FirstLetter, MayBeFirst, FirstAddressOf, aVars
<1>11. CASE BReconnects
  <2>1. /\ UNCHANGED <<rendezvous, answers, missing, b, cur, replyTo, processed>>
        /\ buffer' = IF b = "waiting" THEN buffer \o Replay ELSE buffer
        /\ outbox' # <<>> => outbox # <<>>
    <3>1. outbox = <<>> => outbox' = <<>>
      <4>1. SUFFICES ASSUME outbox = <<>> PROVE outbox' = <<>>
        OBVIOUS
      <4>2. PICK k \in 0..Len(outbox) : outbox' = SubSeq(outbox, k + 1, Len(outbox))
        BY <1>11 DEF BReconnects
      <4>3. Len(outbox) = 0
        BY <4>1, NoLetters
      <4>4. k + 1 = 1
        BY <4>2, <4>3
      <4> QED
        BY <4>2, <4>3, <4>4, SubSeqEmpty
    <3> QED
      BY <1>11, <3>1 DEF BReconnects, BListens, aVars
  <2>2. ASSUME replyTo = NoMsg, b = "waiting"
        PROVE  IF buffer' = <<>> THEN rendezvous = <<>> ELSE MayBeFirst(Head(buffer'))
    <3>1. CASE buffer = <<>>
      <4>1. rendezvous = <<>>
        BY <1>0, <2>1, <2>2, <3>1 DEF FirstLetter
      <4>2. buffer' = <<>>
        BY <1>4, <2>1, <2>2, <3>1, <4>1, ConcatEmptySeq, NoLetters
      <4> QED
        BY <4>1, <4>2
    <3>2. CASE buffer # <<>>
      <4>1. MayBeFirst(Head(buffer))
        BY <1>0, <2>1, <2>2, <3>2 DEF FirstLetter
      <4>2. buffer \in Seq(Letters) /\ Replay \in Seq(Letters)
        BY <1>0, ReplayFacts DEF TypeOK
      <4>3. Head(buffer) = buffer[1] /\ Len(buffer) \in Nat /\ Len(buffer) > 0
        BY <3>2, <4>2, HeadOfQueue
      <4>4. /\ buffer \o Replay \in Seq(Letters)
            /\ Len(buffer \o Replay) = Len(buffer) + Len(Replay) /\ Len(Replay) \in Nat
            /\ (buffer \o Replay)[1] = buffer[1]
        <5>1. 1 \in 1..(Len(buffer) + Len(Replay)) /\ 1 <= Len(buffer) /\ Len(Replay) \in Nat
          BY <4>2, <4>3, LenProperties
        <5> QED
          BY <4>2, <5>1, ConcatProperties
      <4>5. buffer \o Replay # <<>>
        BY <4>3, <4>4, NoLetters
      <4>6. Head(buffer \o Replay) = (buffer \o Replay)[1]
        BY <4>4, <4>5, HeadOfQueue
      <4>7. buffer' = buffer \o Replay /\ Head(buffer') = Head(buffer)
        BY <2>1, <2>2, <4>3, <4>4, <4>6
      <4> QED
        BY <4>1, <4>5, <4>7
    <3> QED
      BY <3>1, <3>2
  <2> QED
    BY <1>0, <2>1, <2>2 DEF FirstLetter, MayBeFirst, FirstAddressOf
<1>12. CASE UNCHANGED vars
  BY <1>0, <1>12 DEF vars, aVars, bVars, FirstLetter, MayBeFirst, FirstAddressOf
<1> QED
  BY <1>1, <1>2, <1>5, <1>6, <1>7, <1>8, <1>9, <1>10, <1>11, <1>12 DEF Next, A, B

LEMMA InitIInv == Init => IInv
  BY InitTypeOK, NoLetters DEF IInv, Init, Senders, FirstLetter

LEMMA StepIInv == IInv /\ [Next]_vars => IInv'
<1> SUFFICES ASSUME IInv, [Next]_vars PROVE IInv'
  OBVIOUS
<1>1. TypeOK'
  <2>1. CASE UNCHANGED vars
    BY <2>1 DEF IInv, TypeOK, vars, aVars, bVars
  <2> QED
    BY <2>1, StepTypeOKA, StepTypeOKB DEF Next, IInv
<1> QED
  BY <1>1, SendersStep, FirstLetterStep DEF IInv

LEMMA Invariance == Spec => []IInv
  BY InitIInv, StepIInv, PTL DEF Spec

\* The variables keep their shape.
THEOREM TypeCorrect == Spec => []TypeOK
<1>1. IInv => TypeOK
  BY DEF IInv
<1> QED
  BY <1>1, Invariance, PTL

\* B takes a task for the address it answers to only if a lost connection took
\* the address of that very run of A: restarts, replays and other runs of A
\* cannot make it.
THEOREM NoTaskIsTheAddress == Spec => []AddressFirst
<1>1. IInv => AddressFirst
  BY DEF IInv, FirstLetter, MayBeFirst, AddressFirst
<1> QED
  BY <1>1, Invariance, PTL

\* As long as the rendezvous keeps its letters, only the run of A whose address
\* came first is ever answered, whatever the lost connections took.
THEOREM OnlyFirstIsAnswered == Spec => []FirstIsAnswered
<1>1. IInv => FirstIsAnswered
  BY DEF IInv, FirstLetter, FirstIsAnswered
<1> QED
  BY <1>1, Invariance, PTL

(***************************************************************************)
(* The inductive invariant, undisturbed: how far A and B have got.         *)
(***************************************************************************)

Started == {r \in Runs : a[r] # "idle"}

\* The letters of q are those which r has numbered n + 1 and so on.
Numbered(q, r, n) == \A i \in DOMAIN q : q[i] = [from |-> r, what |-> n + i]

\* How many letters B has taken.
Taken ==
  (IF replyTo = NoMsg THEN 0 ELSE 1) + processed + (IF cur = NoMsg THEN 0 ELSE 1)

\* B has taken, or has before it, all that is stored.
AllTaken ==
  /\ Taken <= Len(rendezvous)
  /\ b = "new" => Taken = 0
  /\ b = "waiting" => Taken + Len(buffer) = Len(rendezvous)

Counted == (done => processed >= Expected) /\ b # "panicked"

\* What is stored is what r has sent; B takes it in this order.
SentInOrder(r) ==
  /\ Len(rendezvous) = sent[r] /\ Numbered(rendezvous, r, -1)
  /\ b = "waiting" => Numbered(buffer, r, Taken - 1)
  /\ cur # NoMsg => cur = [from |-> r, what |-> Taken - 1]

\* The answers are those B has counted.
AnsweredInOrder(r) ==
  /\ Len(answers[r]) + Len(outbox) = processed
  /\ Numbered(answers[r], r, 0)
  /\ Numbered(outbox, r, Len(answers[r]))

\* What r has collected is the first part of them.
CollectedInOrder(r) ==
  /\ Len(results[r]) <= Len(answers[r]) /\ Numbered(results[r], r, 0)
  /\ a[r] = "sending" => results[r] = <<>>
  /\ a[r] = "waiting" =>
       /\ Len(results[r]) + Len(coming[r]) = Len(answers[r])
       /\ Numbered(coming[r], r, Len(results[r]))
  /\ a[r] = "done" => Len(results[r]) >= Expected

InOrder ==
  /\ AllTaken /\ Counted
  /\ \A r \in Started : SentInOrder(r) /\ AnsweredInOrder(r) /\ CollectedInOrder(r)

UInv == IsFiniteSet(Started) /\ (Undisturbed => InOrder)

(***************************************************************************)
(* Numbered letters in queues.                                             *)
(***************************************************************************)

LEMMA NoneNumbered == \A r, n : Numbered(<<>>, r, n)
  BY DEF Numbered

LEMMA NumberedMore ==
  ASSUME NEW q \in Seq(Letters), NEW m \in Letters, NEW r, NEW n \in Int,
         Numbered(q, r, n), m = [from |-> r, what |-> n + Len(q) + 1]
  PROVE  Numbered(Append(q, m), r, n) /\ Len(Append(q, m)) = Len(q) + 1
<1>1. /\ Len(q) \in Nat /\ DOMAIN q = 1..Len(q) /\ DOMAIN Append(q, m) = 1..(Len(q) + 1)
      /\ \A i \in 1..Len(q) : Append(q, m)[i] = q[i]
      /\ Append(q, m)[Len(q) + 1] = m /\ Len(Append(q, m)) = Len(q) + 1
  BY AppendLetter
<1>2. n + Len(q) + 1 = n + (Len(q) + 1)
  BY <1>1
<1>3. ASSUME NEW i \in DOMAIN Append(q, m)
      PROVE  Append(q, m)[i] = [from |-> r, what |-> n + i]
  <2>1. CASE i = Len(q) + 1
    BY <1>1, <1>2, <2>1
  <2>2. CASE i # Len(q) + 1
    <3>1. i \in DOMAIN q /\ Append(q, m)[i] = q[i]
      BY <1>1, <2>2
    <3> QED
      BY <3>1 DEF Numbered
  <2> QED
    BY <2>1, <2>2
<1> QED
  BY <1>1, <1>3 DEF Numbered

LEMMA NumberedLess ==
  ASSUME NEW q \in Seq(Letters), q # <<>>, NEW r, NEW n \in Int, Numbered(q, r, n)
  PROVE  /\ Head(q) = [from |-> r, what |-> n + 1]
         /\ Numbered(Tail(q), r, n + 1) /\ Len(Tail(q)) = Len(q) - 1 /\ Len(q) \in Nat
         /\ Len(q) > 0
<1>1. /\ Head(q) = q[1] /\ Len(q) \in Nat /\ Len(q) > 0
      /\ Tail(q) \in Seq(Letters) /\ Len(Tail(q)) = Len(q) - 1
      /\ \A i \in 1..(Len(q) - 1) : Tail(q)[i] = q[i + 1]
  BY HeadOfQueue
<1>2. DOMAIN q = 1..Len(q) /\ DOMAIN Tail(q) = 1..(Len(q) - 1)
  BY <1>1, LenProperties
<1>3. ASSUME NEW i \in DOMAIN Tail(q)
      PROVE  Tail(q)[i] = [from |-> r, what |-> n + 1 + i]
  <2>1. i + 1 \in DOMAIN q /\ Tail(q)[i] = q[i + 1] /\ n + (i + 1) = n + 1 + i
    BY <1>1, <1>2
  <2>2. q[i + 1] = [from |-> r, what |-> n + (i + 1)]
    BY <2>1 DEF Numbered
  <2> QED
    BY <2>1, <2>2
<1>4. 1 \in DOMAIN q
  BY <1>1, <1>2
<1> QED
  BY <1>1, <1>3, <1>4 DEF Numbered

(***************************************************************************)
(* One run of A at most, and one start of B.                               *)
(***************************************************************************)

LEMMA OnlyOne ==
  ASSUME NEW S, IsFiniteSet(S), Cardinality(S) <= 1, NEW r \in S, NEW s \in S
  PROVE  r = s
<1>1. SUFFICES ASSUME r # s PROVE FALSE
  OBVIOUS
<1>2. Cardinality(S) \in Nat
  BY FS_CardinalityType
<1>3. {r, s} \subseteq S
  OBVIOUS
<1>4. Cardinality({r, s}) <= Cardinality(S)
  BY <1>3, FS_Subset
<1>5. Cardinality({r, s}) = 2
  <2>1. IsFiniteSet({r}) /\ Cardinality({r}) = 1
    BY FS_Singleton
  <2>2. Cardinality({r} \cup {s}) = Cardinality({r}) + 1
    BY <1>1, <2>1, FS_AddElement
  <2>3. {r} \cup {s} = {r, s}
    OBVIOUS
  <2> QED
    BY <2>1, <2>2, <2>3
<1> QED
  BY <1>2, <1>4, <1>5

\* A run, once started, stays so.
LEMMA StartedStep ==
  ASSUME TypeOK, [Next]_vars
  PROVE  /\ Started \subseteq Started'
         /\ \E r : Started' \subseteq Started \cup {r}
         /\ troubles' >= troubles
<1>1. CASE \E r \in Runs : A(r)
  <2>1. PICK r \in Runs : A(r)
    BY <1>1
  <2>2. /\ \A x \in Runs : x # r => a'[x] = a[x]
        /\ a[r] # "idle" => a'[r] # "idle"
    BY <2>1 DEF A, AStart, ASend, ASubscribe, AReceive, AEnds, AGivesUp, AReconnects, TypeOK
  <2>3. troubles' >= troubles
    BY <2>1, AgentsAssumption
       DEF A, AStart, ASend, ASubscribe, AReceive, AEnds, AGivesUp, AReconnects, TypeOK
  <2> QED
    BY <2>2, <2>3 DEF Started
<1>2. CASE B
  <2>1. a' = a
    BY <1>2 DEF B, BStart, BTake, BAnswer, BAnswerFails, BWriteOut, BUnsubscribe, BExit,
                BReconnects, aVars
  <2>2. troubles' >= troubles
    BY <1>2, AgentsAssumption
       DEF B, BStart, BTake, BAnswer, BAnswerFails, BWriteOut, BUnsubscribe, BExit,
           BReconnects, TypeOK
  <2> QED
    BY <2>1, <2>2 DEF Started
<1>3. CASE UNCHANGED vars
  BY <1>3, AgentsAssumption DEF vars, aVars, Started, TypeOK
<1> QED
  BY <1>1, <1>2, <1>3 DEF Next

LEMMA UndisturbedBefore ==
  ASSUME TypeOK, IsFiniteSet(Started), [Next]_vars
  PROVE  IsFiniteSet(Started') /\ (TypeOK' /\ Undisturbed' => Undisturbed /\ troubles' = troubles)
<1>1. IsFiniteSet(Started')
  <2>1. PICK r : Started' \subseteq Started \cup {r}
    BY StartedStep
  <2>2. IsFiniteSet(Started \cup {r})
    BY FS_AddElement
  <2> QED
    BY <2>1, <2>2, FS_Subset
<1>2. ASSUME Undisturbed' PROVE Undisturbed /\ troubles' = troubles
  <2>1. Cardinality(Started') <= 1 /\ troubles' = 0
    BY <1>2 DEF Undisturbed, Started
  <2>2. Cardinality(Started) <= Cardinality(Started') /\ Cardinality(Started) \in Nat
        /\ Cardinality(Started') \in Nat
    BY <1>1, StartedStep, FS_Subset, FS_CardinalityType
  <2>3. Cardinality(Started) <= 1
    BY <2>1, <2>2
  <2>4. troubles = 0
    BY <2>1, StartedStep, AgentsAssumption DEF TypeOK
  <2> QED
    BY <2>1, <2>3, <2>4 DEF Undisturbed, Started
<1> QED
  BY <1>1, <1>2

(***************************************************************************)
(* Undisturbed, every step keeps the order.                                *)
(***************************************************************************)

LEMMA TakenFacts ==
  ASSUME TypeOK
  PROVE  /\ Taken \in Nat /\ processed \in Nat /\ processed <= Taken
         /\ Len(rendezvous) \in Nat /\ Len(buffer) \in Nat /\ Len(outbox) \in Nat
         /\ \A r \in Runs : /\ Len(answers[r]) \in Nat /\ Len(results[r]) \in Nat
                            /\ Len(coming[r]) \in Nat
                            /\ answers[r] \in Seq(Letters) /\ results[r] \in Seq(Letters)
                            /\ coming[r] \in Seq(Letters)
<1>1. \A r \in Runs : /\ answers[r] \in Seq(Letters) /\ results[r] \in Seq(Letters)
                      /\ coming[r] \in Seq(Letters)
  BY DEF TypeOK
<1>2. Len(rendezvous) \in Nat /\ Len(buffer) \in Nat /\ Len(outbox) \in Nat
  BY LenProperties DEF TypeOK
<1>3. Taken \in Nat /\ processed \in Nat /\ processed <= Taken
  BY DEF Taken, TypeOK
<1> QED
  BY <1>1, <1>2, <1>3, LenProperties

\* Nothing is stored before a run has started.
LEMMA NothingYet ==
  ASSUME IInv, Started = {}
  PROVE  /\ rendezvous = <<>> /\ replyTo = NoMsg /\ cur = NoMsg /\ outbox = <<>>
         /\ processed = 0 /\ \A r \in Runs : answers[r] = <<>>
<1>1. rendezvous = <<>>
  <2>1. SUFFICES ASSUME rendezvous # <<>> PROVE FALSE
    OBVIOUS
  <2>2. Len(rendezvous) \in Nat /\ Len(rendezvous) # 0 /\ DOMAIN rendezvous = 1..Len(rendezvous)
    BY <2>1, EmptySeq, LenProperties DEF IInv, TypeOK
  <2>3. 1 \in DOMAIN rendezvous
    BY <2>2
  <2>4. rendezvous[1] \in Letters
    BY <2>3, StoredFacts DEF IInv, Stored
  <2>5. rendezvous[1].from \in Runs
    BY <2>4 DEF Letters
  <2> QED
    BY <2>3, <2>5 DEF IInv, Senders, Started
<1> QED
  BY <1>1 DEF IInv, TypeOK, FirstLetter, MayBeFirst, FirstAddressOf

\* What A does.
LEMMA OrderedA ==
  ASSUME IInv, IsFiniteSet(Started), IInv', IsFiniteSet(Started'), Undisturbed, Undisturbed',
         troubles' = troubles, InOrder, NEW r \in Runs, A(r)
  PROVE  InOrder'
<1> USE DEF IInv
<1>1. r \in Started' /\ \A s \in Started' : s = r
  <2>1. a'[r] # "idle"
    BY DEF A, AStart, ASend, ASubscribe, AReceive, AEnds, AGivesUp, AReconnects, TypeOK
  <2>2. r \in Started'
    BY <2>1 DEF Started
  <2>3. ASSUME NEW s \in Started' PROVE s = r
    <3>1. IsFiniteSet(Started)' /\ Undisturbed'
      OBVIOUS
    <3>2. Cardinality(Started') <= 1 /\ Cardinality(Started') \in Nat
      BY <3>1, FS_CardinalityType DEF Undisturbed, Started
    <3> QED
      BY <2>2, <3>2, OnlyOne
  <2> QED
    BY <2>2, <2>3
<1>2. SUFFICES AllTaken' /\ Counted' /\ SentInOrder(r)' /\ AnsweredInOrder(r)' /\ CollectedInOrder(r)'
  BY <1>1 DEF InOrder
<1>3. AllTaken /\ Counted /\ (a[r] # "idle" => SentInOrder(r) /\ AnsweredInOrder(r) /\ CollectedInOrder(r))
  BY DEF InOrder, Started
<1>4. CASE AStart(r)
  <2>1. a[r] = "idle" /\ a'[r] = "sending" /\ UNCHANGED <<rendezvous, answers, sent, coming, results, bVars>>
    BY <1>4 DEF AStart, TypeOK
  <2>2. Started = {}
    <3>1. Started \subseteq Started' /\ r \notin Started
      BY <2>1, StartedStep DEF Next, Started
    <3> QED
      BY <1>1, <3>1
  <2>3. /\ rendezvous = <<>> /\ replyTo = NoMsg /\ cur = NoMsg /\ outbox = <<>>
        /\ processed = 0 /\ answers[r] = <<>>
    BY <2>2, NothingYet
  <2>4. sent[r] = 0 /\ coming[r] = <<>> /\ results[r] = <<>>
    BY <2>1 DEF Senders
  <2>5. b = "waiting" => buffer = <<>>
    <3>1. b = "waiting" => Len(buffer) = 0
      BY <1>3, <2>3, TakenFacts, NoLetters DEF AllTaken
    <3> QED
      BY <3>1, EmptySeq DEF TypeOK
  <2>6. SentInOrder(r)'
    BY <2>1, <2>3, <2>4, <2>5, NoneNumbered, NoLetters DEF SentInOrder, bVars
  <2>7. AnsweredInOrder(r)'
    BY <2>1, <2>3, NoneNumbered, NoLetters DEF AnsweredInOrder, bVars
  <2>8. CollectedInOrder(r)'
    BY <2>1, <2>3, <2>4, NoneNumbered, NoLetters DEF CollectedInOrder
  <2> QED
    BY <1>3, <2>1, <2>6, <2>7, <2>8 DEF AllTaken, Counted, Taken, bVars
<1>5. CASE ASend(r)
  <2> DEFINE m == [from |-> r, what |-> sent[r]]
  <2>1. /\ a[r] = "sending" /\ sent[r] \in Nat /\ rendezvous' = Append(rendezvous, m)
        /\ sent'[r] = sent[r] + 1 /\ m \in Letters
        /\ buffer' = IF b = "waiting" THEN Append(buffer, m) ELSE buffer
        /\ UNCHANGED <<answers, a, coming, results, b, cur, replyTo, processed, done, outbox>>
    BY <1>5 DEF ASend, BListens, TypeOK, Letters, Address, Expected
  <2>2. SentInOrder(r) /\ AnsweredInOrder(r) /\ CollectedInOrder(r)
    BY <1>3, <2>1
  <2>3. sent[r] = Len(rendezvous) /\ Numbered(rendezvous, r, -1)
    BY <2>2 DEF SentInOrder
  <2>4. m = [from |-> r, what |-> -1 + Len(rendezvous) + 1]
    BY <2>1, <2>3
  <2>5. b = "waiting" => Numbered(buffer, r, Taken - 1) /\ m = [from |-> r, what |-> Taken - 1 + Len(buffer) + 1]
    <3>1. b = "waiting" => sent[r] = Taken - 1 + Len(buffer) + 1
      BY <1>3, <2>3, TakenFacts DEF AllTaken
    <3> QED
      BY <2>2, <3>1 DEF SentInOrder
  <2> HIDE DEF m
  <2>6. Numbered(rendezvous', r, -1) /\ Len(rendezvous') = Len(rendezvous) + 1
    BY <2>1, <2>3, <2>4, NumberedMore DEF TypeOK
  <2>7. b = "waiting" => Numbered(buffer', r, Taken - 1) /\ Len(buffer') = Len(buffer) + 1
    <3>1. Taken - 1 \in Int
      BY TakenFacts
    <3> QED
      BY <2>1, <2>5, <3>1, NumberedMore DEF TypeOK
  <2>8. Taken' = Taken
    BY <2>1 DEF Taken
  <2>9. SentInOrder(r)'
    BY <2>1, <2>2, <2>3, <2>6, <2>7, <2>8 DEF SentInOrder
  <2>10. AllTaken'
    BY <1>3, <2>1, <2>6, <2>7, <2>8, TakenFacts DEF AllTaken
  <2> QED
    BY <1>3, <2>1, <2>2, <2>9, <2>10 DEF Counted, AnsweredInOrder, CollectedInOrder
<1>6. CASE ASubscribe(r)
  <2>1. /\ a[r] = "sending" /\ a'[r] = "waiting" /\ coming'[r] = answers[r]
        /\ UNCHANGED <<rendezvous, answers, sent, results, bVars>>
    BY <1>6 DEF ASubscribe, TypeOK
  <2>2. SentInOrder(r) /\ AnsweredInOrder(r) /\ CollectedInOrder(r)
    BY <1>3, <2>1
  <2>3. results[r] = <<>> /\ Len(results[r]) = 0 /\ Len(answers[r]) \in Nat
        /\ Numbered(answers[r], r, Len(results[r]))
    BY <2>1, <2>2, TakenFacts, NoLetters DEF CollectedInOrder, AnsweredInOrder
  <2>4. /\ Len(results'[r]) + Len(coming'[r]) = Len(answers'[r])
        /\ Numbered(coming'[r], r, Len(results'[r])) /\ Numbered(results'[r], r, 0)
        /\ Len(results'[r]) <= Len(answers'[r])
    BY <2>1, <2>3, NoneNumbered
  <2>5. CollectedInOrder(r)'
    BY <2>1, <2>4 DEF CollectedInOrder
  <2> QED
    BY <1>3, <2>1, <2>2, <2>5 DEF AllTaken, Taken, Counted, SentInOrder, AnsweredInOrder, bVars
<1>7. CASE AReceive(r)
  <2>1. /\ a[r] = "waiting" /\ coming[r] # <<>> /\ coming'[r] = Tail(coming[r])
        /\ results'[r] = Append(results[r], Head(coming[r]))
        /\ UNCHANGED <<rendezvous, answers, a, sent, bVars>>
    BY <1>7 DEF AReceive, TypeOK
  <2>2. SentInOrder(r) /\ AnsweredInOrder(r) /\ CollectedInOrder(r)
    BY <1>3, <2>1
  <2>3. /\ Len(results[r]) + Len(coming[r]) = Len(answers[r])
        /\ Numbered(coming[r], r, Len(results[r])) /\ Numbered(results[r], r, 0)
    BY <2>1, <2>2 DEF CollectedInOrder
  <2>4. Len(results[r]) \in Int /\ Head(coming[r]) \in Letters
    BY <2>1, TakenFacts, HeadOfQueue
  <2>5. /\ Head(coming[r]) = [from |-> r, what |-> Len(results[r]) + 1]
        /\ Numbered(coming'[r], r, Len(results[r]) + 1) /\ Len(coming'[r]) = Len(coming[r]) - 1
        /\ Len(coming[r]) > 0
    BY <2>1, <2>3, <2>4, TakenFacts, NumberedLess
  <2>6. 0 + Len(results[r]) + 1 = Len(results[r]) + 1
    BY <2>4
  <2>7. Numbered(results'[r], r, 0) /\ Len(results'[r]) = Len(results[r]) + 1
    BY <2>1, <2>3, <2>4, <2>5, <2>6, TakenFacts, NumberedMore
  <2>8. CollectedInOrder(r)'
    <3> DEFINE x == Len(results[r])
               y == Len(coming[r])
               z == Len(answers[r])
    <3>0. /\ x \in Nat /\ y \in Nat /\ z \in Nat /\ x + y = z /\ y > 0
          /\ Len(results'[r]) = x + 1 /\ Len(coming'[r]) = y - 1 /\ Len(answers'[r]) = z
      BY <2>1, <2>3, <2>5, <2>7, TakenFacts
    <3> HIDE DEF x, y, z
    <3>1. /\ Len(results'[r]) + Len(coming'[r]) = Len(answers'[r])
          /\ Len(results'[r]) <= Len(answers'[r])
      BY <3>0
    <3>2. Numbered(coming'[r], r, Len(results'[r]))
      BY <2>5, <2>7
    <3> QED
      BY <2>1, <2>7, <3>1, <3>2 DEF CollectedInOrder
  <2> QED
    BY <1>3, <2>1, <2>2, <2>8 DEF AllTaken, Taken, Counted, SentInOrder, AnsweredInOrder, bVars
<1>8. CASE AEnds(r) \/ AGivesUp(r)
  <2>1. /\ a[r] # "idle" /\ a'[r] \in {"done", "gone"}
        /\ a'[r] = "done" => Len(results[r]) >= Expected
        /\ UNCHANGED <<rendezvous, answers, sent, coming, results, bVars>>
    BY <1>8 DEF AEnds, AGivesUp, TypeOK
  <2>2. SentInOrder(r) /\ AnsweredInOrder(r) /\ CollectedInOrder(r)
    BY <1>3, <2>1
  <2> QED
    BY <1>3, <2>1, <2>2
       DEF AllTaken, Taken, Counted, SentInOrder, AnsweredInOrder, CollectedInOrder, bVars
<1>9. CASE AReconnects(r)
  BY <1>9, AgentsAssumption DEF AReconnects, TypeOK
<1> QED
  BY <1>4, <1>5, <1>6, <1>7, <1>8, <1>9 DEF A

\* What B does.
LEMMA OrderedB ==
  ASSUME IInv, IInv', IsFiniteSet(Started), Undisturbed, troubles' = troubles, InOrder, B
  PROVE  InOrder'
<1> USE DEF IInv
<1>1. /\ AllTaken /\ Counted
      /\ \A r \in Started : r \in Runs /\ SentInOrder(r) /\ AnsweredInOrder(r) /\ CollectedInOrder(r)
  BY DEF InOrder, Started
<1>2. CASE BStart
  <2>1. /\ b = "new" /\ b' = "waiting" /\ buffer' = Replay
        /\ cur' = NoMsg /\ replyTo' = NoMsg /\ processed' = 0 /\ done' = FALSE /\ outbox' = <<>>
        /\ UNCHANGED <<rendezvous, answers, aVars>>
    BY <1>2, AgentsAssumption DEF BStart, TypeOK
  <2>2. Taken = 0 /\ processed = 0 /\ Len(Replay) = Len(rendezvous) /\ Taken' = 0
    BY <1>1, <2>1, TakenFacts, ReplayFacts DEF AllTaken, Taken
  <2>3. AllTaken' /\ Counted'
    BY <2>1, <2>2, TakenFacts DEF AllTaken, Counted
  <2>4. ASSUME NEW r \in Started'
        PROVE  SentInOrder(r)' /\ AnsweredInOrder(r)' /\ CollectedInOrder(r)'
    <3>1. r \in Started
      BY <2>1 DEF Started, aVars
    <3>2. r \in Runs /\ SentInOrder(r) /\ AnsweredInOrder(r) /\ CollectedInOrder(r)
      BY <1>1, <3>1
    <3>3. Replay = rendezvous
      <4>1. \A i \in Stored : rendezvous[i] = [from |-> r, what |-> -1 + i]
        BY <3>2 DEF SentInOrder, Numbered, Stored
      <4>2. \A i \in Stored : -1 + i = i - 1
        BY StoredFacts
      <4> QED
        BY <4>1, <4>2, ReplayOfOneRun
    <3>4. SentInOrder(r)'
      <4>1. Taken' - 1 = -1
        BY <2>2
      <4>2. Numbered(buffer', r, Taken' - 1)
        BY <2>1, <3>2, <3>3, <4>1 DEF SentInOrder
      <4> QED
        BY <2>1, <3>2, <4>2 DEF SentInOrder, aVars
    <3>5. AnsweredInOrder(r)'
      <4>1. Len(answers[r]) = 0
        BY <2>2, <3>2, TakenFacts DEF AnsweredInOrder
      <4> QED
        BY <2>1, <3>2, <4>1, NoneNumbered, NoLetters DEF AnsweredInOrder
    <3>6. CollectedInOrder(r)'
      BY <2>1, <3>2 DEF CollectedInOrder, aVars
    <3> QED
      BY <3>4, <3>5, <3>6
  <2> QED
    BY <2>3, <2>4 DEF InOrder
<1>3. CASE BTake
  <2>1. /\ b = "waiting" /\ cur = NoMsg /\ buffer # <<>> /\ buffer' = Tail(buffer)
        /\ replyTo = NoMsg => replyTo' = Head(buffer) /\ cur' = NoMsg
        /\ replyTo # NoMsg => replyTo' = replyTo /\ cur' = Head(buffer)
        /\ UNCHANGED <<rendezvous, answers, aVars, b, processed, done, outbox>>
    BY <1>3 DEF BTake, BListens
  <2>2. /\ Head(buffer) # NoMsg /\ Len(Tail(buffer)) = Len(buffer) - 1 /\ Len(buffer) > 0
    BY <2>1, HeadOfQueue, NoMsgIsNone DEF TypeOK
  <2>3. Taken' = Taken + 1
    BY <2>1, <2>2, TakenFacts DEF Taken
  <2>4. AllTaken' /\ Counted'
    BY <1>1, <2>1, <2>2, <2>3, TakenFacts DEF AllTaken, Counted
  <2>5. ASSUME NEW r \in Started'
        PROVE  SentInOrder(r)' /\ AnsweredInOrder(r)' /\ CollectedInOrder(r)'
    <3>1. r \in Started
      BY <2>1 DEF Started, aVars
    <3>2. r \in Runs /\ SentInOrder(r) /\ AnsweredInOrder(r) /\ CollectedInOrder(r)
      BY <1>1, <3>1
    <3>3. Head(buffer) = [from |-> r, what |-> Taken - 1 + 1] /\ Numbered(Tail(buffer), r, Taken - 1 + 1)
      <4>1. Taken - 1 \in Int /\ Numbered(buffer, r, Taken - 1)
        BY <2>1, <3>2, TakenFacts DEF SentInOrder
      <4> QED
        BY <2>1, <4>1, NumberedLess DEF TypeOK
    <3>4. Taken - 1 + 1 = Taken' - 1
      BY <2>3, TakenFacts
    <3>5. Head(buffer) = [from |-> r, what |-> Taken' - 1] /\ Numbered(buffer', r, Taken' - 1)
      BY <2>1, <3>3, <3>4
    <3>6. cur' # NoMsg => cur' = Head(buffer)
      BY <2>1
    <3>7. SentInOrder(r)'
      BY <2>1, <3>2, <3>5, <3>6 DEF SentInOrder, aVars
    <3> QED
      BY <2>1, <3>2, <3>7 DEF AnsweredInOrder, CollectedInOrder, aVars
  <2> QED
    BY <2>4, <2>5 DEF InOrder
<1>4. CASE BAnswer
  <2>1. /\ cur # NoMsg /\ cur' = NoMsg /\ outbox' = Append(outbox, cur)
        /\ processed' = processed + 1 /\ done' = (done \/ processed' >= Expected)
        /\ b \in {"waiting", "leaving"}
        /\ b' = IF done /\ processed' >= Expected THEN "panicked" ELSE b
        /\ UNCHANGED <<rendezvous, answers, aVars, buffer, replyTo>>
    BY <1>4 DEF BAnswer, BAlive
  <2>2. replyTo # NoMsg /\ rendezvous # <<>> /\ cur \in Letters
    BY <2>1 DEF FirstLetter, MayBeFirst, TypeOK
  <2>3. Taken = processed + 2 /\ Taken' = Taken
    BY <2>1, <2>2, TakenFacts DEF Taken
  <2>4. b' = b
    <3>1. PICK r \in Started : TRUE
      BY <2>2, NothingYet
    <3>2. Len(rendezvous) = sent[r] /\ sent[r] \in 0..4
      BY <1>1 DEF SentInOrder, TypeOK, Expected
    <3>3. Taken <= 4
      BY <1>1, <3>2, TakenFacts DEF AllTaken
    <3>4. done => processed >= 3
      BY <1>1 DEF Counted, Expected
    <3> QED
      BY <2>1, <2>3, <3>3, <3>4, TakenFacts
  <2>5. AllTaken'
    BY <1>1, <2>1, <2>3, <2>4 DEF AllTaken
  <2>6. Counted'
    <3>1. processed \in Nat /\ processed' = processed + 1
      BY <2>1, TakenFacts
    <3>2. done' => processed' >= Expected
      <4>1. done' => done \/ processed' >= Expected
        BY <2>1
      <4>2. done => processed >= Expected
        BY <1>1 DEF Counted
      <4>3. processed >= Expected => processed' >= Expected
        BY <3>1 DEF Expected
      <4> QED
        BY <4>1, <4>2, <4>3
    <3> QED
      BY <1>1, <2>4, <3>2 DEF Counted
  <2>7. ASSUME NEW r \in Started'
        PROVE  SentInOrder(r)' /\ AnsweredInOrder(r)' /\ CollectedInOrder(r)'
    <3>1. r \in Started
      BY <2>1 DEF Started, aVars
    <3>2. r \in Runs /\ SentInOrder(r) /\ AnsweredInOrder(r) /\ CollectedInOrder(r)
      BY <1>1, <3>1
    <3>3. SentInOrder(r)'
      BY <2>1, <2>3, <2>4, <3>2 DEF SentInOrder, aVars
    <3>4. AnsweredInOrder(r)'
      <4>1. /\ Len(answers[r]) + Len(outbox) = processed /\ Len(outbox) \in Nat
            /\ Numbered(outbox, r, Len(answers[r])) /\ Len(answers[r]) \in Nat
        BY <3>2, TakenFacts DEF AnsweredInOrder
      <4>2. Taken - 1 = Len(answers[r]) + Len(outbox) + 1
        BY <2>3, <4>1, TakenFacts
      <4>3. cur = [from |-> r, what |-> Len(answers[r]) + Len(outbox) + 1]
        BY <2>1, <3>2, <4>2 DEF SentInOrder
      <4>4. Numbered(outbox', r, Len(answers[r])) /\ Len(outbox') = Len(outbox) + 1
        BY <2>1, <2>2, <4>1, <4>3, NumberedMore DEF TypeOK
      <4>5. Len(answers[r]) + Len(outbox') = processed'
        <5> DEFINE x == Len(answers[r])
                   y == Len(outbox)
        <5>1. x \in Nat /\ y \in Nat /\ x + y = processed /\ Len(outbox') = y + 1
              /\ processed' = processed + 1
          BY <2>1, <4>1, <4>4
        <5> HIDE DEF x, y
        <5>2. x + Len(outbox') = processed'
          BY <5>1
        <5> QED
          BY <5>2 DEF x
      <4> QED
        BY <2>1, <3>2, <4>4, <4>5 DEF AnsweredInOrder
    <3> QED
      BY <2>1, <3>2, <3>3, <3>4 DEF CollectedInOrder, aVars
  <2> QED
    BY <2>5, <2>6, <2>7 DEF InOrder
<1>5. CASE BAnswerFails \/ BReconnects
  BY <1>5, AgentsAssumption DEF BAnswerFails, BReconnects, TypeOK
<1>6. CASE BWriteOut
  <2> DEFINE m == Head(outbox)
             to == replyTo.from
  <2>0. replyTo # NoMsg /\ replyTo \in Letters /\ MayBeFirst(replyTo)
    BY <1>6 DEF BWriteOut, FirstLetter, TypeOK
  <2>9. to \in Runs
    BY <2>0 DEF Letters
  <2>10. replyTo.what = Address
    <3>1. missing[to] = {}
      BY <2>9 DEF Undisturbed, Senders
    <3> QED
      BY <2>0, <3>1 DEF MayBeFirst
  <2>1. /\ outbox # <<>> /\ outbox' = Tail(outbox)
        /\ answers' = [answers EXCEPT ![to] = Append(answers[to], m)]
        /\ coming' = [coming EXCEPT ![to] = IF a[to] = "waiting" THEN Append(coming[to], m) ELSE coming[to]]
        /\ UNCHANGED <<rendezvous, a, sent, results, b, buffer, cur, replyTo, processed, done>>
    BY <1>6, <2>9, <2>10 DEF BWriteOut, TypeOK
  <2>2. to \in Started
    <3>1. PICK i \in DOMAIN rendezvous : rendezvous[i] = replyTo
      BY <2>0 DEF MayBeFirst
    <3> QED
      BY <2>9, <3>1 DEF Senders, Started
  <2>3. AllTaken' /\ Counted'
    BY <1>1, <2>1 DEF AllTaken, Taken, Counted
  <2>4. ASSUME NEW r \in Started'
        PROVE  SentInOrder(r)' /\ AnsweredInOrder(r)' /\ CollectedInOrder(r)'
    <3>1. r \in Started
      BY <2>1 DEF Started
    <3>2. r \in Runs /\ SentInOrder(r) /\ AnsweredInOrder(r) /\ CollectedInOrder(r)
      BY <1>1, <3>1
    <3>3. r = to
      BY <2>2, <3>1, OnlyOne DEF Undisturbed, Started
    <3> HIDE DEF to, m
    <3>4. /\ answers'[r] = Append(answers[r], m)
          /\ coming'[r] = IF a[r] = "waiting" THEN Append(coming[r], m) ELSE coming[r]
      BY <2>1, <3>2, <3>3 DEF TypeOK
    <3>5. SentInOrder(r)'
      BY <2>1, <3>2 DEF SentInOrder, Taken
    <3>6. /\ Len(answers[r]) + Len(outbox) = processed
          /\ Len(answers[r]) \in Nat /\ Len(outbox) \in Nat
          /\ Numbered(answers[r], r, 0) /\ Numbered(outbox, r, Len(answers[r]))
      BY <3>2, TakenFacts DEF AnsweredInOrder
    <3>7. /\ m = [from |-> r, what |-> Len(answers[r]) + 1] /\ m \in Letters
          /\ Numbered(outbox', r, Len(answers[r]) + 1)
          /\ Len(outbox') = Len(outbox) - 1 /\ Len(outbox) > 0
      <4>1. outbox \in Seq(Letters) /\ Len(answers[r]) \in Int
        BY <3>6 DEF TypeOK
      <4>2. m \in Letters
        BY <2>1, <4>1, HeadOfQueue DEF m
      <4>3. /\ m = [from |-> r, what |-> Len(answers[r]) + 1]
            /\ Numbered(Tail(outbox), r, Len(answers[r]) + 1)
            /\ Len(Tail(outbox)) = Len(outbox) - 1 /\ Len(outbox) > 0
        BY <2>1, <3>6, <4>1, NumberedLess DEF m
      <4> QED
        BY <2>1, <4>2, <4>3
    <3>8. Numbered(answers'[r], r, 0) /\ Len(answers'[r]) = Len(answers[r]) + 1
      <4>1. 0 + Len(answers[r]) + 1 = Len(answers[r]) + 1
        BY <3>6
      <4> QED
        BY <3>2, <3>4, <3>6, <3>7, <4>1, TakenFacts, NumberedMore
    <3>9. AnsweredInOrder(r)'
      <4>1. Numbered(outbox', r, Len(answers'[r]))
        BY <3>7, <3>8
      <4>2. Len(answers'[r]) + Len(outbox') = processed'
        <5> DEFINE x == Len(answers[r])
                   y == Len(outbox)
        <5>1. /\ x \in Nat /\ y \in Nat /\ x + y = processed /\ processed' = processed
              /\ Len(outbox') = y - 1 /\ Len(answers'[r]) = x + 1
          BY <2>1, <3>6, <3>7, <3>8
        <5> HIDE DEF x, y
        <5> QED
          BY <5>1
      <4> QED
        BY <3>8, <4>1, <4>2 DEF AnsweredInOrder
    <3>10. CollectedInOrder(r)'
      <4>1. Len(results'[r]) <= Len(answers'[r])
        BY <2>1, <3>2, <3>8, TakenFacts DEF CollectedInOrder
      <4>2. ASSUME a[r] = "waiting"
            PROVE  /\ Len(results'[r]) + Len(coming'[r]) = Len(answers'[r])
                   /\ Numbered(coming'[r], r, Len(results'[r]))
        <5>1. /\ Len(results[r]) + Len(coming[r]) = Len(answers[r])
              /\ Numbered(coming[r], r, Len(results[r]))
              /\ coming'[r] = Append(coming[r], m)
          BY <3>2, <3>4, <4>2 DEF CollectedInOrder
        <5>9. Len(results[r]) \in Nat /\ Len(coming[r]) \in Nat /\ coming[r] \in Seq(Letters)
          BY <3>2, TakenFacts
        <5>2. m = [from |-> r, what |-> Len(results[r]) + Len(coming[r]) + 1]
          BY <3>7, <5>1, <5>9
        <5>3. Len(results[r]) \in Int
          BY <5>9
        <5>4. Numbered(coming'[r], r, Len(results[r])) /\ Len(coming'[r]) = Len(coming[r]) + 1
          BY <3>7, <5>1, <5>2, <5>3, <5>9, NumberedMore
        <5>5. results'[r] = results[r]
          BY <2>1
        <5>6. Len(results'[r]) + Len(coming'[r]) = Len(answers'[r])
          <6> DEFINE x == Len(results[r])
                     y == Len(coming[r])
          <6>1. /\ x \in Nat /\ y \in Nat /\ Len(results'[r]) = x /\ Len(coming'[r]) = y + 1
                /\ Len(answers'[r]) = (x + y) + 1
            BY <3>8, <5>1, <5>4, <5>5, <5>9
          <6> HIDE DEF x, y
          <6> QED
            BY <6>1
        <5> QED
          BY <5>4, <5>5, <5>6
      <4> QED
        BY <2>1, <3>2, <4>1, <4>2 DEF CollectedInOrder
    <3> QED
      BY <3>5, <3>9, <3>10
  <2> QED
    BY <2>3, <2>4 DEF InOrder
<1>7. CASE BUnsubscribe \/ BExit
  <2>1. /\ b' \in {"leaving", "off"}
        /\ UNCHANGED <<rendezvous, answers, aVars, cur, replyTo, processed, done, outbox>>
    BY <1>7 DEF BUnsubscribe, BExit
  <2>2. Started' = Started /\ Taken' = Taken
    BY <2>1 DEF Started, Taken, aVars
  <2> QED
    BY <1>1, <2>1, <2>2
       DEF InOrder, AllTaken, Counted, SentInOrder, AnsweredInOrder, CollectedInOrder, aVars
<1> QED
  BY <1>2, <1>3, <1>4, <1>5, <1>6, <1>7 DEF B

LEMMA InitUInv == Init => UInv
<1> SUFFICES ASSUME Init PROVE UInv
  OBVIOUS
<1>1. Started = {}
  BY DEF Init, Started
<1>2. AllTaken /\ Counted
  BY NoLetters DEF Init, AllTaken, Taken, Counted
<1> QED
  BY <1>1, <1>2, FS_EmptySet DEF UInv, InOrder

LEMMA StepUInv == IInv /\ IInv' /\ UInv /\ [Next]_vars => UInv'
<1> SUFFICES ASSUME IInv, IInv', UInv, [Next]_vars PROVE UInv'
  OBVIOUS
<1>1. IsFiniteSet(Started) /\ IsFiniteSet(Started')
  BY UndisturbedBefore DEF IInv, UInv
<1>2. ASSUME Undisturbed' PROVE InOrder'
  <2>1. Undisturbed /\ troubles' = troubles /\ InOrder
    BY <1>1, <1>2, UndisturbedBefore DEF IInv, UInv
  <2>2. CASE UNCHANGED vars
    BY <2>1, <2>2 DEF vars, aVars, bVars, InOrder, Started, AllTaken, Counted, Taken,
                      SentInOrder, AnsweredInOrder, CollectedInOrder
  <2> QED
    BY <1>1, <1>2, <2>1, <2>2, OrderedA, OrderedB DEF Next
<1> QED
  BY <1>1, <1>2 DEF UInv

LEMMA OrderInvariance == Spec => []UInv
  BY InitUInv, StepUInv, Invariance, PTL DEF Spec

\* Undisturbed, the answers are those to the three tasks, in the order in which
\* they were set, each once; and A is done when it has them all.
THEOREM AnswersComeInOrder == Spec => []AnswersInOrder
<1>1. IInv /\ UInv => AnswersInOrder
  <2>1. SUFFICES ASSUME IInv, UInv, Undisturbed, NEW r \in Runs
                 PROVE  /\ Len(results[r]) <= Expected
                        /\ \A i \in DOMAIN results[r] : results[r][i] = [from |-> r, what |-> i]
                        /\ a[r] = "done" => Len(results[r]) = Expected
    BY DEF AnswersInOrder
  <2>2. CASE a[r] = "idle"
    BY <2>1, <2>2, NoLetters DEF IInv, Senders, Expected
  <2>3. CASE a[r] # "idle"
    <3>1. AllTaken /\ SentInOrder(r) /\ AnsweredInOrder(r) /\ CollectedInOrder(r)
      BY <2>1, <2>3 DEF UInv, InOrder, Started
    <3>2. processed <= 3
      <4>1. processed > 0 => Taken >= processed + 1
        BY <2>1 DEF IInv, TypeOK, FirstLetter, Taken
      <4>2. Taken <= 4
        <5>1. sent[r] \in 0..4 /\ TypeOK
          BY <2>1 DEF IInv, TypeOK, Expected
        <5> QED
          BY <3>1, <5>1, TakenFacts DEF AllTaken, SentInOrder
      <4> QED
        BY <2>1, <4>1, <4>2, TakenFacts DEF IInv
    <3>3. Len(results[r]) <= Expected
      BY <2>1, <3>1, <3>2, TakenFacts DEF IInv, AnsweredInOrder, CollectedInOrder, Expected
    <3>4. a[r] = "done" => Len(results[r]) >= Expected
      BY <3>1 DEF CollectedInOrder
    <3>5. Len(results[r]) \in Nat /\ \A i \in DOMAIN results[r] : 0 + i = i
      BY <2>1, TakenFacts, LenProperties DEF IInv
    <3>6. \A i \in DOMAIN results[r] : results[r][i] = [from |-> r, what |-> i]
      BY <3>1, <3>5 DEF CollectedInOrder, Numbered
    <3> QED
      <4>1. a[r] = "done" => Len(results[r]) = Expected
        <5> DEFINE x == Len(results[r])
        <5>1. x \in Nat /\ x <= 3 /\ (a[r] = "done" => x >= 3)
          BY <3>3, <3>4, <3>5 DEF Expected
        <5> HIDE DEF x
        <5>2. a[r] = "done" => x = 3
          BY <5>1
        <5> QED
          BY <5>2 DEF x, Expected
      <4> QED
        BY <3>3, <3>6, <4>1
  <2> QED
    BY <2>2, <2>3
<1> QED
  BY <1>1, Invariance, OrderInvariance, PTL

\* Undisturbed, B does not close its channel twice.
THEOREM ClosesOnce == Spec => []NoPanic
<1>1. UInv => NoPanic
  BY DEF UInv, InOrder, Counted, NoPanic
<1> QED
  BY <1>1, OrderInvariance, PTL
=============================================================================
