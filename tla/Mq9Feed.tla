------------------------------- MODULE Mq9Feed -------------------------------
(***************************************************************************)
(* What a subscription is to the application, whichever SDK it uses: a     *)
(* queue of messages the server adds to and the callback is given, each    *)
(* once and in order, until the subscription is over.  Most that are over  *)
(* are gone, and get nothing more; what others get goes to nobody.         *)
(*                                                                         *)
(* This specification knows of no loops, buffers, tasks or connections.    *)
(* Mq9Subscription, which has those of six SDKs, implements it.            *)
(***************************************************************************)
EXTENDS Naturals, Sequences

CONSTANTS
  Msgs,    \* the messages
  Subs     \* the subscriptions

VARIABLES
  fed,     \* what the server has pushed to each subscription
  taken,   \* what of that its callback was given
  over,    \* the subscriptions that are over: their callbacks get nothing more
  gone     \* those of them the server pushes nothing to any more

feedVars == <<fed, taken, over, gone>>

Begins(p, q) == \E rest \in {SubSeq(q, Len(p) + 1, Len(q))} : q = p \o rest

Init ==
  /\ fed = [s \in Subs |-> <<>>]
  /\ taken = [s \in Subs |-> <<>>]
  /\ over = {}
  /\ gone = {}

\* Messages are added, one or more (a replay) at a time, to any of the
\* subscriptions that are not gone.
Push ==
  /\ fed' \in [Subs -> Seq(Msgs)]
  /\ \A s \in Subs : Begins(fed[s], fed'[s]) /\ (s \in gone => fed'[s] = fed[s])
  /\ UNCHANGED <<taken, over, gone>>

\* The next message of s goes to its callback.
Handle(s) ==
  LET n == Len(taken[s]) + 1
  IN  /\ s \notin over
      /\ n \in DOMAIN fed[s]
      /\ taken' = [taken EXCEPT ![s] = Append(taken[s], fed[s][n])]
      /\ UNCHANGED <<fed, over, gone>>

\* Some subscriptions are over; of what was still in the queue they may have
\* taken the first few.
End ==
  /\ over \subseteq over' /\ over' \subseteq Subs
  /\ gone \subseteq gone' /\ gone' \subseteq over'
  /\ taken' \in [Subs -> Seq(Msgs)]
  /\ \A s \in Subs :
       IF s \in over' \ over
       THEN Begins(taken[s], taken'[s]) /\ Begins(taken'[s], fed[s])
       ELSE taken'[s] = taken[s]
  /\ UNCHANGED fed

Next == Push \/ (\E s \in Subs : Handle(s)) \/ End

\* A message in the queue is handled unless the subscription is over before.
Fairness == \A s \in Subs : WF_feedVars(Handle(s))

Spec == Init /\ [][Next]_feedVars

FairSpec == Spec /\ Fairness
=============================================================================
