----------------------------- MODULE MCRequests -----------------------------
(***************************************************************************)
(* An instance of Mq9Requests for TLC.                                     *)
(***************************************************************************)
EXTENDS Mq9Requests, TLC

AllSdks == DOMAIN Verdict

\* What each SDK withstands: the properties fail with any quirk added.
Withstood ==
  [rust |-> AllQuirks, csharp |-> AllQuirks,
   python |-> {"garbage", "no level", "no id"}, java |-> {"garbage", "no level", "no id"},
   go |-> {"garbage", "no level", "null error"},
   javascript |-> {"garbage", "no level", "null error"}]

\* Which call is which, and which message, makes no difference.
Symmetry == Permutations(Calls) \cup Permutations(Msgs)
=============================================================================
