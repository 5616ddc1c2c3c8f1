--------------------------- MODULE MCSubscription ---------------------------
(***************************************************************************)
(* Instances of Mq9Subscription for TLC.                                   *)
(***************************************************************************)
EXTENDS Mq9Subscription

CONSTANTS m1, m2, m3

\* m1 and m2 are normal, m3 is urgent; the bytes of m2 are not text.
MCLevelOf == [m \in Msgs |-> IF m = m3 THEN "urgent" ELSE "normal"]
MCBodyOf == [m \in Msgs |-> [kind |-> IF m = m2 THEN "binary" ELSE "text"]]

AllSdks == SDKs
DrainingSdks == {"python", "java"}
RustOnly == {"rust"}
=============================================================================
