---------------------------- MODULE MCLifecycle ----------------------------
(***************************************************************************)
(* Instances of Mq9Lifecycle for TLC.                                      *)
(***************************************************************************)
EXTENDS Mq9Lifecycle

FiveSdks == {"python", "go", "javascript", "java", "csharp"}
=============================================================================
