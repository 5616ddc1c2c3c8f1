----------------------------- MODULE MCRustDemo -----------------------------
(***************************************************************************)
(* An instance of Mq9RustDemo for TLC.                                     *)
(***************************************************************************)
EXTENDS Mq9RustDemo
=============================================================================
