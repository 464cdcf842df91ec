---------------------------- MODULE MCLiveness -----------------------------
(***************************************************************************)
(* WiredLiveness for TLC, with the small sets of MCWired.                  *)
(***************************************************************************)
EXTENDS WiredLiveness, MCWired
=============================================================================
