----------------------------- MODULE MCLlmClient -----------------------------
(***************************************************************************)
(* Instances of LlmClient for TLC.                                         *)
(***************************************************************************)
EXTENDS LlmClient
=============================================================================
