---------------------------- MODULE MCPipeline ----------------------------
(***************************************************************************)
(* Pipeline for TLC: the cfg gives a pool small enough to run dry.         *)
(***************************************************************************)
EXTENDS Pipeline
=============================================================================
