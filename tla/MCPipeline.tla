----------------------------- MODULE MCPipeline -----------------------------
(***************************************************************************)
(* PacketPipeline for TLC: the processing jobs are interchangeable.        *)
(***************************************************************************)
EXTENDS PacketPipeline, TLC

JobSymmetry == Permutations(Jobs)
=============================================================================
