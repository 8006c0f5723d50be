----------------------------- MODULE MCFlowMap -----------------------------
(* Instances of FlowMap for TLC, without the agent. *)
EXTENDS FlowMap

CONSTANTS k1, k2, c1, c2, s1, s2, s3, fin, ack

MCOneSize == {[f \in Fields |-> 1]}
=============================================================================
