---------------------------- MODULE MCAuditChain ----------------------------
(* Values of the constants of AuditChain for TLC. *)
EXTENDS AuditChain

CONSTANTS s1, s2, s3, alice, bob

OneReplica  == [s \in Sessions |-> 1]
TwoReplicas == [s \in Sessions |-> IF s = s2 THEN 2 ELSE 1]
=============================================================================
