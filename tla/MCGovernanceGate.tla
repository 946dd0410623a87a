-------------------------- MODULE MCGovernanceGate --------------------------
(* Small instances of GovernanceGate for TLC.                              *)
EXTENDS GovernanceGate, TLC

CONSTANTS g1, c1, editor, nobody
=============================================================================
