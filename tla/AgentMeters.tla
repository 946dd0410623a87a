----------------------------- MODULE AgentMeters -----------------------------
(***************************************************************************)
(* Both meters of Chapter 16 beside each other: what a run trips, and what *)
(* its memory and its window are counted as.                               *)
(***************************************************************************)
EXTENDS AgentRuns, MemoryMetrics

MetersSpec == AgentSpec /\ MemorySpec

(* Both: no failure goes unnoticed and no retrieval is told as another.    *)
MetersTell == FailuresClassified /\ RetrievalsTold
=============================================================================
