----------------------------- MODULE MCCapture -----------------------------
(* A host that revises a turn before it is processed.                      *)
EXTENDS Capture

Revising ==
    {{[turn |-> 1, role |-> "user", after |-> Absent, says |-> "plain", last |-> 2],
      [turn |-> 1, role |-> "assistant", after |-> "user", says |-> "plain", last |-> 2]}}
=============================================================================
