----------------------------- MODULE TaskStates -----------------------------
(***************************************************************************)
(* The task states of src/src/orchestrator/state_machine.py, and what is   *)
(* kept of a task's Redis hash (task_manager.py): its state and its        *)
(* fail_count, the two fields that are read back to decide something.      *)
(***************************************************************************)
EXTENDS Naturals

\* TaskStateMachine.TRANSITIONS.
Transitions == [
    pending      |-> {"in_progress", "failed"},
    in_progress  |-> {"testing", "failed", "blocked_hitl"},
    testing      |-> {"review", "in_progress", "failed"},
    review       |-> {"blocked_hitl", "in_progress", "failed"},
    blocked_hitl |-> {"complete", "in_progress", "failed"},
    complete     |-> {},
    failed       |-> {"pending"}]

States == DOMAIN Transitions

Hash == [state : States \cup {"none"}, fails : Nat]
NoTask == [state |-> "none", fails |-> 0]         \* there is no such hash
NewTask == [state |-> "pending", fails |-> 0]

\* validate_transition does not raise.
CanTransition(from, to) == from \in States /\ to \in Transitions[from]
=============================================================================
