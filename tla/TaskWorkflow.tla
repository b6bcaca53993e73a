---------------------------- MODULE TaskWorkflow ----------------------------
(***************************************************************************)
(* What the orchestrator promises about a task, whatever events arrive and *)
(* however often: its state only moves along Transitions, and its          *)
(* fail_count only grows, by one for every failure; except that a          *)
(* TASK_CREATED starts the task over.                                      *)
(***************************************************************************)
EXTENDS TaskStates

CONSTANT Tasks
VARIABLE hash

Init == hash = [t \in Tasks |-> NoTask]

Create(t) == hash' = [hash EXCEPT ![t] = NewTask]

Advance(t, s) == /\ CanTransition(hash[t].state, s)
                 /\ hash' = [hash EXCEPT ![t].state = s]

Fail(t) == /\ hash[t] # NoTask
           /\ hash' = [hash EXCEPT ![t].fails = @ + 1]

Next == \E t \in Tasks : Create(t) \/ Fail(t) \/ \E s \in States : Advance(t, s)

Spec == Init /\ [][Next]_hash
=============================================================================
