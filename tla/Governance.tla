----------------------------- MODULE Governance -----------------------------
(***************************************************************************)
(* Tasks and their gates together: the outcomes that HITLDispatcher and    *)
(* the Slack bridge publish are the GATE_APPROVED and GATE_REJECTED that   *)
(* the managers handle.  HANDLED_EVENT_TYPES has no GATE_EXPIRED, and      *)
(* nothing in src/ ties the request of a gate to the state of its task:    *)
(* gates may be requested and decided at any time.                         *)
(***************************************************************************)
EXTENDS TaskLifecycle

CONSTANTS Gates, TaskOf, Expiring, Callers, Sweepers, MaxGateCalls, MaxGateAborts

\* A gate is requested for a task (request_gate's task_id).
ASSUME GovernanceAssumption ==
    /\ TaskOf \in [Gates -> Tasks]
    /\ Callers \cap Sweepers = {}
    /\ MaxGateCalls \in Nat /\ MaxGateAborts \in Nat

VARIABLES status, bundles, listed, due, history, audit, published, job,
          known, late, cut, gateCalls, gateAborts,
          slack      \* history: the outcomes that the Slack bridge published

deskVars == <<status, bundles, listed, due, history, audit, published, job,
              known, late, cut, gateCalls, gateAborts>>
gateVars == <<deskVars, slack>>

Gate == INSTANCE HitlGate WITH calls <- gateCalls, aborts <- gateAborts,
                               MaxCalls <- MaxGateCalls, MaxAborts <- MaxGateAborts

GovernedInit == Init /\ Gate!GateInit /\ slack = {}

\* The managers, and the publishers of what is no decision.
TaskStep == /\ Next /\ UNCHANGED gateVars
            /\ \A i \in Len(log) + 1 .. Len(log') : log'[i].kind \notin Gate!Decisions

\* Mutant: managers take whatever is no rejection for an approval.
ForwardedUnlessRejected(e) == <<[kind |-> IF e.what = "rejected" THEN "rejected" ELSE "approved", task |-> TaskOf[e.gate], variant |-> "bare"]>>

\* An outcome as the managers' group sees it: no decision names an epic.
Forwarded(e) == IF e.what \in Gate!Decisions
                THEN <<[kind |-> e.what, task |-> TaskOf[e.gate], variant |-> "bare"]>> ELSE <<>>

GateStep ==
    /\ Gate!GateNext
    /\ IF published' = published THEN UNCHANGED log
       ELSE \E e \in published' \ published : log' = log \o Forwarded(e)
    /\ UNCHANGED <<slack, hash, cursor, acked, jobs, committed, histVars, envVars>>

\* handle_approval or handle_rejection publishes a decision on a gate that was
\* requested, and writes it neither to the gate's record nor to its log: what the
\* bridge keeps of its own, and how often it decides, is SlackGate's.
SlackDecides(g, what) ==
    /\ \E e \in published : e.gate = g /\ e.what = "requested"
    /\ Len(log) < MaxEvents
    /\ log' = log \o Forwarded([gate |-> g, what |-> what])
    /\ slack' = slack \cup {[gate |-> g, what |-> what]}
    /\ UNCHANGED <<deskVars, hash, cursor, acked, jobs, committed, histVars, envVars>>

GovernedNext == \/ TaskStep \/ GateStep
                \/ \E g \in Gates, what \in Gate!Decisions : SlackDecides(g, what)

GovernedSpec == GovernedInit /\ [][GovernedNext]_<<vars, gateVars>>

-----------------------------------------------------------------------------
(* Properties.                                                             *)

\* No task is completed without an approval of one of its gates, whatever is
\* aborted, delivered twice or decided by several reviewers at once: one that is in
\* the task's log and in the audit trail, or one of a reviewer in Slack
\* (_handle_gate_approved).
CompletedWasApproved ==
    \A t \in Tasks : hash[t].state = "complete" =>
        \E e \in (history \cap audit) \cup slack : e.what = "approved" /\ TaskOf[e.gate] = t

\* The same where others publish approvals as well, as long as no gate is used
\* (a study of the managers alone does).
GovernedCompletion == gateCalls > 0 => CompletedWasApproved
=============================================================================
