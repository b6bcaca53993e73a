----------------------------- MODULE StageGates -----------------------------
(***************************************************************************)
(* The stage coordinators and their gates (workers/agents: discovery,      *)
(* design and deployment coordinators).  A coordinator call runs its       *)
(* agents in order and submits a gate where the stage has one; the caller  *)
(* goes on when the call succeeded, or when the request it was given is    *)
(* approved, and repeats a stage that failed or was rejected.  The three   *)
(* submit methods catch every exception, and a stage whose submission      *)
(* raised goes on as one without a gate.  Nothing under src/ chains the    *)
(* stages: the caller is modelled from the docstrings of the calls.        *)
(***************************************************************************)
EXTENDS Naturals, Sequences

CONSTANTS
    MaxStageCalls,   \* bound: coordinator calls
    MaxStageFaults   \* bound: gate submissions that raise

StageCalls == {"discovery", "design", "planning", "validation", "deployment", "monitoring"}
Steps ==
    [discovery  |-> <<"prd", "acceptance", "hitl1">>,
     design     |-> <<"survey", "architect", "hitl2", "plan", "hitl3">>,
     planning   |-> <<"plan", "hitl3">>,
     validation |-> <<"validate", "security", "hitl5">>,
     deployment |-> <<"release", "deploy", "hitl6", "monitor">>,
     monitoring |-> <<"monitor">>]
\* Gates submitted with request_gate, and those with submit, which HITLDispatcher has not.
RequestGates == {"hitl1", "hitl5", "hitl6"}
SubmitGates == {"hitl2", "hitl3"}

VARIABLES
    stage, pos,  \* the coordinator call made last, and the step it is at (0: it returned)
    skip,        \* its skip_hitl
    outcome,     \* what it returned: succeeded, pending, failed
    held,        \* the request it returned, 0 for none
    requests,    \* the gate and the status of every request stored
    orphans,     \* history: requests stored by a submission that raised
    excused,     \* history: gates that were skipped, or whose submission raised
    planned,     \* history: whether the planner ran in a call that has gates
    stageCalls, stageFaults

stageVars == <<stage, pos, skip, outcome, held, requests, orphans, excused, planned, stageCalls, stageFaults>>

StageInit ==
    /\ stage = "discovery" /\ pos = 0 /\ skip = FALSE /\ outcome = "none" /\ held = 0
    /\ requests = <<>> /\ orphans = {} /\ excused = {} /\ planned = FALSE
    /\ stageCalls = 0 /\ stageFaults = 0

CurrentStep == Steps[stage][pos]
Approved(n) == requests[n].status = "approved"
Asked(g) == {n \in DOMAIN requests : requests[n].gate = g}

\* The caller: which call comes after what the last one returned.
GoesOn == IF held = 0 THEN outcome = "succeeded" ELSE Approved(held)
Repeats == IF held = 0 THEN outcome = "failed" ELSE requests[held].status = "rejected"
After ==
    LET plansNext == stage = "design" /\ outcome = "pending" /\ requests[held].gate = "hitl2" IN
    CASE stage = "discovery" -> "design"
      [] plansNext -> "planning"
      [] stage \in {"design", "planning"} /\ ~plansNext -> "validation"
      [] stage = "validation" -> "deployment"
      [] stage = "deployment" /\ outcome = "pending" -> "monitoring"
      [] OTHER -> "none"

CallStage(next, skips) ==
    /\ pos = 0 /\ stageCalls < MaxStageCalls
    /\ \/ stageCalls = 0 /\ next = "discovery"
       \/ Repeats /\ next = stage
       \/ GoesOn /\ next = After
    /\ next = "monitoring" => ~skips
    /\ stage' = next /\ pos' = 1 /\ skip' = skips
    /\ outcome' = "none" /\ held' = 0
    /\ stageCalls' = stageCalls + 1
    /\ UNCHANGED <<requests, orphans, excused, planned, stageFaults>>

Return(what) == pos' = 0 /\ outcome' = what
GoOn == IF pos = Len(Steps[stage]) THEN Return("succeeded") ELSE pos' = pos + 1 /\ UNCHANGED outcome

\* An agent's result and the artifact loaded from it; each may be missing.
RunAgent ==
    /\ pos # 0 /\ CurrentStep \notin RequestGates \cup SubmitGates \cup {"monitor"}
    /\ GoOn \/ Return("failed")
    /\ planned' = (planned \/ (CurrentStep = "plan" /\ ~skip))
    /\ UNCHANGED <<stage, skip, held, requests, orphans, excused, stageCalls, stageFaults>>

\* A monitor agent without success does not stop a deployment; one that raises does.
RunMonitor ==
    /\ pos # 0 /\ CurrentStep = "monitor"
    /\ GoOn \/ Return("failed")
    /\ UNCHANGED <<stage, skip, held, requests, orphans, excused, planned, stageCalls, stageFaults>>

SkipGate ==
    /\ pos # 0 /\ CurrentStep \in RequestGates \cup SubmitGates /\ skip
    /\ GoOn
    /\ excused' = excused \cup {CurrentStep}
    /\ UNCHANGED <<stage, skip, held, requests, orphans, planned, stageCalls, stageFaults>>

AsksGate == pos # 0 /\ CurrentStep \in RequestGates /\ ~skip
\* Discovery succeeds with its request; the others are pending.
ReturnRequest == Return(IF stage = "discovery" THEN "succeeded" ELSE "pending")

Stored == Append(requests, [gate |-> CurrentStep, status |-> "pending"])

SubmitGate ==
    /\ AsksGate
    /\ requests' = Stored /\ held' = Len(requests')
    /\ ReturnRequest
    /\ UNCHANGED <<stage, skip, orphans, excused, planned, stageCalls, stageFaults>>

\* request_gate raises, before or after the request was stored: no request is returned,
\* and the stage goes on.
SubmitFails ==
    /\ AsksGate /\ stageFaults < MaxStageFaults
    /\ stageFaults' = stageFaults + 1
    /\ \/ UNCHANGED <<requests, orphans>>
       \/ requests' = Stored /\ orphans' = orphans \cup {Len(requests')}
    /\ GoOn
    /\ excused' = excused \cup {CurrentStep}
    /\ UNCHANGED <<stage, skip, held, planned, stageCalls>>

\* _submit_hitl2 and _submit_hitl3: the AttributeError is logged, and None returned.
SubmitMissing ==
    /\ pos # 0 /\ CurrentStep \in SubmitGates /\ ~skip
    /\ GoOn
    /\ UNCHANGED <<stage, skip, held, requests, orphans, excused, planned, stageCalls, stageFaults>>

DecideRequest ==
    /\ \E n \in DOMAIN requests, verdict \in {"approved", "rejected"} :
        /\ requests[n].status = "pending"
        /\ requests' = [requests EXCEPT ![n].status = verdict]
    /\ UNCHANGED <<stage, pos, skip, outcome, held, orphans, excused, planned, stageCalls, stageFaults>>

StageNext ==
    \/ \E next \in StageCalls, skips \in BOOLEAN : CallStage(next, skips)
    \/ RunAgent \/ RunMonitor \/ SkipGate \/ SubmitGate \/ SubmitFails \/ SubmitMissing \/ DecideRequest

StageSpec == StageInit /\ [][StageNext]_stageVars

----------------------------------------------------------------------------
(* Properties. *)

StageTypeOK ==
    /\ stage \in StageCalls /\ pos \in 0..Len(Steps[stage])
    /\ outcome \in {"none", "succeeded", "pending", "failed"} /\ held \in {0} \cup DOMAIN requests
    /\ \A n \in DOMAIN requests : requests[n].gate \in RequestGates

\* A release that is done was approved at every gate its coordinators can ask for, but
\* for the gates that were skipped or whose submission raised: those fail open.
ReleaseWasApproved ==
    stage \in {"deployment", "monitoring"} /\ outcome = "succeeded" =>
        \A g \in RequestGates \ excused : \E n \in Asked(g) : Approved(n)

\* A request that waits for a reviewer is the one its caller waits for, unless its
\* submission raised after it was stored: then a reviewer decides for nobody.
UndecidedIsAwaited ==
    \A n \in DOMAIN requests : requests[n].status = "pending" => n = held \/ n \in orphans

\* The planner runs once the architecture is approved at HITL-2: "HITL-2 blocks until
\* architecture approved" (.workitems/P04-F02-design-agents/user_stories.md:134).
PlannedIsApproved == planned => \E n \in Asked("hitl2") : Approved(n)
=============================================================================
