----------------------------- MODULE RlmExplore -----------------------------
(***************************************************************************)
(* Explorations of one RLM orchestrator (workers/rlm: orchestrator, agent, *)
(* tools/llm_query, budget_manager, cache), which share its sub-call       *)
(* budget and its cache.  run_iteration is synchronous: an exploration     *)
(* gives way to others, and can time out, only at the pause between two    *)
(* iterations.                                                             *)
(***************************************************************************)
EXTENDS Naturals, FiniteSets

CONSTANTS
    Explorations,
    Prompts,        \* what llm_query is asked
    MaxTotal, MaxPerIteration, MaxIterations,
    MaxToolCalls    \* bound: llm_query calls of one iteration

\* The budget manager refuses limits below one.
ASSUME RlmAssumption ==
    /\ MaxTotal \in Nat \ {0} /\ MaxPerIteration \in Nat \ {0}
    /\ MaxIterations \in Nat /\ MaxToolCalls \in Nat

VARIABLES
    exploring,      \* where each exploration is: new, loop, iterating, paused, ended
    iteration,      \* its iterations so far
    found,          \* whether accumulated_findings has any
    rlmResult,      \* its result: none, success, budget, timeout, error
    totalUsed, iterationUsed, \* the budget manager's counters
    toolCalls,      \* llm_query calls of the iteration under way
    cached,         \* prompts whose answer the cache holds
    answered,       \* history: API calls per prompt that were answered
    spent,          \* history: API calls of the iteration under way
    carried         \* history: an iteration that raised left its count behind

rlmVars == <<exploring, iteration, found, rlmResult, totalUsed, iterationUsed, toolCalls, cached,
             answered, spent, carried>>
budgetVars == <<totalUsed, iterationUsed, cached, answered, spent>>

RlmInit ==
    /\ exploring = [e \in Explorations |-> "new"] /\ iteration = [e \in Explorations |-> 0]
    /\ found = [e \in Explorations |-> FALSE] /\ rlmResult = [e \in Explorations |-> "none"]
    /\ totalUsed = 0 /\ iterationUsed = 0 /\ toolCalls = 0 /\ cached = {}
    /\ answered = [p \in Prompts |-> 0] /\ spent = 0 /\ carried = FALSE

\* The event loop runs one coroutine until it awaits.
LoopFree == \A e \in Explorations : exploring[e] # "iterating"

EndsAs(e, what) ==
    /\ exploring' = [exploring EXCEPT ![e] = "ended"]
    /\ rlmResult' = [rlmResult EXCEPT ![e] = what]

\* Mutant: the limits are compared after the call.
CanMakeCallLate == totalUsed <= MaxTotal /\ iterationUsed < MaxPerIteration
CanMakeCall == totalUsed < MaxTotal /\ iterationUsed < MaxPerIteration

IterationsDone(e) == iteration[e] = MaxIterations

\* The head of the loop.  all_findings stays empty, so a spent budget is a failure
\* whatever was found.
BeginIteration(e) ==
    /\ exploring[e] \in {"new", "paused"} /\ LoopFree
    /\ IF IterationsDone(e) THEN EndsAs(e, "success")
       ELSE IF ~CanMakeCall THEN EndsAs(e, "budget")
       ELSE exploring' = [exploring EXCEPT ![e] = "iterating"] /\ UNCHANGED rlmResult
    /\ toolCalls' = 0 /\ spent' = 0
    /\ UNCHANGED <<iteration, found, totalUsed, iterationUsed, cached, answered, carried>>

Keep(p) == cached' = cached \cup {p}

\* llm_query: a refusal and an API error are error strings to the agent, and an API
\* call that failed is counted.
LlmQuery(e, p) ==
    /\ exploring[e] = "iterating" /\ toolCalls < MaxToolCalls
    /\ toolCalls' = toolCalls + 1
    /\ \/ (~CanMakeCall \/ p \in cached) /\ UNCHANGED budgetVars
       \/ /\ CanMakeCall /\ p \notin cached
          /\ totalUsed' = totalUsed + 1 /\ iterationUsed' = iterationUsed + 1 /\ spent' = spent + 1
          /\ \/ Keep(p) /\ answered' = [answered EXCEPT ![p] = @ + 1]
             \/ UNCHANGED <<cached, answered>>
    /\ UNCHANGED <<exploring, iteration, found, rlmResult, carried>>

ResetIteration == iterationUsed' = 0

CountIteration(e) == iteration' = [iteration EXCEPT ![e] = @ + 1]

EndIteration(e) ==
    /\ exploring[e] = "iterating"
    /\ CountIteration(e)
    /\ \E finds \in BOOLEAN : found' = [found EXCEPT ![e] = @ \/ finds]
    /\ ResetIteration /\ carried' = FALSE
    /\ \/ EndsAs(e, "success")
       \/ exploring' = [exploring EXCEPT ![e] = "paused"] /\ UNCHANGED rlmResult
    /\ UNCHANGED <<totalUsed, toolCalls, cached, answered, spent>>

\* The model call raises, or a tool call that is no record: explore returns a failure,
\* and the counter stays as it is.
IterationRaises(e) ==
    /\ exploring[e] = "iterating"
    /\ EndsAs(e, "error")
    /\ carried' = (iterationUsed > 0)
    /\ UNCHANGED <<iteration, found, toolCalls, budgetVars>>

TimesOut(e) ==
    /\ exploring[e] = "paused" /\ LoopFree
    /\ EndsAs(e, "timeout")
    /\ UNCHANGED <<iteration, found, toolCalls, carried, budgetVars>>

RlmProgress == \E e \in Explorations : BeginIteration(e) \/ EndIteration(e)
RlmNext ==
    \/ RlmProgress
    \/ \E e \in Explorations : IterationRaises(e) \/ TimesOut(e) \/ \E p \in Prompts : LlmQuery(e, p)

----------------------------------------------------------------------------
(* Properties. *)

RlmTypeOK ==
    /\ rlmResult \in [Explorations -> {"none", "success", "budget", "timeout", "error"}]
    /\ iteration \in [Explorations -> 0..MaxIterations] /\ cached \subseteq Prompts
    /\ toolCalls \in 0..MaxToolCalls /\ {totalUsed, iterationUsed} \subseteq Nat

\* However explorations interleave, raise and share the counters, no more API calls are
\* made than the budget has, in all and within an iteration.
BudgetKept ==
    totalUsed <= MaxTotal /\ spent <= MaxPerIteration

\* A prompt that was answered is not sent again: the cache is unbounded.
AnsweredOnce == \A p \in Prompts : answered[p] <= 1

\* An exploration is told the budget is exhausted only when it is spent in all, or when
\* an iteration that raised left its count to the next exploration.
RefusedIsSpent ==
    [][\A e \in Explorations :
        rlmResult[e] # "budget" /\ rlmResult'[e] = "budget" => totalUsed = MaxTotal \/ carried]_rlmVars

\* An exploration that began ends, within its iterations.
ExplorationsEnd == \A e \in Explorations : exploring[e] = "iterating" ~> exploring[e] = "ended"
=============================================================================
