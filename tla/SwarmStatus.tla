---------------------------- MODULE SwarmStatus ----------------------------
(***************************************************************************)
(* What GET /review/{id} tells of a swarm (orchestrator/routes/swarm)      *)
(* while it runs and expires in Redis (workers/swarm/redis_store,          *)
(* dispatcher, session): the session's hash and the results are read one   *)
(* after the other, each has a TTL of its own, and the status is written   *)
(* field by field.  One swarm; slots and restarts are SwarmReview's.       *)
(***************************************************************************)
EXTENDS Naturals, FiniteSets

CONSTANTS
    InRegistry,     \* the reviewers of the registry
    NotInRegistry,   \* names that a deployment lists in its defaults without one
    Targets,        \* kinds of target: url, inside an allowed prefix, absolute, upward, elsewhere
    MaxPolls,       \* bounds: status requests,
    MaxRaises       \* commands of the background task or of a poll that raise

\* What stands for a report that is not there is no set of reviewers.
ASSUME SwarmAssumption == "none" \notin InRegistry

Unreported == {"none"}
NoHash == [whole |-> FALSE, status |-> "absent", report |-> Unreported]

VARIABLES
    components,     \* whether the dispatcher could be created
    awaited,        \* session.reviewers
    sessionHash,    \* the session's hash, and whether it has more than what was written later
    inResults,      \* reviewers with a stored result
    inProgress,     \* the progress set
    reviewing,      \* reviewers whose task runs
    finishing,      \* run_swarm_background: the step that comes next
    gathered,       \* the results it read
    poll,           \* a status request between its two reads, or at "no"
    response,       \* the last answer
    polls, raises,  \* bounds
    timedOut,       \* history: the wait for the reviewers timed out
    expired         \* history: the keys that expired

statusVars == <<components, awaited, sessionHash, inResults, inProgress, reviewing, finishing, gathered,
                poll, response, polls, raises, timedOut, expired>>
swarmKeys == <<sessionHash, inResults, inProgress>>
pollVars == <<poll, response, polls>>

NoPoll == [at |-> "no", status |-> "none", report |-> Unreported, during |-> "none"]
NoResponse ==
    [code |-> 0, status |-> "none", report |-> Unreported, during |-> "none", shown |-> {}, read |-> FALSE]

StatusInit ==
    /\ components = FALSE /\ awaited = {} /\ sessionHash = NoHash /\ inResults = {}
    /\ inProgress = {} /\ reviewing = {}
    /\ finishing = "none" /\ gathered = {} /\ poll = NoPoll /\ response = NoResponse
    /\ polls = 0 /\ raises = 0 /\ timedOut = FALSE /\ expired = {}

\* _ensure_swarm_components: what fails is tried again by the next request.
EnsureComponents ==
    /\ ~components /\ components' = TRUE
    /\ UNCHANGED <<awaited, swarmKeys, reviewing, finishing, gathered, pollVars, raises, timedOut,
                   expired>>

\* validate_target_path, validate_reviewer_types: defaults are taken as they are.
Valid(target) == target \in {"url", "inside"}
Listable == ((SUBSET InRegistry) \ {{}}) \cup {InRegistry \cup NotInRegistry}

Trigger(target, types) ==
    /\ components /\ Valid(target) /\ finishing = "none"
    /\ awaited' = types /\ sessionHash' = [whole |-> TRUE, status |-> "pending", report |-> Unreported]
    /\ finishing' = "start"
    /\ UNCHANGED <<components, inResults, inProgress, reviewing, gathered, pollVars, raises, timedOut, expired>>

\* A refused request, or one without a dispatcher: 400 or 503.
Refuse(target) ==
    /\ ~components \/ ~Valid(target)
    /\ response' = [NoResponse EXCEPT !.code = IF Valid(target) THEN 503 ELSE 400]
    /\ UNCHANGED <<components, awaited, swarmKeys, reviewing, finishing, gathered, poll, polls, raises,
                   timedOut, expired>>

\* HSET of the status: a hash that expired is there again, with the status alone and no TTL.
PutStatus(status) == sessionHash' = [sessionHash EXCEPT !.status = status]

\* The types without a reviewer are passed over; the rest run at once.
StartReviewers ==
    /\ finishing = "start" /\ finishing' = "look"
    /\ PutStatus("in_progress")
    /\ reviewing' = awaited \cap InRegistry
    /\ UNCHANGED <<components, awaited, inResults, inProgress, gathered, pollVars, raises, timedOut, expired>>

\* A result, failed or not, is stored and then counts as done; both get a new TTL.
ReviewerEnds(v) ==
    /\ v \in reviewing /\ v \notin inResults
    /\ inResults' = inResults \cup {v}
    /\ UNCHANGED <<components, awaited, sessionHash, inProgress, reviewing, finishing, gathered, pollVars,
                   raises, timedOut, expired>>

ReviewerCounts(v) ==
    /\ v \in reviewing /\ v \in inResults
    /\ inProgress' = inProgress \cup {v} /\ reviewing' = reviewing \ {v}
    /\ UNCHANGED <<components, awaited, sessionHash, inResults, finishing, gathered, pollVars, raises,
                   timedOut, expired>>

AllDone == awaited \subseteq inProgress

\* wait_for_completion: the timeout of the request is not handed on, and the configured one
\* is shorter than that of a reviewer.
AwaitReviewers ==
    /\ finishing = "wait" /\ finishing' = "aggregate"
    /\ (AllDone /\ UNCHANGED timedOut) \/ timedOut' = TRUE
    /\ UNCHANGED <<components, awaited, swarmKeys, reviewing, gathered, pollVars, raises, expired>>

AfterStep(step) ==
    CASE step = "look" -> "wait" [] step = "aggregate" -> "gather" [] step = "gather" -> "again"
      [] step = "again" -> "complete" [] step = "complete" -> "report" [] step \in {"report", "fail"} -> "ended"

\* HSET of the report, likewise.
PutReport ==
    sessionHash' = [sessionHash EXCEPT !.report = gathered, !.status = IF @ = "absent" THEN "none" ELSE @]

\* Whether the session can be read where it must be.
SessionIsRead(step) == step \in {"look", "again"} => sessionHash.whole

BackgroundStep ==
    /\ finishing \in {"look", "aggregate", "gather", "again", "complete", "report", "fail"}
    /\ finishing' = IF SessionIsRead(finishing) THEN AfterStep(finishing) ELSE "fail"
    /\ gathered' = IF finishing = "gather" THEN inResults ELSE gathered
    /\ CASE finishing = "aggregate" -> PutStatus("aggregating")
         [] finishing = "complete" -> PutStatus("complete")
         [] finishing = "fail" -> PutStatus("failed")
         [] finishing = "report" -> PutReport
         [] OTHER -> UNCHANGED sessionHash
    /\ UNCHANGED <<components, awaited, inResults, inProgress, reviewing, pollVars, raises, timedOut, expired>>

\* A command raises before it ran; the failure of fail_swarm is logged.
BackgroundRaises ==
    /\ finishing \in {"look", "aggregate", "gather", "again", "complete", "report", "fail"}
    /\ raises < MaxRaises /\ raises' = raises + 1
    /\ finishing' = IF finishing = "fail" THEN "ended" ELSE "fail"
    /\ UNCHANGED <<components, awaited, swarmKeys, reviewing, gathered, pollVars, timedOut, expired>>

\* A hash that was written again after it expired has no TTL.
ExpireKey ==
    /\ \/ sessionHash.whole /\ sessionHash' = NoHash /\ expired' = expired \cup {"session"}
          /\ UNCHANGED <<inResults, inProgress>>
       \/ inResults # {} /\ inResults' = {} /\ expired' = expired \cup {"results"}
          /\ UNCHANGED <<sessionHash, inProgress>>
       \/ inProgress # {} /\ inProgress' = {} /\ expired' = expired \cup {"progress"}
          /\ UNCHANGED <<sessionHash, inResults>>
    /\ UNCHANGED <<components, awaited, reviewing, finishing, gathered, pollVars, raises, timedOut>>

PollSession ==
    /\ components /\ poll = NoPoll /\ finishing \notin {"none"} /\ polls < MaxPolls /\ polls' = polls + 1
    /\ IF sessionHash.whole
       THEN /\ poll' = [at |-> "read", status |-> sessionHash.status, report |-> sessionHash.report,
                      during |-> finishing]
            /\ UNCHANGED response
       ELSE /\ response' = [NoResponse EXCEPT !.code = IF sessionHash = NoHash THEN 404 ELSE 500]
            /\ UNCHANGED poll
    /\ UNCHANGED <<components, awaited, swarmKeys, reviewing, finishing, gathered, raises, timedOut,
                   expired>>

StatusTold(shown, read) ==
    [code |-> 200, status |-> poll.status, report |-> poll.report, during |-> poll.during,
     shown |-> shown, read |-> read]

\* The results; where they cannot be read, those in the session, which nobody writes.
PollResults ==
    /\ poll.at = "read" /\ poll' = NoPoll
    /\ \/ response' = StatusTold(inResults \cap awaited, TRUE) /\ UNCHANGED raises
       \/ raises < MaxRaises /\ raises' = raises + 1 /\ response' = StatusTold({}, FALSE)
    /\ UNCHANGED <<components, awaited, swarmKeys, reviewing, finishing, gathered, polls, timedOut,
                   expired>>

StatusNext ==
    \/ EnsureComponents \/ StartReviewers \/ AwaitReviewers \/ BackgroundStep \/ BackgroundRaises \/ ExpireKey
    \/ PollSession \/ PollResults
    \/ \E v \in InRegistry : ReviewerEnds(v) \/ ReviewerCounts(v)
    \/ \E target \in Targets : Refuse(target) \/ \E types \in Listable : Trigger(target, types)

----------------------------------------------------------------------------
(* Properties. *)

\* Complete without a report is told only between the two writes of finalize_swarm, or before
\* a failure of the second is written: whoever stops asking at complete never sees the report.
ReportlessHasACause ==
    response.status = "complete" /\ response.report = Unreported =>
        response.during \in {"report", "fail"} \/ raises >= 2

\* A reviewer that the report lacks, though its result is shown beside it, or that is shown
\* without a result though the swarm is complete, was not waited for, or the results expired.
MissingIsLate ==
    response.read /\ response.status = "complete" /\ ~timedOut /\ "results" \notin expired =>
        /\ response.shown = awaited
        /\ response.report # Unreported => response.report = awaited

\* A swarm is answered with 404 or 500 only after its session expired; with 500 for good, where
\* it went on after that.
GoneHasACause == response.code \in {404, 500} => "session" \in expired
=============================================================================
