----------------------------- MODULE SwarmReview -----------------------------
(***************************************************************************)
(* Review swarms: POST /review (orchestrator/routes/swarm) checks the      *)
(* number of active swarms, creates the session in Redis and starts one    *)
(* task per reviewer; a background task waits for the reviewers, merges    *)
(* their results and finalizes the session, and gives the slot back        *)
(* (workers/swarm/dispatcher, redis_store, session).  The active set and   *)
(* the tasks live in the process; sessions, results and progress in Redis. *)
(* A request is its swarm.  The publisher given to the dispatcher does     *)
(* nothing, and nothing is awaited from the start of the reviewers to the  *)
(* registration of the swarm: that is one step.                            *)
(***************************************************************************)
EXTENDS Naturals, FiniteSets

CONSTANTS
    Swarms, Reviewers,
    MaxActive,       \* config.max_concurrent_swarms
    MaxSwarmMishaps  \* bound: Redis commands that raise, and restarts of the process

ASSUME SwarmAssumption == MaxActive \in Nat \ {0}

NoReport == {"no report"}

VARIABLES
    active,      \* _active_swarms
    request,     \* where the POST of each swarm is
    session,     \* the status in the session's hash
    report,      \* unified_report: whose results were merged
    results, progress,  \* the results hash and the progress set of each swarm
    reviewer,    \* the task of each reviewer
    background,  \* run_swarm_background: the step it is at
    gathered,    \* the results it read
    timedOut, aborted,  \* history: swarms whose wait timed out; whose work a raise or a crash cut
    overlapped,  \* history: a request was admitted while another had yet to register
    swarmMishaps

swarmVars == <<active, request, session, report, results, progress, reviewer, background, gathered,
               timedOut, aborted, overlapped, swarmMishaps>>
redisVars == <<session, report, results, progress>>
taskVars == <<reviewer, background, gathered>>
historyVars == <<timedOut, aborted, overlapped, swarmMishaps>>

SessionStatuses == {"none", "pending", "in_progress", "aggregating", "complete", "failed"}

SwarmInit ==
    /\ active = {} /\ request = [s \in Swarms |-> "new"]
    /\ session = [s \in Swarms |-> "none"] /\ report = [s \in Swarms |-> NoReport]
    /\ results = [s \in Swarms |-> {}] /\ progress = [s \in Swarms |-> {}]
    /\ reviewer = [s \in Swarms |-> [v \in Reviewers |-> "none"]]
    /\ background = [s \in Swarms |-> "none"] /\ gathered = [s \in Swarms |-> {}]
    /\ timedOut = {} /\ aborted = {} /\ overlapped = FALSE
    /\ swarmMishaps = 0

Admitted == {s \in Swarms : request[s] \in {"create", "start"}}

----------------------------------------------------------------------------
(* The request: check_rate_limit, trigger_swarm_review and dispatch_swarm. *)

Full == Cardinality(active) >= MaxActive
Check(s) ==
    /\ request[s] = "new"
    /\ request' = [request EXCEPT ![s] = IF Full THEN "refused" ELSE "create"]
    /\ overlapped' = (overlapped \/ (~Full /\ Admitted # {}))
    /\ UNCHANGED <<active, redisVars, taskVars, timedOut, aborted, swarmMishaps>>

Create(s) ==
    /\ request[s] = "create"
    /\ request' = [request EXCEPT ![s] = "start"]
    /\ session' = [session EXCEPT ![s] = "pending"]
    /\ UNCHANGED <<active, report, results, progress, taskVars, historyVars>>

\* Status IN_PROGRESS, a task per reviewer, the slot, and the background task.
Start(s) ==
    /\ request[s] = "start"
    /\ request' = [request EXCEPT ![s] = "accepted"]
    /\ session' = [session EXCEPT ![s] = "in_progress"]
    /\ reviewer' = [reviewer EXCEPT ![s] = [v \in Reviewers |-> "running"]]
    /\ active' = active \cup {s}
    /\ background' = [background EXCEPT ![s] = "wait"]
    /\ UNCHANGED <<report, results, progress, gathered, historyVars>>

\* A command of the request raises: no reviewer was started and no slot taken, and
\* the session, when it was stored, stays as it is.
RequestFails(s) ==
    /\ swarmMishaps < MaxSwarmMishaps /\ s \in Admitted
    /\ swarmMishaps' = swarmMishaps + 1
    /\ request' = [request EXCEPT ![s] = "failed"]
    /\ \/ session' = [session EXCEPT ![s] = IF request[s] = "create" THEN "pending" ELSE "in_progress"]
       \/ UNCHANGED session
    /\ UNCHANGED <<active, report, results, progress, taskVars, timedOut, aborted, overlapped>>

----------------------------------------------------------------------------
(* A reviewer: _run_reviewer and store_reviewer_result.  An executor that  *)
(* raises stores a failed result all the same.                             *)

StoreResult(s, v) ==
    /\ reviewer[s][v] = "running"
    /\ results' = [results EXCEPT ![s] = @ \cup {v}]
    /\ reviewer' = [reviewer EXCEPT ![s][v] = "stored"]
    /\ UNCHANGED <<active, request, session, report, progress, background, gathered, historyVars>>

MarkDone(s, v) ==
    /\ reviewer[s][v] = "stored"
    /\ progress' = [progress EXCEPT ![s] = @ \cup {v}]
    /\ reviewer' = [reviewer EXCEPT ![s][v] = "ended"]
    /\ UNCHANGED <<active, request, session, report, results, background, gathered, historyVars>>

\* The store raises inside the reviewer's task, before or after the command ran:
\* nobody awaits the task.
StoreFails(s, v) ==
    /\ swarmMishaps < MaxSwarmMishaps /\ reviewer[s][v] \in {"running", "stored"}
    /\ swarmMishaps' = swarmMishaps + 1
    /\ reviewer' = [reviewer EXCEPT ![s][v] = "ended"]
    /\ \/ UNCHANGED <<results, progress>>
       \/ /\ reviewer[s][v] = "running"
          /\ results' = [results EXCEPT ![s] = @ \cup {v}]
          /\ UNCHANGED progress
       \/ /\ reviewer[s][v] = "stored"
          /\ progress' = [progress EXCEPT ![s] = @ \cup {v}]
          /\ UNCHANGED results
    /\ UNCHANGED <<active, request, session, report, background, gathered, timedOut, aborted, overlapped>>

----------------------------------------------------------------------------
(* The background task: run_swarm_background.                              *)

\* wait_for_completion: a poll that finds everyone, or the deadline.
EveryoneDone(s) == Reviewers \subseteq progress[s]
Wait(s) ==
    /\ background[s] = "wait"
    /\ \/ EveryoneDone(s) /\ UNCHANGED timedOut
       \/ timedOut' = timedOut \cup {s}
    /\ background' = [background EXCEPT ![s] = "aggregate"]
    /\ UNCHANGED <<active, request, redisVars, reviewer, gathered, aborted, overlapped, swarmMishaps>>

\* The commands that follow, one step each: what they write and what comes next.
\* completed_at, which finalize_swarm writes before the report, is not kept.
Command(s) ==
    /\ session' = [session EXCEPT ![s] = CASE background[s] = "aggregate" -> "aggregating"
                                          [] background[s] = "complete" -> "complete"
                                          [] background[s] = "fail" -> "failed"
                                          [] OTHER -> @]
    /\ report' = IF background[s] = "report" THEN [report EXCEPT ![s] = gathered[s]] ELSE report
    /\ gathered' = IF background[s] = "gather" THEN [gathered EXCEPT ![s] = results[s]] ELSE gathered

Following(step) ==
    CASE step = "aggregate" -> "gather"
      [] step = "gather" -> "complete"
      [] step = "complete" -> "stamp"
      [] step = "stamp" -> "report"
      [] step \in {"report", "fail"} -> "ended"
\* Mutant: only a swarm that was finalized gives its slot back.
LeaveComplete(s, step) ==
    /\ background' = [background EXCEPT ![s] = step]
    /\ active' = IF step = "ended" /\ session'[s] = "complete" THEN active \ {s} ELSE active

\* The finally clause: unregister_swarm.
Leave(s, step) ==
    /\ background' = [background EXCEPT ![s] = step]
    /\ active' = IF step = "ended" THEN active \ {s} ELSE active
Advance(s) ==
    /\ background[s] \in {"aggregate", "gather", "complete", "stamp", "report", "fail"}
    /\ Command(s)
    /\ Leave(s, Following(background[s]))
    /\ UNCHANGED <<request, results, progress, reviewer, historyVars>>

\* A command raises, before or after it ran: fail_swarm, whose own failure is logged.
BackgroundFails(s) ==
    /\ swarmMishaps < MaxSwarmMishaps /\ background[s] \notin {"none", "ended"}
    /\ swarmMishaps' = swarmMishaps + 1
    /\ aborted' = aborted \cup {s}
    /\ Command(s) \/ UNCHANGED <<session, report, gathered>>
    /\ Leave(s, IF background[s] = "fail" THEN "ended" ELSE "fail")
    /\ UNCHANGED <<request, results, progress, reviewer, timedOut, overlapped>>

----------------------------------------------------------------------------

\* The process is restarted: its tasks and the active set are gone, Redis is not.
CrashSwarms ==
    /\ swarmMishaps < MaxSwarmMishaps
    /\ swarmMishaps' = swarmMishaps + 1
    /\ active' = {}
    /\ request' = [s \in Swarms |-> IF s \in Admitted THEN "failed" ELSE request[s]]
    /\ reviewer' = [s \in Swarms |-> [v \in Reviewers |-> IF reviewer[s][v] = "none" THEN "none" ELSE "ended"]]
    /\ background' = [s \in Swarms |-> IF background[s] = "none" THEN "none" ELSE "ended"]
    /\ aborted' = aborted \cup {s \in Swarms : background[s] \notin {"none", "ended"}}
    /\ UNCHANGED <<redisVars, gathered, timedOut, overlapped>>

SwarmProgress ==
    \E s \in Swarms :
        \/ Create(s) \/ Start(s) \/ Wait(s) \/ Advance(s)
        \/ \E v \in Reviewers : StoreResult(s, v) \/ MarkDone(s, v)

SwarmNext ==
    \/ SwarmProgress \/ CrashSwarms
    \/ \E s \in Swarms :
        \/ Check(s) \/ RequestFails(s) \/ BackgroundFails(s)
        \/ \E v \in Reviewers : StoreFails(s, v)

----------------------------------------------------------------------------
(* Properties. *)

SwarmTypeOK ==
    /\ active \subseteq Swarms /\ session \in [Swarms -> SessionStatuses]
    /\ \A s \in Swarms : /\ report[s] \subseteq Reviewers \/ report[s] = NoReport
                         /\ progress[s] \subseteq Reviewers /\ gathered[s] \subseteq results[s]

\* The limit on active swarms holds as long as no request is admitted between the
\* check of another and its registration (check_rate_limit releases its lock).
SlotsBounded == ~overlapped => Cardinality(active) <= MaxActive

\* A report merges stored results only, and misses a reviewer only when the wait for
\* it timed out: a result is stored before its reviewer counts as done.
ReportIsFull ==
    \A s \in Swarms : report[s] # NoReport =>
        /\ report[s] \subseteq results[s]
        /\ s \notin timedOut => report[s] = Reviewers

\* A session that has ended keeps its status and its report, unless a command that
\* raised made a completed swarm a failed one.
EndedStays ==
    [][\A s \in Swarms :
        /\ session[s] = "failed" => session'[s] = "failed"
        /\ session[s] = "complete" /\ session'[s] # "complete" => session'[s] = "failed" /\ s \in aborted'
        /\ report[s] # NoReport => report'[s] = report[s]]_swarmVars

\* A slot is given back, whatever fails on the way.
SlotsReturn == \A s \in Swarms : s \in active ~> s \notin active

\* An accepted swarm ends complete with its report, or failed, unless a raise or a
\* crash cut its background task.
SwarmsEnd ==
    \A s \in Swarms :
        request[s] = "accepted" ~>
            \/ session[s] = "complete" /\ report[s] # NoReport
            \/ s \in aborted
=============================================================================
