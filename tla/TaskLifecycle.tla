---------------------------- MODULE TaskLifecycle ---------------------------
(***************************************************************************)
(* The lifecycle of tasks as ManagerAgent (manager_agent.py), TaskManager  *)
(* (task_manager.py) and TaskStateMachine (state_machine.py) run it, all   *)
(* under src/src/orchestrator/.                                            *)
(*                                                                         *)
(* Managers share a consumer group.  A manager handles one event at a time *)
(* and in order; an event it does not acknowledge may be delivered again,  *)
(* to any manager that is not busy, even while it is still in the hands of *)
(* another one (EventConsumer: stale entries are claimed).                 *)
(* A step of a job is one Redis or git command with the code that follows  *)
(* it.  "ack" stands for mark_processed and XACK: an event that is claimed *)
(* between the two is skipped, and so acknowledged.  Marks do not run out  *)
(* here (their time to live is seven days).                                *)
(***************************************************************************)
EXTENDS TaskStates, Sequences, FiniteSets

CONSTANTS Tasks,
          Managers,      \* processes that handle events or call the manager
          Threshold,     \* RLM_FAIL_THRESHOLD
          Publishable,   \* the kinds of events the environment publishes
          Variants,      \* how idempotency keys of one type and task may differ
          Calls,         \* the kinds of direct calls it makes
          MaxEvents,     \* bound: log length up to which it publishes
          MaxCalls,      \* bound: direct calls
          MaxAborts,     \* bound: crashes, and commands or commits that raise
          MaxClaims      \* bound: events delivered again

\* "failed" is AGENT_ERROR or TASK_FAILED; "work" is an AGENT_COMPLETED with a
\* patch and "completed" one without.
EventKinds == {"created", "dispatched", "completed", "work", "failed", "approved",
               "rejected", "patch"}

\* dispatch_to_worker in mode "normal" or, if the caller says so, "rlm"; and
\* update_state to REVIEW or BLOCKED_HITL, which no handler calls.
Dispatches == {"dispatch", "dispatch_rlm"}
CallKinds == Dispatches \cup {"review", "block"}

ASSUME LifecycleAssumption ==
    /\ Threshold \in Nat
    /\ Publishable \subseteq EventKinds
    /\ Calls \subseteq CallKinds
    /\ MaxEvents \in Nat /\ MaxCalls \in Nat /\ MaxAborts \in Nat /\ MaxClaims \in Nat

VARIABLES
    hash,        \* the task hashes
    log,         \* the events for the managers' group, in order
    cursor,      \* events 1..cursor were delivered
    acked,       \* ids of events acknowledged
    jobs,        \* what the managers are doing
    committed,   \* ids of events whose patch was committed
    \* history
    incs,        \* increments of fail_count, per task
    rlm,         \* tasks for which AGENT_STARTED was published with mode "rlm",
                 \* each with the kind of what was handled
    advanced,    \* ids of events whose update_state was written
    counted,     \* ids of events for which fail_count was incremented
    moot,        \* ids of events that found no task, or one that is not blocked
    calls, aborts, claims

histVars == <<incs, rlm, advanced, counted, moot>>
envVars  == <<calls, aborts, claims>>
vars     == <<hash, log, cursor, acked, jobs, committed, histVars, envVars>>

Ids == 1..Len(log)

\* generate_idempotency_key hashes the type, the session, the task and the epic.
\* A "bare" event has no epic; what publish_event writes has no key at all.  The
\* other variants stand for an epic, or for the other of two types of a kind.
Event == [kind : EventKinds, task : Tasks, variant : Variants \cup {"bare", "none"}]

Type(k) == IF k = "work" THEN "completed" ELSE k

SameKey(i, k) ==
    /\ log[i].variant = log[k].variant /\ log[i].variant # "none"
    /\ log[i].task = log[k].task
    /\ Type(log[i].kind) = Type(log[k].kind)

Steps == {"check", "create", "get", "apply", "count", "read", "write", "publish", "ack"}
Job == [mgr : Managers, kind : EventKinds \cup CallKinds, task : Tasks, id : Nat,
        step : Steps,
        seen : Hash,    \* the hash that update_state read
        count : Nat]    \* what increment_fail_count returned, or 0

TypeOK ==
    /\ hash \in [Tasks -> Hash]
    /\ log \in Seq(Event)
    /\ cursor \in 0..Len(log)
    /\ acked \subseteq 1..cursor
    /\ jobs \subseteq Job
    /\ \A j \in jobs : j.id <= cursor /\ (j.kind \in EventKinds => j.id > 0)
    /\ committed \subseteq 1..cursor
    /\ incs \in [Tasks -> Nat]
    /\ rlm \subseteq Tasks \X (EventKinds \cup CallKinds)
    /\ advanced \subseteq 0..cursor /\ counted \subseteq 1..cursor
    /\ moot \subseteq 1..cursor
    /\ calls \in Nat /\ aborts \in Nat /\ claims \in Nat

Init ==
    /\ hash = [t \in Tasks |-> NoTask]
    /\ log = <<>>
    /\ cursor = 0
    /\ acked = {}
    /\ jobs = {}
    /\ committed = {}
    /\ incs = [t \in Tasks |-> 0]
    /\ rlm = {} /\ advanced = {} /\ counted = {} /\ moot = {}
    /\ calls = 0 /\ aborts = 0 /\ claims = 0

-----------------------------------------------------------------------------
(* Events and calls arrive.                                                *)

\* The first event of a task is its TASK_CREATED, which is published once.
Publish ==
    /\ Len(log) < MaxEvents
    /\ \E t \in Tasks :
         \E k \in IF \E i \in Ids : log[i].task = t THEN Publishable ELSE {"created"} :
         \E v \in Variants :
            log' = Append(log, [kind |-> k, task |-> t, variant |-> v])
    /\ UNCHANGED <<hash, cursor, acked, jobs, committed, histVars, envVars>>

Free(m) == \A j \in jobs : j.mgr # m

\* _get_handler, and the first command of each handler.
FirstStep(k) == IF k = "created" THEN "create"
                ELSE IF k = "patch" THEN "apply"
                ELSE IF k \in CallKinds THEN "read" ELSE "get"

Begin(m, k, t, i) ==
    jobs' = jobs \cup {[mgr |-> m, kind |-> k, task |-> t, id |-> i,
                        step |-> IF k \in EventKinds THEN "check" ELSE FirstStep(k),
                        seen |-> NoTask, count |-> 0]}

Take(m) ==
    /\ Free(m) /\ cursor < Len(log)
    /\ cursor' = cursor + 1
    /\ Begin(m, log[cursor + 1].kind, log[cursor + 1].task, cursor + 1)
    /\ UNCHANGED <<hash, log, acked, committed, histVars, envVars>>

\* A manager claims an event that was not acknowledged.
Claim(m, i) ==
    /\ Free(m) /\ i \in (1..cursor) \ acked
    /\ claims < MaxClaims
    /\ claims' = claims + 1
    /\ Begin(m, log[i].kind, log[i].task, i)
    /\ UNCHANGED <<hash, log, cursor, acked, committed, histVars, calls, aborts>>

Call(m, k, t) ==
    /\ Free(m) /\ calls < MaxCalls
    /\ calls' = calls + 1
    /\ Begin(m, k, t, 0)
    /\ UNCHANGED <<hash, log, cursor, acked, committed, histVars, aborts, claims>>

-----------------------------------------------------------------------------
(* The steps of a job.                                                     *)

Move(j, k) == jobs' = (jobs \ {j}) \cup {k}
Goto(j, label) == Move(j, [j EXCEPT !.step = label])
Finish(j) == jobs' = jobs \ {j}

\* is_processed: an event whose key is marked is acknowledged unhandled, though
\* it be another event than the one that was handled.
Check(j) ==
    /\ j.step = "check"
    /\ Goto(j, IF \E k \in acked : SameKey(j.id, k) THEN "ack" ELSE FirstStep(j.kind))
    /\ UNCHANGED <<hash, log, cursor, acked, committed, histVars, envVars>>

Create(j) ==
    /\ j.step = "create"
    /\ hash' = [hash EXCEPT ![j.task] = NewTask]
    /\ Goto(j, "ack")
    /\ UNCHANGED <<log, cursor, acked, committed, histVars, envVars>>

\* get_task at the head of a handler; only _handle_gate_approved looks at the
\* state it returns.
Get(j) ==
    /\ j.step = "get"
    /\ LET found == hash[j.task] # NoTask
           blocked == hash[j.task].state = "blocked_hitl"
       IN \/ /\ \/ found /\ j.kind \in {"dispatched", "completed"}
                \/ blocked /\ j.kind = "approved"
             /\ Goto(j, "read") /\ UNCHANGED moot
          \/ /\ found /\ j.kind = "work"
             /\ Goto(j, "apply") /\ UNCHANGED moot
          \/ /\ found /\ j.kind \in {"failed", "rejected"}
             /\ Goto(j, "count") /\ UNCHANGED moot
          \/ /\ ~found \/ (j.kind = "approved" /\ ~blocked)
             /\ Goto(j, "ack") /\ moot' = moot \cup {j.id}
    /\ UNCHANGED <<hash, log, cursor, acked, committed, incs, rlm, advanced, counted,
                   envVars>>

\* apply_patch, and what _handle_agent_completed or _handle_patch_created does
\* next.  It fails on a patch that does not apply or that is committed already:
\* then "git apply" fails, or "git commit" finds nothing to commit.
Apply(j) ==
    /\ j.step = "apply"
    /\ \/ /\ j.id \notin committed
          /\ committed' = committed \cup {j.id}
          /\ Goto(j, IF j.kind = "work" THEN "read" ELSE "publish")
       \/ /\ Goto(j, IF j.kind = "work" THEN "count" ELSE "publish")
          /\ UNCHANGED committed
    /\ UNCHANGED <<hash, log, cursor, acked, histVars, envVars>>

\* Mutant: the debugger is called in one failure too early.
ExceedsEarly(n) == n >= Threshold

\* fail_count > RLM_FAIL_THRESHOLD
Exceeds(n) == n > Threshold

\* HINCRBY of increment_fail_count, and how _handle_task_failure or
\* _handle_gate_rejected goes on.
Count(j) ==
    LET n == hash[j.task].fails + 1
    IN /\ j.step = "count"
       /\ hash' = [hash EXCEPT ![j.task].fails = n]
       /\ incs' = [incs EXCEPT ![j.task] = @ + 1]
       /\ counted' = counted \cup {j.id}
       /\ Move(j, [j EXCEPT !.count = n,
                            !.step = IF j.kind = "rejected" THEN "read"
                                     ELSE IF Exceeds(n) THEN "publish" ELSE "ack"])
       /\ UNCHANGED <<log, cursor, acked, committed, rlm, advanced, moot, envVars>>

Target == [dispatched |-> "in_progress", completed |-> "testing", work |-> "testing",
           approved |-> "complete", rejected |-> "in_progress",
           dispatch |-> "in_progress", dispatch_rlm |-> "in_progress", review |-> "review", block |-> "blocked_hitl"]

\* Mutant: update_state does not validate the transition.
ReadUnvalidated(j) ==
    /\ j.step = "read"
    /\ \/ /\ hash[j.task] # NoTask
          /\ Move(j, [j EXCEPT !.step = "write", !.seen = hash[j.task]])
       \/ /\ hash[j.task] = NoTask
          /\ Finish(j)
    /\ UNCHANGED <<hash, log, cursor, acked, committed, histVars, envVars>>

\* Mutant: a transition that is not valid is only logged.
ReadLenient(j) ==
    /\ j.step = "read"
    /\ \/ /\ CanTransition(hash[j.task].state, Target[j.kind])
          /\ Move(j, [j EXCEPT !.step = "write", !.seen = hash[j.task]])
       \/ /\ ~CanTransition(hash[j.task].state, Target[j.kind])
          /\ IF j.kind \in EventKinds THEN Goto(j, "ack") ELSE Finish(j)
    /\ UNCHANGED <<hash, log, cursor, acked, committed, histVars, envVars>>

\* The HGETALL of update_state, and validate_transition; when that raises, the
\* handler asks for a retry: the event is not acknowledged.
Read(j) ==
    /\ j.step = "read"
    /\ \/ /\ CanTransition(hash[j.task].state, Target[j.kind])
          /\ Move(j, [j EXCEPT !.step = "write", !.seen = hash[j.task]])
       \/ /\ ~CanTransition(hash[j.task].state, Target[j.kind])
          /\ Finish(j)
    /\ UNCHANGED <<hash, log, cursor, acked, committed, histVars, envVars>>

\* The HSET of update_state writes every field that was read.
Write(j) ==
    /\ j.step = "write"
    /\ hash' = [hash EXCEPT ![j.task] = [j.seen EXCEPT !.state = Target[j.kind]]]
    /\ advanced' = advanced \cup {j.id}
    /\ IF j.kind \in {"review", "block"} THEN Finish(j)
       ELSE Goto(j, IF j.kind = "dispatched" THEN "ack" ELSE "publish")
    /\ UNCHANGED <<log, cursor, acked, committed, incs, rlm, counted, moot, envVars>>

\* The TASK_DISPATCHED for the test runner names no epic.
Dispatched(t) == [kind |-> "dispatched", task |-> t, variant |-> "bare"]

StartsRlm(j) == j.kind = "dispatch_rlm" \/ Exceeds(j.count)

\* Mutant: a direct call is acknowledged as if it were an event.
PublishAcksCall(j) ==
    /\ j.step = "publish"
    /\ log' = IF j.kind \in {"completed", "work"} /\ j.count = 0
              THEN Append(log, Dispatched(j.task)) ELSE log
    /\ rlm' = IF StartsRlm(j) THEN rlm \cup {<<j.task, j.kind>>} ELSE rlm
    /\ Goto(j, "ack")
    /\ UNCHANGED <<hash, cursor, acked, committed, incs, advanced, counted, moot, envVars>>

\* event_publisher: the TASK_DISPATCHED for the test runner comes back to the
\* managers' own group; AGENT_STARTED goes to the workers.  Nothing consumes
\* TASK_COMPLETED, PATCH_APPLIED and PATCH_REJECTED: they are not kept.
PublishNext(j) ==
    /\ j.step = "publish"
    /\ log' = IF j.kind \in {"completed", "work"} /\ j.count = 0
              THEN Append(log, Dispatched(j.task)) ELSE log
    /\ rlm' = IF StartsRlm(j) THEN rlm \cup {<<j.task, j.kind>>} ELSE rlm
    /\ IF j.kind \in Dispatches THEN Finish(j) ELSE Goto(j, "ack")
    /\ UNCHANGED <<hash, cursor, acked, committed, incs, advanced, counted, moot, envVars>>

Ack(j) ==
    /\ j.step = "ack"
    /\ acked' = acked \cup {j.id}
    /\ Finish(j)
    /\ UNCHANGED <<hash, log, cursor, committed, histVars, envVars>>

\* The manager crashes, or what it awaits raises: the handler asks for a retry
\* or is gone, and the event is not acknowledged.  The command it waited for
\* was not executed; this step after the next one is a reply that was lost.
Abort(j) ==
    /\ aborts < MaxAborts
    /\ aborts' = aborts + 1
    /\ Finish(j)
    /\ UNCHANGED <<hash, log, cursor, acked, committed, histVars, calls, claims>>

\* update_git_sha raises after the commit, in the same try as apply_patch.
ShaFails(j) ==
    /\ j.step = "read" /\ j.kind = "work"
    /\ aborts < MaxAborts
    /\ aborts' = aborts + 1
    /\ Goto(j, "count")
    /\ UNCHANGED <<hash, log, cursor, acked, committed, histVars, calls, claims>>

-----------------------------------------------------------------------------
Step(j) == \/ Check(j) \/ Create(j) \/ Get(j) \/ Apply(j) \/ Count(j) \/ Read(j) \/ Write(j)
           \/ PublishNext(j) \/ Ack(j) \/ Abort(j) \/ ShaFails(j)

Next == \/ Publish
        \/ \E m \in Managers : \/ Take(m)
                               \/ \E i \in 1..cursor : Claim(m, i)
                               \/ \E k \in Calls, t \in Tasks : Call(m, k, t)
        \/ \E j \in jobs : Step(j)

Spec == Init /\ [][Next]_vars

-----------------------------------------------------------------------------
(* Properties.                                                             *)

Workflow == INSTANCE TaskWorkflow

\* With one manager, tasks keep to TaskWorkflow: nothing comes between the
\* HGETALL and the HSET of update_state, whatever is aborted or delivered again
\* (state moves along TRANSITIONS, and no increment of fail_count is lost).
Implements == Workflow!Spec

\* Unless a caller asks for it, an RLM debugger or retry is started only for a
\* task that failed more often than RLM_FAIL_THRESHOLD, though managers overwrite
\* each other's fail_count (_handle_task_failure, _handle_gate_rejected).
RlmJustified == \A p \in rlm : p[2] = "dispatch_rlm" \/ incs[p[1]] > Threshold

\* Why RlmJustified holds: no copy of fail_count runs ahead of the increments.
CountsBounded ==
    /\ \A t \in Tasks : hash[t].fails <= incs[t]
    /\ \A j \in jobs : j.seen.fails <= incs[j.task] /\ j.count <= incs[j.task]

\* An event is acknowledged only when all that its handler does to the task is
\* done, unless there was no such task or the gate was not awaited: errors and
\* aborts leave it to be delivered again (handle, HandlerResult.should_retry).  An
\* event that is skipped has the key of one of which this is true.
Effected(i) ==
    \/ log[i].kind \in {"created", "patch"}
    \/ log[i].kind \in {"dispatched", "completed", "approved"} /\ i \in advanced
    \/ log[i].kind = "work" /\ i \in advanced \cup counted
    \/ log[i].kind = "failed" /\ i \in counted
    \/ log[i].kind = "rejected" /\ i \in counted \cap advanced
Dealt(i) == i \in moot \/ Effected(i)
SettledEvent(i) == Dealt(i) \/ \E k \in acked : SameKey(i, k) /\ Dealt(k)
EffectBeforeAck == \A i \in acked : SettledEvent(i)

\* "GATE_REJECTED increments fail_count and retries." (user_stories.md, US-08 of
\* P02-F03): so does each of two rejections of one task.
RejectionsCount == \A i \in acked : log[i].kind = "rejected" => i \in counted \cup moot

\* "Concurrent increments don't lose counts" (user_stories.md, US-06).
NoLostCounts == \A t \in Tasks : hash[t].fails = incs[t]

\* "TESTING -> IN_PROGRESS: Tests fail, retry" (TaskStateMachine).
Failure(t) == \E i \in Ids : log[i].task = t /\ log[i].kind \in {"failed", "rejected"}
TestsDecide ==
    [][\A t \in Tasks : hash[t].state = "testing" /\ hash'[t].state = "in_progress"
                            => Failure(t)]_vars
=============================================================================
