# dox-asdlc in TLA+

This directory models dox-asdlc in two rings. The inner one is the event-driven
core: the Redis stream and its consumer groups, the worker pool that executes
agents, and the manager that drives tasks through the aSDLC workflow. The outer
one is the services around it: gates and the Slack bridge, the git gateway,
queues, swarms, the coordination mailbox, the agents and their coordinators, the
RLM engine, ideation, credentials, stores and the dashboards. All of it is
model-checked; the safety of the core, of the gates and the bridge, and of all the
services but those that read code for an exploration is also proved. The modules are translated from the Python
under `src/src/`. Paths below are relative to `src/src/` unless they start with
`src/` or `.workitems/`.

## 1. The system

### Components

| Component | State it keeps | Operations | What makes it hard |
|---|---|---|---|
| Event stream, consumer groups (`infrastructure/redis_streams.py`, `consumer_group.py`) | the stream, each group's cursor and pending list, the marks of `IdempotencyTracker`; per consumer `_running` and a batch | publish (XADD MAXLEN ~), read (XREADGROUP), `process_pending` (XPENDING, XCLAIM), mark, acknowledge, `start`/`stop` | several consumers, crashes, failed commands, retries, eviction, handlers that outlast the claim idle time |
| Worker pool (`workers/pool/`, `workers/main.py`, `workers/agents/dispatcher.py`) | `_state`, the semaphore, `_active_tasks`, the marks of `WorkerIdempotencyTracker` | event loop, `_process_event`, `stop`, process exit | concurrent tasks in one loop, replicas, shutdown during work, cancellation |
| Task lifecycle (`orchestrator/manager_agent.py`, `task_manager.py`, `state_machine.py`) | one hash per task, the git history | one handler per event type, `dispatch_to_worker`, `update_state`, `increment_fail_count` | read-modify-write on Redis, redelivery, errors in the middle of a handler |
| Git gateway (`orchestrator/git_gateway.py`) | a working tree, the index, the log | `apply_patch` | several git commands per operation, no cleanup when one fails |
| HITL gates (`orchestrator/hitl_dispatcher.py`, `evidence_bundle.py`) | request and bundle hashes, the pending set, decision logs | `request_gate`, `record_decision`, `check_expired`, `get_pending_requests` | two reviewers, expiry against decision, a job cut off between hash, set and event |
| Slack bridge (`infrastructure/slack_bridge/`) | claim locks, gate records, posted marks | post requests, take clicks | lock and expiry in two commands, publishing before the record |
| Classification (`workers/classification_worker.py`, `orchestrator/services/classification_service.py`, `label_taxonomy_service.py`, `ideas_service.py`) | a list of items, the record of a batch, ideas, results, the taxonomy | enqueue, BRPOP loop, retry, classify, label, change the taxonomy | lost items, one JSON value changed by several workers |
| Review swarm (`workers/swarm/`, `orchestrator/routes/swarm.py`) | sessions, results and progress in Redis, the active set in the process | trigger, dispatch, review, collect with a timeout, merge, finalise, status | late results, a limit checked before it is taken, keys that expire one by one |
| Instance coordination (`infrastructure/coordination/`) | messages, inbox, pending and timeline indexes, presence, offline queues | publish, acknowledge, heartbeat, pop, query | checks outside transactions, bounded reads that delete everything |
| Agents (`workers/agents/`, `workers/artifacts/`) | artifacts, the loop's state, requests of the stage gates | fourteen agents, the TDD loop, three coordinators | retries, overlapping runs of one task, answers that lack what is needed, gates that fail open |
| RLM engine (`workers/rlm/`) | a budget, a cache, an index of results | explore, query, tools, trigger, audit | explorations that share counters, retries, limits |
| Repository mapper and ingestion (`workers/repo_mapper/`, `infrastructure/repo_ingestion/`) | a graph of imports, chunks in the store | pack, ingest | cyclic graphs under a budget, files that change |
| Secrets, LLM configuration, credentials (`infrastructure/secrets/`, `infrastructure/llm/`, `services/llm_config_service.py`) | records in Redis, two backends, a client cache | add, test, update, delete, get, list | GET and SET of whole records around awaits, a fallback that is never reached |
| Graph and knowledge store (`infrastructure/graph_store/`, `knowledge_store/`) | sets of neighbours and hashes of properties; an index per tenant | correlate, list, remove; index, find, delete | several commands per call, a memory of indexes per client |
| Ideation (`services/ideation_service.py`, `routes/ideation_api.py`, `workers/agents/ideation/`) | session, messages, maturity; what a browser shows | chat, save a draft, load, submit; PRD, criteria, stories | three transactions around a model call, rounding, trust in the browser's score |
| Health and telemetry (`infrastructure/health.py`, `services/k8s_cluster.py`, `service_health.py`, `agent_telemetry.py`) | cached answers | probes, dashboards, lists | caches, made-up answers, a thread beside a blocked loop |
| HITL web UI, charts, scripts | - | presentation, deployment | not modelled |

### How they interact

Everything asynchronous goes through one Redis stream. Publishers (the API, the
manager, the workers, the gates) append `ASDLCEvent`s. The *development
handlers* group is read by the worker pools, which run an agent for
`AGENT_STARTED` and answer with `AGENT_COMPLETED` or `AGENT_ERROR`. The
*managers'* group is read by an `EventConsumer` whose handler is
`ManagerAgent`: it moves the task's state, applies patches through the git
gateway, and publishes the next `AGENT_STARTED` or `TASK_DISPATCHED`. Gates are
requested from the dispatcher, decided by people over the API or Slack, and come
back to the manager as `GATE_APPROVED` or `GATE_REJECTED`. The services of the
outer ring share Redis, Postgres, Elasticsearch and a git repository, but rarely
a key: classification and ideas, the swarm and its status route, the
explorations and their budget are the exceptions, and each is modelled together. There is no
transaction across any two of these: each awaits one Redis or git command at a
time, and the guarantees rest on the order of the commands and on the marks.

Two facts of the repository as it stands, for the reader: `workers/main.py`
starts the pool, but `ManagerAgent`, `TaskManager` and `EventConsumer` are
instantiated only by the tests (the orchestrator's `main.py` does not wire them
in), and nothing calls `update_state` with `REVIEW` or `BLOCKED_HITL`; these are
inputs of the environment in the model.

### What would make each component correct

* *Consumer groups*: no entry is forgotten; an entry is acknowledged only for a
  reason; a pending entry without an owner has a cause; a bounded number of
  duplicate runs; everything is acknowledged in the end; recovery after a crash;
  `stop` stops.
* *Worker pool*: the concurrency limit is exact; a key is executed at most once
  over all replicas; one answer per request, of the right kind; a request that
  took a key is answered; a shutdown ends, without losing work.
* *Task lifecycle*: states follow the diagram; failures are counted; RLM mode is
  used only when justified or asked for; an event is acknowledged only when it, or
  one of the same idempotency key, took effect; a task behind a gate is completed
  only after an approval that is logged, or one given in Slack.
* *Gates, Slack*: a decision is overruled only by one who raced with it; an
  outcome is announced, and logged before; one outcome per click race; a request
  is posted once; nothing stays pending beyond its time.
* *Git gateway*: a task that is told its patch is applied has it in a commit, and
  one that is told it was rejected made none; a rejected patch leaves nothing behind.
* *Queues and swarms*: an idea or a result is in one place; counters are true; a
  batch or a swarm ends; its report has what was stored; the limit holds.
* *Mailbox*: the pending set is what is unanswered; an answer stays; queries
  answer the newest.
* *Agents and documents*: what is handed on was judged, agrees with what was
  written, and is of one run; stages do not pass a gate nobody approved.
* *RLM*: the budget holds however explorations interleave; tools tell what is there.
* *Records* (credentials, ideas, taxonomy, sessions, graph): what is deleted
  stays deleted, an update is not undone, a verdict is of what it judged.
* *Views*: what is shown was so, or the reason why not is known.

The hazards behind these, each at its line, are listed in `PROJECT.json`
together with the properties that cover them.

## 2. Modules

| Module | Models | Role |
|---|---|---|
| `EventEntries` | what an entry is to a consumer: its idempotency key, whether it can be handled, parsed, or is the placeholder of `ensure_stream_exists` | shared definitions |
| `EventDelivery` | - | abstract: at-least-once delivery to a group |
| `EventConsumer` | `consumer_group.py` over `redis_streams.py` | detailed; refines `EventDelivery` |
| `EventConsumerProofs` | - | theorems |
| `AgentRequests` | - | abstract: at-most-once execution of requests |
| `WorkerPool` | `worker_pool.py`, its `event_consumer.py` and `idempotency.py`, start and exit in `workers/main.py` | detailed; refines `AgentRequests` |
| `WorkerPoolProofs` | - | theorems |
| `TaskStates` | `state_machine.py`, the hash of a task | shared definitions |
| `TaskWorkflow` | - | abstract: what happens to a task |
| `TaskLifecycle` | `manager_agent.py`, `task_manager.py` | detailed; refines `TaskWorkflow` (one manager) |
| `HitlGate` | `hitl_dispatcher.py`, `evidence_bundle.py` | detailed |
| `SlackGate` | `slack_bridge/gate_consumer.py`, `decision_handler.py`, `bridge.py` | detailed |
| `GateDesk` | `HitlGate` with `SlackGate`: they meet in the event stream | composition |
| `GateDeskProofs` | - | theorems about `HitlGate`, `SlackGate` and `GateDesk` |
| `Governance` | `TaskLifecycle` with `HitlGate`: published outcomes, and those of Slack, are the managers' events | composition |
| `GovernanceProofs` | - | theorems about `TaskLifecycle`, and about the composition, from these and those of `HitlGate` |
| `GitGateway` | `git_gateway.py`, `apply_patch` git command by git command | detailed |
| `ClassificationQueue`, `IdeaLabels` | the queue and its batch record; one idea, its result and its labels, and the taxonomy | detailed |
| `SwarmReview`, `SwarmStatus`, `ReviewFindings` | slots, tasks and the report; the status route and expiring keys; one reviewer, and the aggregator of all | detailed |
| `CoordinationMailbox`, `MessageQueries` | publish, acknowledge, presence, offline queue; queries | detailed |
| `StageGates`, `TddLoop`, `AgentRuns`, `Documents` | coordinators and gates; the TDD loop; the fourteen agents, and three verdicts on one implementation; `to_dict`/`from_dict` of 39 documents | detailed |
| `RlmExplore`, `RlmQueries`, `RlmTools` | exploration and budget; retries and cache, and the audit trail; file and symbol tools with the parser, and the trigger | detailed |
| `RepoIngest` | ingestion, and context packs | detailed |
| `Credentials` | keys, configurations, client cache; integrations; the backends GCP and Infisical | detailed |
| `GraphAndKnowledge` | the Redis graph; Elasticsearch | detailed |
| `IdeationChat`, `RequirementTrace` | chats of a session, and when it may be submitted; PRD, criteria and stories | detailed |
| `HealthAndTelemetry` | probes, agents' status and logs; dashboards | detailed |
| `MCEventConsumer`, `MCWorkerPool`, `MCServices`, `MCStudies`, `MCSecrets` | - | constants, and choices of what to study, for TLC |
| `ServicesProofs` | - | theorems about the components of `MCServices` but the gates |
| `AnswersProofs`, `ExplorationProofs`, `StudiesProofs` | - | theorems about components of `MCStudies`: what is answered, and ideas; what is read of the code; what is shown and stored, and all together |

`EventConsumer`, `WorkerPool` and `TaskLifecycle` meet at the stream and are not
composed. `TaskLifecycle` assumes of its group what `EventConsumer` does: an event
is delivered to one manager, may be delivered again until it is acknowledged, also
while somebody works on it, and is acknowledged without its handler when its
idempotency key is marked, though the mark be of another event. `WorkerPool` has a
consumer of its own because the code does. `GateDesk` and `Governance` are composed because the
questions about gates are about who hears of an outcome.

A module has the actors of its code as constant sets (callers, workers,
reviewers, browsers), each with the await it is at, and one action per step
between two awaits. History variables, marked so, hold what the code does not
keep and a property needs: who raced with whom, what was lost to a fault.
Definitions for what is not under `src/src/` (Redis, git, Kubernetes, a provider,
a model's answer) are marked external in `PROJECT.json`.

Definitions whose comment starts with "Mutant:" are variants of the definition
that follows them, each with one plausible mistake; no specification uses them.
They show that the properties depend on the code being as it is.

### EventConsumer

One process per member of `Consumers`. `pc` is what it awaits, `mode` whether it
is in `process_pending` or in the loop of `start`, `batch` and `cur` the entries
it read or claimed and the one in hand, `running` is `_running`. A step is what
happens between two awaits; a Redis command and what follows from its reply are
one step.

| Action | Code |
|---|---|
| `Publish` | `publish_event`: XADD with MAXLEN ~, which may evict any part of the excess |
| `ListPending`, `Claim` | `process_pending`: XPENDING of one page, filter on idle time, XCLAIM (which drops evicted entries from the pending list) |
| `StartLoop`, `Read`, `Exit` | `start` and `_process_once` |
| `Examine`, `Succeed`, `Refuse`, `Retry`, `Mark`, `Ack` | `_handle_event`, and the same steps in `process_pending` |
| `Stop`, `Crash`, `Fail` | `stop`; the process dies; a Redis command raises, executed or not, and the `except` clause that catches it |
| `GoStale` | 60 seconds pass (`min_idle_time`) |

Abstracted: event payloads, names of streams and tenants, and the 7-day lifetime
of the marks, which is longer than anything considered here. The owner of a
pending entry is not kept, since no code reads it.

### WorkerPool

One asyncio loop per member of `Pools` runs the event loop (`loop`, `batch`), one
task for each event (`tasks`, a set of records of pool, entry and the await it
is at), and `stop()` (`stopper`, `waited`). `permits` is the semaphore.
`Spawn` is the `for` loop of `_run_event_loop`, which only yields when no permit
is left; the state is tested before each event and not again after the wait.
`_process_event` is `Mark`, `Agent`, `PublishResult`, `PublishError`,
`Acknowledge`, and `TaskFails` for a command that raises (the first time the
task publishes `AGENT_ERROR`, the second time it ends). `Exit` is the return of
`async_main`, after which `asyncio.run` cancels what is left. Answers are added
to the same stream, where they are events for other groups.

Left out: `claim_stale_events`, which nothing calls; a second `start()` of a
pool that runs; the lifetime of the marks.

### TaskLifecycle

`hash` holds for each task the two fields that are read back (state,
fail_count). A *job* is an event or a direct call in the hands of a manager,
with the step it is at, the hash that `update_state` read (`seen`) and what
`increment_fail_count` returned (`count`). Each event begins
with `Check` (`is_processed`); each handler is a path through
`Create`, `Get`, `Apply`, `Count`, `Read`, `Write`, `PublishNext`, `Ack`;
`FirstStep`, `Target` and the conditions in `Get`, `Apply`, `Count` choose the
path. Event kinds are named for what the handler does: `"work"` is an
`AGENT_COMPLETED` with a patch, `"completed"` one without; `"failed"` stands for
`AGENT_ERROR` and `TASK_FAILED`, whose handlers are the same. `Claim` delivers
an event again, `Abort` is a crash or a command that raises before it was
executed (together with the step before it, a reply that was lost), `ShaFails`
is `update_git_sha` failing in the same `try` as `apply_patch`. An entry has a
`variant`, which with its type and task makes its idempotency key: the hash of
`generate_idempotency_key` is of type, session, task and epic, so two entries with
one variant have one key, however much they differ (`SameKey`), and `"none"` is an
entry that no publisher of the code wrote, without a key. `dispatch_to_worker`
publishes the mode it is given: `Calls` has `"dispatch"` and `"dispatch_rlm"`.

Abstracted: `apply_patch` is one step that commits once or fails (its inside is
`GitGateway`); git writes are allowed; `TASK_COMPLETED`,
`PATCH_APPLIED` and `PATCH_REJECTED`, which no group handles, are not
kept; `mark_processed` and XACK are one step, since an event claimed between them is
skipped; marks do not run out (they last seven days). A `TASK_CREATED` is published
once per task and first.

### HitlGate, SlackGate, GateDesk, Governance

A job of `HitlGate` is one call of the dispatcher: `Store`, `StoreBundle`,
`List` (`request_gate`), `Read`, `Write`, `Unlist` (`record_decision` and
`check_expired`), `LogHistory`, `LogAudit`, `Publish`, each one Redis command;
`Abort` ends a job between two of them, or at a command that raises. `Due`
lets a request pass its `expires_at`. `SlackGate` has the posting loop (one hand,
one batch) and one record per click: `Acquire` (SETNX), `SetTtl`, `CheckStatus`,
`PublishOutcome`, `Record`, `Release`; a command may fail, a lock expire, the
bridge restart. Who creates the gate records that the bridge reads is not in
`src/`; nobody calls `record_decision` for what Slack decides, so `GateDesk` has
no way back (`.workitems/P08-F02-slack-integration/user_stories.md:145` has decisions
"flow through existing HITLDispatcher.record_decision()"). In `Governance` the
outcomes that the dispatcher publishes are appended to the stream of the managers
(`GateStep`), and so are those that the bridge publishes for a request
(`SlackDecides`): any number, in any order, before or after the dispatcher's own,
which is more than `SlackGate` lets through. A gate carries its task, and the
manager does not look at the request's id: that the approval is of the gate for
which the task waits is in neither module, because it is in no code.

### The services

* `ClassificationQueue`: the list, the hand of each worker with the job record
  it read, the record. `CrashWorkers`, a command that raises and a lost reply are
  the faults. `IdeaLabels`: two calls, each a read, perhaps a model call, and a
  write of whole fields.
* `SwarmReview`: requests as `create`/`start`, reviewers and the background task
  as positions; the active set is the process's and is gone with it.
  `SwarmStatus` reads hash, results and report one after the other while each
  has a TTL of its own.
* `CoordinationMailbox`: MULTI blocks are one step, everything else one per
  command. The offline queue has a TTL of its own (`ExpireQueue`).
  `MessageQueries`: the ids first, the newest or those since a moment, then a message
  at a time, sifted by sender, type and moment. The timeline has scores with fractions
  of a second, the messages a timestamp without: what was published after the moment but
  in its second is found by the index and sifted out again.
* `GitGateway`: the tree and the index are sets of changes, whole or in part (a
  three-way merge with conflicts); `add -A` takes what is there, what a rejected patch
  left included.
* `StageGates`: a table of the steps of six calls; `SubmitFails` and
  `SubmitMissing` are how a submission raises. `TddLoop`: what the loop reads of
  each agent's result. `AgentRuns`: a table of the stages of fourteen agents
  (what an answer must hold, whether it is asked again, what is written).
  `Documents`: a table of fields with what each lacks and defaults to, and one
  document that is written, harmed, read and written again.
* `RlmExplore`: an iteration is one step, explorations alternate at the pause
  between two. `RlmTools`: two edited texts, three kinds of calls, and the
  difference between counting newlines and `splitlines`.
* `Credentials`: calls that wait for a provider between the GET and the SET of a
  record, and two backends that go away.
* `HealthAndTelemetry`: for the dashboards, the world with a clock, what is cached, and
  what was shown of when.

Where a component has parts that share nothing (the reviewer and the aggregator,
the probes and the telemetry), its module has a section for each, with variables
and a next-state relation of its own.

## 3. What TLC checks

| Run | Instance | Properties | What it shows |
|---|---|---|---|
| `consumers` | one study per behaviour: 1 consumer, 2 entries of every kind (keyed, keyless, foreign) and perhaps the placeholder, batch and page 2, MaxLen 1, two of crash, failed command, retry; or 2 consumers, 2 entries with one key read one at a time, a crash, a stop, restarts | `TypeOK`, `NeverDropped`, `OrphansHaveACause`, `OverlapBound`, `Implements`, `EventuallyAcked`, `HandoverRecovers`, `StopEndsLoop` | nothing the cursor has passed is forgotten, and the group implements at-least-once delivery, with eviction; and consumers that claim from each other while handlers run long: how often a key runs, what is left behind, and liveness of the loop, of `process_pending` and of `stop` |
| `consumer_retry` | 1 consumer, a retry | `RetryRedelivered` is violated | see the findings |
| `pools` | one study per behaviour: 2 pools with one permit, 2 requests of one key, MaxLen 3, a crash or a failed command; or 1 pool with one permit and 3 requests of two keys, or 2 with both a crash and a failed command; a shutdown | `TypeOK`, `PermitsBalanced`, `Custody`, `AtMostOneRun`, `TakenIsAnswered`, `OneAnswer`, `OrphansHaveACause`, `Implements`, `LastStart`, `EventuallyAcked`, `ShutdownEnds` | one run per key over all replicas, permits, answers, and what a shutdown lets through; a shutdown ends although agents hang; otherwise every request is acknowledged if agents return |
| `pool_exit` | 1 pool, a shutdown | `InProgressCompletes` is violated | see the findings |
| `tasks_counts`, `tasks_bounce`, `tasks_skipped` | 2 managers, or 1; no faults | `NoLostCounts`, `TestsDecide`, `RejectionsCount` are violated | see the findings |
| `studies` | one study per behaviour: tasks alone or under gates, and 25 components and parts of components | `TypeOK`, `EffectBeforeAck`, `RlmJustified`, `Implements`, `GovernedCompletion`, `ReviewsAreTrue`, `IdeasAreTrue`, `CodeIsRead`, `ViewsAreTrue`, `StoresAreTrue`, `ReadinessIsLostForACause` | one manager keeps to `TaskWorkflow` whatever is aborted or delivered again; a task behind a gate is completed only after an approval that is logged or was given in Slack (`GovernedCompletion`, of the behaviours in which a gate is used: the managers alone take approvals from anywhere); and what each of the components promises |
| `services` | one part per behaviour: 9 components; the gates with 2 gates, one of which expires and one without a channel, 2 callers, a sweeper, 3 calls, an abort, or the bridge with 3 clicks, a fault, a lock that expires | `BatchesAreTrue`, `PatchesAreTrue`, `WorkIsJudged`, `MailIsKept`, `LimitsHold`, `DeskTypeOK`, `RequestsAreTrue`, `BridgeIsTrue`, `EndsAreReached`, `DeskMovesOn` | the components with liveness, each with a fault or a restart; what reviewers who race, jobs that are cut off and a bridge that restarts can do to a gate, and nothing else |
| `design_gates`, `git_dirty`, `secrets_fallback` | the stages without faults; 2 patches and a command that fails; a name in 2 environments, 2 values, a backend that goes away | `PlannedIsApproved`, `FailedLeavesClean`, `FallbackAnswers` are violated | see the findings |

A property of the outer ring is a conjunction of named parts, each stated and
commented in the module of its component; together they say what the title says:

| Property | Parts |
|---|---|
| `RequestsAreTrue` | `ShownArePending`, `AnnouncedWasLogged`, `OnlyRacersOverrule`, `ClosedIsAnnounced` of `HitlGate` |
| `BridgeIsTrue` | `PostedHasEvidence` of `GateDesk`; `PostedOnce`, `AckedIsPosted`, `OneOutcome`, `OutcomesHaveACause`, `LocksHaveHolders` of `SlackGate` |
| `DeskMovesOn` | `DueIsClosed`, and `RequestsArePosted` while the bridge runs |
| `ReviewsAreTrue` | a result only after answers, artifacts of one run, bounded questions (`AgentRuns`); what passes has no blocking issue, and what is found or named is not lost on the way (the three verdicts); files and findings are missing only for a cause, through any chain of merges (`ReviewFindings`); complete without a report, or a reviewer missing, only for a cause (`SwarmStatus`) |
| `IdeasAreTrue` | whole exchanges, the latest messages, scores by category; submitted only when judged ready, parts that agree (`IdeationChat`); a person's choice stays, results and labels are of the idea, the taxonomy keeps every change (`IdeaLabels`); requirements, criteria and coverage (`RequirementTrace`) |
| `CodeIsRead` | nothing lost of a file, chunks bounded and nearest dependencies and targets first (`RepoIngest`); named lines, counts, absence, limits and failures of tools (`RlmTools`); the counters, payments and audits of queries (`RlmQueries`) |
| `ViewsAreTrue` | what is told after a check, silence, what is shown from caches and made up, pages, and listings of agents (`HealthAndTelemetry`) |
| `StoresAreTrue` | deletions, verdicts and updates of keys; integrations; backends, whose answers are the store's (`Credentials`); the graph and tenants (`GraphAndKnowledge`); documents read as written (`Documents`) |
| `BatchesAreTrue`, `PatchesAreTrue` | the invariants of `ClassificationQueue`; of `GitGateway` |
| `WorkIsJudged` | of `StageGates` and `TddLoop` |
| `MailIsKept` | of `CoordinationMailbox` and `MessageQueries` |
| `LimitsHold` | `SlotsBounded`, `ReportIsFull` of `SwarmReview`; `BudgetKept`, `AnsweredOnce` of `RlmExplore` |
| `EndsAreReached` | batches, slots, swarms, loops and explorations end; `EndedStays`, `AnswerStays`, `RefusedIsSpent` |

`studies` and `services` put components that share nothing into one state space:
the initial state chooses one, the variables of the others keep their initial
value, and `Others` says so. The states of such a run are the sum of those of its
components, not the product, and each property is checked in all of them. A
component with liveness is in `services`, where its fairness is conditioned on
its part; the safety of the rest is in `studies`. `FewTroubles`, `Telemetry`,
`Tools`, `Trace`, `Readiness` and `SwarmShown` in `MCStudies`, and `Acks` and
`Mail` in `MCServices`, restrict a component to the steps that are worth their
states, as do `Querying`, `Dispatching` and `Bridging` there, and `Faults`, `Handover`,
`Replicas` and `Limits` in `MCEventConsumer` and `MCWorkerPool`, which are the studies
of their runs; they leave out combinations, never an action. `MaxSteps` leaves out the
longest logs together with the most calls and faults; the theorems about the tasks
and the governed tasks have no such bound. `GivenInOrder`, `LabelsInOrder`,
`TaxonomyInOrder`, `GraphInOrder`, `Findings` and `Secret` are symmetries: two calls
that start the same, two reviewers, and two values are told apart by name only.

**Bounds.** The number of entries, crashes, failed commands, retries, stops,
calls and second deliveries is bounded by constants named in the guards. Two
entries with one key are the smallest case in which deduplication matters and
three fill a batch beyond the permits of a pool; one consumer too many for a key
needs two consumers. One fault of each kind, in any order and at any
point, already gives a second delivery during the first, a lost reply, and a
recovery of an entry somebody still works on. One task is enough because no step
of a manager looks at two. Threshold 1 stands for `RLM_FAIL_THRESHOLD` (4): both
sides of the comparison are reached. `MaxLen` is below the number of entries
where eviction is the question, and above it elsewhere. The theorems remove
these bounds for the safety properties of the core, and for those of the outer
ring that are listed in section 4.

In the outer ring two actors of a kind are enough to race for a record, and the
third call, question, finding or message is the one that comes after the race.
A limit (slots, a page, a budget, a cache, a token count, a retry) is set one or
two below what the instance can offer, so that both sides of it are reached:
`MaxActive` 1 with two swarms, `CacheSize` 2 with three questions, `QueryLimit` 1
with three messages, `PopLimits` 1 and 2, `LogLimit` 1. Numbers stand for their
order: `Marks` 5, 7, 9 with `SubmitAt` 8 and `GapBelow` 4 put the mean of two
categories (`AspectCount`, of equal weight: the seven of the code weigh 10 to 25)
below, at and above the threshold with and without rounding; `LineCounts` has a file
without lines; and sizes of lines 1 and 3 make chunks of one line, of several, and
one that is too long. One fault per behaviour keeps its consequence attributable: the
properties name which fault excuses what.

`CHECK_DEADLOCK FALSE` is in every configuration because the bounded
environment stops: when the entries are used up and the consumers are down or
wait, there is nothing left to do. No run declares a symmetry set.

**Fairness.** In `EventConsumer`, `LiveSpec` gives every consumer weak fairness
of its loop and of its handler: asyncio resumes a coroutine whose await is
over, Redis answers, and handlers return or raise. `RestartSpec` adds that a
supervisor restarts a consumer that is down and that time passes (pending
entries become stale); the deployment charts restart their pods. In
`WorkerPool`, `LiveSpec` is the same for the event loop, the tasks and `stop`
(whose timeout expires), with restarts of the process. It says nothing of
agents: no timeout is applied to them, so that they return is a premise
(`AgentsReturn`) of `EventuallyAcked` and not assumed by `ShutdownEnds`. No
fairness is given to publishers, crashes, faults or the passing of 60 seconds in
`LiveSpec`. The runs have these conditions within the bounds of each study (`MCSpec`),
which keep back faults, retries, stops, evictions and publications, and the process that
a study leaves out, but nothing else that a process may do.
`HandoverRecovers` is `RecoveredUnlessCrashedAgain` in the study in which both
consumers run. `TaskLifecycle` is checked for safety only.

In `services` the sweeper is fair step by step: that is the premise of
`DueIsClosed`, since nothing in `src/src/` calls `check_expired`, and the bridge's
posting loop is fair because `GateConsumer.run` loops until it is stopped. The
workers of the batch, the tasks of a swarm, the TDD loop and the
explorations are fair together (one weak fairness condition over the steps of a
process that runs): asyncio resumes what can go on, Redis answers, models answer
or raise. Requests, faults, expiries and restarts are not fair anywhere.

**Not a deadlock, but a wait for ever.** The properties that state when an entry
is *not* looked after (`OrphansHaveACause`, `TakenIsAnswered`) name the causes:
crash, failed command, retry or shutdown, an entry that does not parse. They are
tight: each cause alone leaves such entries behind.

### Findings

Eight statements of the repository do not hold of the code; each is a run in
which TLC finds the property violated, and `PROJECT.json` quotes the line.

* `consumer_retry`: an event left unacknowledged for a retry is never delivered
  again by the running consumer: the loop reads only new entries, and
  `process_pending` runs once, before it.
* `pool_exit`: the process can exit under a running agent: `start` returns as
  soon as it sees the state change, `async_main` ends, and `asyncio.run` cancels
  the tasks together with the `stop()` that waits for them.
* `tasks_bounce`: the `TASK_DISPATCHED` that the manager publishes for the test
  runner is an event the manager handles itself, and takes the task from
  `testing` back to `in_progress` though no test failed.
* `tasks_counts`: `update_state` writes back every field it read, so with two
  managers an increment of `fail_count` in between is lost.
* `tasks_skipped`: the idempotency key of an event is made of its type, session, task
  and epic, so that the second `GATE_REJECTED` of a task, or its second `AGENT_ERROR`, is
  acknowledged without its handler: its failure is never counted, and nobody retries.
* `git_dirty`: a patch whose `add` or `commit` fails after `apply` is rejected, and its
  change stays in the working tree for the next patch to commit.
* `secrets_fallback`: while GCP cannot be reached the caching client answers None though
  Infisical has the value, because the GCP client returns None where the caching one
  waits for an exception.
* `design_gates`: the design coordinator submits HITL-2 by a method that
  `HITLDispatcher` does not have; the error is caught, and planning goes on though
  nobody was asked to approve the architecture.

Other consequences of the same mechanisms, which the modules allow and the
properties account for: a key can be handled twice (`OverlapBound` says how
often); a consumer that crashed and restarts within a minute leaves its own
entries pending; an entry that does not parse, such as the placeholder, drops
the batch read with it; a `TASK_CREATED` that is redelivered, or has another key, starts a completed task
over (`Create` in `TaskWorkflow`); a crash between the commit of a patch and the
write of the state makes the second delivery count a failure
(`Effected` accepts a `work` event as counted). `EffectBeforeAck` is of an event or of
another with its key: `tasks_skipped` is the case in which that is not enough.

Of the outer ring, in the order of the modules:

* Nothing under `src/src/` calls `check_expired`, nor `record_decision` for what
  Slack decides: an approval in Slack completes a task with no entry in the dispatcher's
  log or audit trail, and the request stays pending; nothing creates the records the bridge looks up.
* What the bridge's group has read and not acknowledged is never read again
  (`gate_consumer.py:247`).
* The exits for gates that cannot be asked pass the gate (`StageGates`), and the
  metadata of the agents lack the keys the TDD loop reads, so that a loop over
  them ends at its first step; the runner's pattern misses parametrized tests.
* A swarm is `COMPLETE` before its report is written, and the UI stops polling at
  `COMPLETE`; reviewers that are not registered are waited for to the end.
* `pop_notifications` reads to a limit and deletes the whole list, and a list that nobody
  pops expires with everything that waits in it.
* A query since a moment drops what was published later in the moment's second.
* With an overlap of 0, which is accepted, a chunk starts with everything before
  it; a file that became shorter keeps its old chunks.
* Coroutines are never extracted from Python, methods twice; a keyword given with
  capitals never matches.
* The health of the secrets' stores is reported as good whatever it finds, and the
  orchestrator's health route answers 200 whatever it knows.
* A submission is judged by the maturity the browser sends
  (`routes/ideation_api.py:669`).
* Made-up numbers of the cluster are shown and cached like measured ones.

## 4. What TLAPS proves

| Theorem | Statement | For every |
|---|---|---|
| `EventConsumerProofs!TypeCorrect`, `NothingDropped`, `OrphansExplained`, `OverlapBounded` | `Spec => []TypeOK`, `[]NeverDropped`, `[]OrphansHaveACause`, `[]OverlapBound` | finite set of consumers, set of keys, batch, page, MAXLEN and bounds |
| `EventConsumerProofs!DeliveryImplemented` | `Spec => Delivery!Spec` | same |
| `WorkerPoolProofs!TypeCorrect`, `ConcurrencyLimited`, `CustodyKept`, `OneRunPerKey` | `[]TypeOK`, `[]PermitsBalanced`, `[]Custody`, `[]AtMostOneRun` | set of pools, pool size, batch, keys and bounds |
| `WorkerPoolProofs!OrphansExplained`, `TakenAnswered`, `AnswersRight`, `StopLimitsStarts` | `[]OrphansHaveACause`, `[]TakenIsAnswered`, `[]OneAnswer`, and the action property `LastStart` | same |
| `WorkerPoolProofs!RequestsImplemented` | `Spec => Requests!Spec` | same |
| `GovernanceProofs!TypeCorrect`, `RlmModeJustified`, `EffectsBeforeAck` | `[]TypeOK`, `[]RlmJustified`, `[]EffectBeforeAck` | set of tasks and managers, threshold and bounds |
| `GovernanceProofs!WorkflowImplemented` | one manager: `Spec => Workflow!Spec` | set of tasks, threshold and bounds |
| `GateDeskProofs!RequestsTrue` | `GateSpec => []RequestsAreTrue`, the gates alone | set of requests, callers and sweepers, and bounds |
| `GateDeskProofs!DeskTyped`, `DeskRequestsTrue`, `BridgeTrue` | `DeskSpec => []DeskTypeOK`, `[]RequestsAreTrue`, `[]BridgeIsTrue`, the gates with the bridge | same, finite set of clicks, batch |
| `GovernanceProofs!ApprovedBeforeComplete`, `GovernedTasksKeep` | `GovernedSpec => []CompletedWasApproved`, `[]GovernedCompletion`; the tasks' own invariants | set of tasks, managers and requests, which request is of which task, and bounds |
| `ServicesProofs!PatchesTrue` | `GitSpec => []PatchesAreTrue` | set of tasks and bound |
| `ServicesProofs!BatchesTrue` | `BatchSpec => []BatchesAreTrue` | finite set of ideas, set of workers, retries and bounds |
| `ServicesProofs!MailAlwaysKept`, `AnswersStay` | `[]MailIsKept`, `AnswerStays` | set of messages and of who acknowledges, limits, timeline and bounds |
| `ServicesProofs!LimitsAlwaysHold`, `SessionsStay`, `RefusalsAreDue` | `[]LimitsHold`, `EndedStays`, `RefusedIsSpent` | set of swarms, reviewers, explorations and prompts, slots, budgets and bounds |
| `ServicesProofs!WorkAlwaysJudged` | `[]WorkIsJudged` | set of tests, retries and bounds |
| `ServicesProofs!ServicesTrue` | `MCSpec` implies all of `ServicesProofs`: what the run checks is an instance of what is proved | all of these |
| `StudiesProofs!ViewsAlwaysTrue` | `HealthSpec /\ TelemetrySpec /\ ViewSpec => []ViewsAreTrue` | set of agents, numbers of pods and of logs, time to live and bounds |
| `StudiesProofs!StoresAlwaysTrue` | `CredSpec /\ IntegrationSpec /\ SecretsSpec /\ GraphSpec /\ StoreSpec /\ DocumentSpec => []StoresAreTrue` | set of keys, configurations and calls, of secrets and values, of ideas and edges, of tenants and clients, and bounds |
| `StudiesProofs!ReviewsAlwaysTrue` | `AgentsSpec /\ VerdictsSpec /\ ReviewSpec /\ MergeSpec /\ SwarmSpec => []ReviewsAreTrue` | numbers of runs, retries, files, lines, findings and severities, set of reviewers, and bounds |
| `StudiesProofs!IdeasAlwaysTrue` | `ChatSpec /\ ReadySpec /\ LabelsSpec /\ TaxonomySpec /\ TraceSpec => []IdeasAreTrue` | set of chats, of calls and of ids, numbers of aspects, of marks and of requirements, limits, thresholds and bounds |
| `StudiesProofs!CodeAlwaysRead` | `IngestSpec /\ ContextSpec /\ ToolsSpec /\ TriggerSpec /\ QueriesSpec /\ AuditSpec => []CodeIsRead` | set of line sizes, overlaps, files, texts, names, prompts and auditors, limits, budgets, depth and bounds |
| `StudiesProofs!StudiesTrue` | `MCSpec` implies all five: what the run checks is an instance of what is proved | all of these |
| `StudiesProofs!ReadinessNeverLost` | `MCSpec => ReadinessIsLostForACause`, an action property | number of aspects, marks, thresholds |

The assumptions are the named `ASSUME`s of the modules, which TLC evaluates in the
runs. They say what kind of thing a
constant is, and where the code narrows it: a swarm has at least one slot
(`SwarmAssumption`, the configuration refuses 0), a budget at least one call
(`RlmAssumption`, `SubCallBudgetManager` refuses less), who sweeps does not decide
(`GateAssumption`), a button names a request and a decision (`DeskAssumption`), an
integration is one of `IntegrationType` (`IntegrationAssumption`), and `prod` is none
of `KNOWN_ENV_PREFIXES` (`SecretsAssumption`; `GraphAssumption`,
`StoreAssumption` and `SwarmAssumption` of `SwarmStatus` only tell values, revisions
and reviewers from "none" and outcomes). Limits are numbers, and may be 0 where the
code lets them (`AgentsAssumption`: `max_retries`; `ReviewAssumption`: a file of no
lines; `FindingsAssumption`, `ChatAssumption`, `TraceAssumption`, `IngestAssumption`,
`QueriesAssumption`); a text is a sequence (`ToolsAssumption`); the files of a pack are
finitely many and the depth of a search is at least the 1 that the scores ask for
(`ContextAssumption`); so are the auditors, whose clock starts (`AuditAssumption`); the id of the one
default label is an id (`TaxonomyAssumption`); and the thresholds of a session are
whole points whose quarters are whole too, as 80 of 100 is, above what the mock
store makes up (`ReadinessAssumption`).
`WorkflowImplemented` also assumes `OneManager`, stated in the theorem. The bounds
on faults, calls and expiries that the models need for TLC are arbitrary numbers
here, so that the theorems hold of behaviours with any number of them.

**Arguments.**

* *EventConsumer.* `TypeOK`, `InHand` (what a consumer knows of the event in
  hand: it can be handled, it succeeded before it is marked, there is a cause
  before it is acknowledged), `NeverDropped`, `OrphansHaveACause` and
  `RunsAccounted` are inductive together. `OverlapBound` is not inductive: a
  consumer may be about to mark. `Accounted(k)` counts, until the key is marked,
  each run as one that is about to mark or was lost to a crash or a failed
  command; once it is marked only the handlers that already run are added.
* *WorkerPool.* `Balanced` (permits plus active tasks; tasks of down pools are
  gone) and `Custody` (each event is in one batch or one task; a task knows what
  it took, what was answered and why it may acknowledge) are inductive with
  `TypeOK`; `RunsMarked` says a key without a mark was never run, from which
  `AtMostOneRun`. `OrphansHaveACause` is inductive with `LoopsFine` (a loop that is
  not between read and spawn has no batch, and as long as nobody has stopped a
  pool, one that is up is running), `TakenIsAnswered` with `MarksOwned` (a mark names an entry of
  its key). `OneAnswer` is not: a task can be about to give a wrong answer. `Paid`
  counts the wrong answers published and those about to be, and each was paid by
  one failed command. `LastStart` follows because a loop that spawns sees the
  state at its next turn.
* *TaskLifecycle.* `CountsBounded` says that no copy of `fail_count` (in a hash,
  in a job's `seen`, in its `count`) is ahead of the increments; this is what
  makes `RlmJustified` hold though managers overwrite each other. `AllInformed`
  and `AllDone` say what each step of a job has established, from which
  `EffectBeforeAck`: a job that skips its event has the key of one that was settled
  before it (`SkippedIsSettled`), and what is settled stays so (`SettledStays`). With one manager, `SeenFresh`: the hash a job read is still
  the hash when it is written, which makes `Write` an `Advance`.
* *HitlGate.* `RequestsAreTrue` is strengthened by what a job knows at each step
  (`JobKnows`: a caller that announces has logged and audited, one that has written
  left a closed request, one that has yet to list a request is alone with it) and by what others may see (`SeenTo`: a closed request
  that is still listed is being taken off the list, and one that is not announced
  is being announced). A step of one job is summed up once (`Moved`: what is known,
  logged, audited, published and late only grows, and a status changes only under
  the job that is on it), and what it says is enough for every other job.
* *GateDesk.* The bridge's part is two inductive invariants, `ClickInv` and
  `PostInv`. In the first, `Bounded` counts, per request, those who are in the
  critical section or left it with the record unwritten: each is there by the lock,
  or by a fault or an expiry. `Calm` is the same without faults: one holder, and a
  record that says what the outcome was. A message has its evidence because what is
  in the stream was published, and who publishes has stored and logged (`Evidence`).
* *Governance.* The invariants of the two parts carry over to the composition, the
  gates' by an instance of `GateDeskProofs`. Between them `LogGranted`,
  `JobsGranted` and `CompleteGranted` follow an approval from the gate's event, or from
  Slack, to the managers' log (`ForwardingKeeps`), to the job that handles it, and to
  the task; that the gate's was logged before is `AnnouncedWasLogged`.
* *GitGateway.* `PatchMoves`: a patch is in the tree, in the index or in the log,
  as far as its call is, whoever moved it on; that is `AppliedIsCommitted` in
  spite of any interleaving. The rest is of calls one at a time: between them the
  tree has what rejected ones left (`Left`), and with them the change of the one underway
  (`TreeIsOf`). That a rejected patch made no commit needs no such care: `Committers`.
* *ClassificationQueue.* `Apart` and `AllPlaced` (one place for each idea) are kept
  by each kind of move (`PlacesMove`). `RecordsTrue` says of the record, and of each
  copy that a worker is about to write, that it counts no more than what was
  decided (`Within`); a write only adds what its own worker decided. `TriesCount`
  bounds the calls by the tries of the item.
* *CoordinationMailbox, MessageQueries.* `AnsweredIsRead`: who is about to write an
  acknowledgement over another was there before it, or was caught by the expiry.
  `NotificationsKept` is inductive: it names each place in which a notification can end.
  `SteadyIsSeen` follows the messages that stay as they are through a query: each is
  yet to be read, was read, or has too many newer ones (`TooOld`), from which
  `NewestAnswered`, that the cut to the limit leaves out none that is newer.
* *SwarmReview, RlmExplore.* `SlotsFree`: without overlap the one admitted request
  has a slot. `WaitedForAll`: each step after the wait has the results of everyone,
  because a result is stored before its reviewer counts as done (`ResultsFirst`);
  `SessionsFollow` ties the session to the background task. `OneIterates` and
  `CallsCounted`: one exploration is in an iteration, and what it spent is in the
  counter that limits it.
* *TddLoop, StageGates.* `FailuresPay`: each version after the first answers a
  failure, which the retries bound. `AnalysisFollows`: an analysis exists only above
  the coder's retries, where each failure renews or drops it. `GatesPassed` says of
  the stage reached which gates are behind it, `HeldOf` which request the caller
  holds, or which gate was left out instead.
* *HealthAndTelemetry.* `ChecksAreRecent`: an update that asked Redis since it last
  changed carries what Redis is, so that what is stored of it is checked;
  `OnlyOrchestratorAsks` has no such update, and tells of Redis nothing. What a
  listing of agents has gone through (`ThroughoutIsRead`, `SometimesIsNow`) is the key
  space at its steps. `ToldAs`: each cached or shown value is of a tick within its time
  to live, or made up at a tick without an answer; two answers of one tick are equal.
  That pages of one answer share no pod is a lemma about ranks (`RanksDown`), by
  induction over numbers (`AllNumbers`, from a least counterexample: the one induction
  the provers can be given, as the set of counterexamples is a first-order object).
* *Credentials.* A key, its configuration and its client: `HeldAsJudged` says that
  every call that holds what it read of a key read the verdict that stands, unless a
  call that had read it before has written it again, and `GoneIsNotHeld` that nobody
  holds anything of a deleted key. Integrations: `TestedRight` ties the verdict that
  a test is about to write to what the credential is and how its provider was
  reached, `ValidAsTested` the record to it. Secrets: each path was written for a
  secret of that path (`WrittenThere`), and two secrets share a path only when one is
  of `prod` and bears a prefix in its own name (`PathsDiffer`, about sequences), from
  which a value that is read is the secret's own, or that of a known other.
* *GraphAndKnowledge.* In a type without overlap or failure at most one call is
  under way (`OneAtATime`), and `MadeAsFar` says of each edge how far the sets are
  from the answered calls, by the step that call has reached (`Reached`). A document
  in an index was indexed for that tenant (`DocsAreOfTenants`), and an index that a
  client remembers was made with its mapping or removed (`IndicesAreMade`).
* *AgentRuns.* `RunsInOrder`: a run is at a stage of its agent with tries left of it,
  and what it asked is at most the sum of the tries of the stages before (`CallsPaid`,
  with the sum as a recursive function, `TriesAreSummed`) and its own; `OneWrites`:
  until a write fails or a run writes between the two writes of another, one is
  between them and the first artifact is its own. The verdicts are each computed in one step:
  `ReviewIsMerged` and `SecurityIsOfFindings` say of which findings.
* *ReviewFindings.* `ReadSoFar`: of the files up to the place reached, each is taken,
  or there is its cause, and the sum of the lines is that of the taken ones.
  `Divided`: the entries of the report share the findings among them, none is in two,
  and each covers its own in lines, severity and reviewers. `Compared`: two entries
  repeat each other only if one was widened by a merge after they were compared, so that
  the two stand for three findings or more (`ThreeFindings`).
* *SwarmStatus.* Two parts: what the hash may say at each step of the background task
  (`CompleteInOrder`, `Reportless`: complete without a report is between its two
  writes or after a command that raised), and whose results it sums up (`Awaited`,
  `AllGathered`, `PollInTime`, `AnswerInTime`: of everyone who was waited for, if no
  one was late and no results expired before they were read).
* *IdeationChat, the chats.* `ExchangesInv`: a chat that stored its question has it
  among the messages, and each answer comes after its question, in what is stored and
  in what is shown (`Answered...`, about sequences that grow at their end). `ScoresInv`:
  while no two chats cross, who holds scores holds the stored ones, and these are the
  ones that a chat or a draft asked for last.
* *IdeationChat, readiness.* Each maturity there is, kept or shown, fits
  (`FitsTogether`): its level, its gaps and whether it is ready are of its own total
  and scores, and its total is less than a point from the sum of its scores. What is
  cut to whole points stays so because the bounds are whole (`BoundsAreWhole`,
  `ColumnSaysTheSame`), and a total grows with each of its scores (`TotalsAreNear`, by
  induction over the aspects), which is why a session only stops being ready where a
  score falls or the cut made the difference (`ReadyLost`).
* *IdeaLabels.* Of the document: `ChoiceIsAlone` (since a person chose no call is on its
  way to the model), `ResultIsWritten` (one classification at a time is between storing
  its result and writing the document) and `HeldAreThere` (labels that are held are
  those of the document) are inductive under the faults the properties excuse. Of the
  taxonomy: `HeldIsStored`, `HeldDiffer` and `SortingKnows` say the same of the calls
  that read it, write it whole, and classify by it.
* *RequirementTrace.* The filters of the code are functions over the places of a list;
  what they keep stood at the given places, in the same order, each once
  (`StoodAt`, `SelectionsKeep`). A requirement that is converted is there exactly once
  (`ConvertedOnce`), and one that is matched is the first of its id (`MatchedIsFirst`).
  The mentions of an id are the sum over the criteria (`MentionsAreSummed`), so two of
  them are of two criteria or of one that repeats the id (`LevelsAreCounted`).
* *Documents.* The classes of agents need no key and have only such parts
  (`SchemaOfAgents`, class by class, `PartsWithin`), so that a missing key does not
  fail their reading; an unharmed document is as it was written, and its date changes
  only after its `created_at` was missing (`DateIsWritten`).

* *RepoIngest, the chunks.* `CutCovers` follows the loop over the lines: after each, the
  chunks that are done and the one under way cover the lines so far, none has a gap, nor is
  there one between two (`Covers`), and a chunk fits or is the overlap and one line (`Bounded`). `IngestGoesOn` ties the documents to the
  chunks of the revision that is read, up to the one that is next, and `EndedStays`
  keeps this until another run has indexed a chunk.
* *RepoIngest, the packs.* A search over a queue is a function over its turns. The queue
  is in the order of the depths, of two neighbouring ones at most (`Rising`); who
  was visited was reached at its depth by a chain of imports, which is the shortest; what an
  expanded file imports is visited or waits (`Complete`). The work that is left goes down
  with each turn (`TurnsLeft`), so that the turns there are end with an empty queue. A pass
  over the files (`Passed`) keeps to the budget, drops nothing, and leaves out only what has
  no room: three passes are a pack, which stays what was selected (`PackWasSelected`).
* *RlmTools.* An entry of the log is right of the module as it was at its call (`Tells`),
  so that an edit, which changes the module, changes nothing that was told. What a tool
  returns is a filter, a join or a piece of sequences: `AmongIs` and `FlattenIs` say where
  each element of these stood, in which order, and `FlattenApart` that two places of what is
  joined are two places of the parts. A symbol that is told twice comes from two levels of the
  walk, and so is a method. Of the trigger: `AskedIsDone` ties
  the spellings of a word to what was asked last, and `CheckedAsTold` the reason to them.
* *RlmQueries.* The questions: an entry is in the cache once (`KeptOnce`), and the
  counters move together with each way a question can go. The audits: numbers are given
  in the order of the clock (`AuditsNumbered`), the index and each copy of it are in that
  order (`ListsOrdered`), a file holds the result of its name unless it was deleted or
  replaced (`DiskHolds`), and a result that is listed before another one of its task has no
  gap after it (`NoGaps`), from which the one that is loaded is the newest.

A sum, a filter, a join or a search that the code computes by a loop is a recursive function in
these modules. That there is one function for its equation is proved
first, one item longer at each step of an induction (`SumsExist`, `SelectionsExist`); what
it computes follows by a second induction. The induction itself is `AllNumbers`, over
sets of numbers instead of formulas. In `ExplorationProofs` this is done once, for any loop: a
step is a function (an argument that is a set, so that the theorem needs no operator as
a parameter), a loop that stays in a set has a value at each turn
(`RecursionExists`), and what each turn keeps, all of them keep (`RecursionStays`).
`FlattenSeq` of the community modules is such a function too; `SelectSeq` is not defined by
one that the provers can open, so `RlmTools` filters with a function of its own (`Among`), and
nothing is proved of which logs are shown.

**Only model-checked**: liveness (`EventuallyAcked`, `HandoverRecovers`,
`StopEndsLoop`, `ShutdownEnds`, `DeskMovesOn`, and the endings in `EndsAreReached`),
which is out of the prover's reach. Every safety property and every action property that a
passing run checks is stated by a theorem.

The proofs found imprecisions of the models and of what they stated:

* Two `CASE` expressions, of the query's index in `MessageQueries` and of the next
  stage in `StageGates`, had guards that overlap. TLC takes the first guard that
  holds, but TLA+ leaves it open; the guards now exclude each other, as the
  `if`/`elif` of the code does.
* "A file that is left out was larger than what remained" is false of a file without
  lines once `MAX_LINES` is reached, because the loop stops there whatever comes next:
  the property says so now, and the instance has files of 0 lines.
* `max_retries` may be 0: then a stage is never asked, and an agent that requires its
  answer fails without a call. `retries` is a variable of `AgentRuns` for that.

## 5. Not modelled, and the plan

**Not modelled**, and why:

* The web UI, charts, shell scripts and command line tools: presentation and
  deployment. Only when the UI stops polling a swarm is used.
* `SessionManager`, but as a source of errors of `update_git_sha`; `list_tasks_by_state`;
  the other commands of `GitGateway`, which have no callers; `claim_stale_events`,
  which has none either.
* Slack's message formats, its idea handler and the socket: the connection is a
  library's.
* The statistics and the reconnection of the coordination client; its MCP server,
  which passes calls on.
* Compaction of an exploration's context, prompts and the wording of answers: what
  matters of an answer is which of a few shapes it has.
* Parsers for languages other than Python; Chroma and the embeddings: similarity
  is numeric, and the stores are modelled by what they hold.
* Repositories over SQL with one statement per call, models that are data only,
  and Prometheus counters.
* `devops_activity`: the activity of an operation is rebuilt from messages that a
  shell script outside the service publishes.

**To prove next**: an abstract specification of a gate, with one decision, that `HitlGate`
implements where no two deciders race. Liveness stays with TLC.

Worth modelling next: `mapper.py`'s cache of contexts, whose age is not checked.
