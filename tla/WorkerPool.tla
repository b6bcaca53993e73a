----------------------------- MODULE WorkerPool -----------------------------
(***************************************************************************)
(* WorkerPool (src/src/workers/pool/worker_pool.py) with its EventConsumer *)
(* and WorkerIdempotencyTracker, started and stopped as workers/main.py    *)
(* does.  Several pools (replicas) share one consumer group.               *)
(*                                                                         *)
(* Within a pool one asyncio loop runs the event loop, one task for each   *)
(* event and stop(); a step is what one of them does between two awaits.   *)
(* A Redis command and the code that uses its reply are one step, so a     *)
(* crash or a cancellation after it stands for a command that was executed *)
(* and whose reply was lost, and one before it for a command that was not. *)
(*                                                                         *)
(* An entry is delivered at most once: nothing calls claim_stale_events.   *)
(* Marks do not expire: their 7 days are longer than any run considered.   *)
(***************************************************************************)
EXTENDS EventEntries, FiniteSets

CONSTANTS Pools,         \* worker processes, each with one pool
          PoolSize,      \* WorkerConfig.pool_size
          BatchSize,     \* WorkerConfig.batch_size
          MaxLen,        \* XADD MAXLEN
          Publishable,   \* the entries the environment publishes
          MaxEvents,     \* bound: stream length up to which it publishes
          MaxCrashes,    \* bound: process crashes
          MaxFaults,     \* bound: Redis commands that raise
          MaxStops       \* bound: shutdown signals

\* _get_event_idempotency_key generates a key for an event without one.
ASSUME PoolAssumption ==
    /\ PoolSize \in Nat \ {0}
    /\ BatchSize \in Nat \ {0}
    /\ MaxLen \in Nat \ {0}
    /\ Publishable \subseteq Entry
    /\ \A e \in Publishable : CanHandle(e) => e.key \in Keys
    /\ MaxEvents \in Nat
    /\ MaxCrashes \in Nat
    /\ MaxFaults \in Nat
    /\ MaxStops \in Nat

VARIABLES
    \* Redis
    stream,      \* every entry ever added; entry i has id i
    trimmed,     \* entries 1..trimmed were evicted by MAXLEN
    cursor,      \* the group's last delivered id
    pending,     \* the group's pending entries list
    marks,       \* WorkerIdempotencyTracker: for each key the id stored, or 0
    \* worker processes
    state,       \* WorkerPool._state
    loop,        \* what _run_event_loop awaits
    batch,       \* ids read and not yet acknowledged or made a task
    permits,     \* WorkerPool._semaphore
    tasks,       \* the tasks of _active_tasks, and what each awaits
    stopper,     \* what stop() awaits
    waited,      \* the ids whose tasks stop() gathered
    \* history
    acked,       \* ids acknowledged
    succeeded,   \* ids whose agent returned success
    completed,   \* ids answered with AGENT_COMPLETED
    errored,     \* ids answered with AGENT_ERROR
    runs,        \* agent dispatches per key
    crashes, faults, stops

redisVars == <<stream, trimmed, cursor, pending, marks>>
loopVars  == <<state, loop, batch>>
taskVars  == <<permits, tasks>>
stopVars  == <<stopper, waited>>
histVars  == <<acked, succeeded, completed, errored, runs>>
envVars   == <<crashes, faults, stops>>
vars      == <<redisVars, loopVars, taskVars, stopVars, histVars, envVars>>

Ids == 1..Len(stream)
Answer == [key |-> NoKey, kind |-> "foreign"]

Steps == {"mark", "agent", "completed", "failed", "ack", "skip", "giveup", "giveack"}
Loops == {"down", "read", "sift", "spawn", "acquire", "backoff", "ended"}

TypeOK ==
    /\ stream \in Seq(Entry)
    /\ trimmed \in 0..Len(stream)
    /\ cursor \in 0..Len(stream)
    /\ pending \subseteq 1..cursor
    /\ marks \in [Keys -> 0..cursor]
    /\ state \in [Pools -> {"stopped", "running", "shutting_down"}]
    /\ loop \in [Pools -> Loops]
    /\ batch \in [Pools -> SUBSET (1..cursor)]
    /\ permits \in [Pools -> 0..PoolSize]
    /\ tasks \subseteq [pool : Pools, id : 1..cursor, step : Steps]
    /\ stopper \in [Pools -> {"none", "waiting", "cancelling"}]
    /\ waited \in [Pools -> SUBSET (1..cursor)]
    /\ acked \subseteq 1..cursor
    /\ succeeded \subseteq 1..cursor
    /\ completed \subseteq 1..cursor
    /\ errored \subseteq 1..cursor
    /\ runs \in [Keys -> Nat]
    /\ crashes \in Nat /\ faults \in Nat /\ stops \in Nat

Init ==
    /\ stream \in {<<>>, <<Placeholder>>}
    /\ trimmed = 0
    /\ cursor = 0
    /\ pending = {}
    /\ marks = [k \in Keys |-> 0]
    /\ state = [p \in Pools |-> "stopped"]
    /\ loop = [p \in Pools |-> "down"]
    /\ batch = [p \in Pools |-> {}]
    /\ permits = [p \in Pools |-> PoolSize]
    /\ tasks = {}
    /\ stopper = [p \in Pools |-> "none"]
    /\ waited = [p \in Pools |-> {}]
    /\ acked = {}
    /\ succeeded = {}
    /\ completed = {}
    /\ errored = {}
    /\ runs = [k \in Keys |-> 0]
    /\ crashes = 0 /\ faults = 0 /\ stops = 0

-----------------------------------------------------------------------------
(* Redis.                                                                  *)

\* XADD MAXLEN ~ n may evict any number of the excess entries.
XAdd(e) ==
    /\ stream' = Append(stream, e)
    /\ trimmed' \in {t \in trimmed..(Len(stream) + 1) :
                        t = trimmed \/ t + MaxLen <= Len(stream) + 1}

Publish ==
    /\ Len(stream) < MaxEvents
    /\ \E e \in Publishable : XAdd(e)
    /\ UNCHANGED <<cursor, pending, marks, loopVars, taskVars, stopVars, histVars,
                   envVars>>

Oldest(S, n) == {i \in S : Cardinality({j \in S : j < i}) < n}
Firsts(S) == {i \in S : \A j \in S : i <= j}    \* the least id of S, if any

\* XREADGROUP ">" delivers the next entries that still exist.
Fresh == Oldest({i \in Ids : i > cursor /\ i > trimmed}, BatchSize)
Deliver == /\ cursor' \in Fresh /\ \A i \in Fresh : i <= cursor'
           /\ pending' = pending \cup Fresh

XAck(i) == pending' = pending \ {i} /\ acked' = acked \cup {i}

Active(p) == {t \in tasks : t.pool = p}
Goto(p, label) == loop' = [loop EXCEPT ![p] = label]

-----------------------------------------------------------------------------
(* The event loop of start().                                              *)

Start(p) ==
    /\ loop[p] = "down"
    /\ state' = [state EXCEPT ![p] = "running"]
    /\ Goto(p, "read")
    /\ UNCHANGED <<redisVars, batch, taskVars, stopVars, histVars, envVars>>

\* The head of the while loop: go on reading, or let start() return.
NextTurn(p) ==
    IF state[p] = "running"
    THEN Goto(p, "read") /\ UNCHANGED state
    ELSE Goto(p, "ended") /\ state' = [state EXCEPT ![p] = "stopped"]

\* xreadgroup returns entries, also when stop() was called while it waited.
Read(p) ==
    /\ loop[p] = "read"
    /\ Deliver
    /\ batch' = [batch EXCEPT ![p] = Fresh]
    /\ Goto(p, "sift")
    /\ UNCHANGED <<stream, trimmed, marks, state, taskVars, stopVars, histVars,
                   envVars>>

\* xreadgroup returns nothing after a second.
ReadNothing(p) ==
    /\ loop[p] = "read" /\ Fresh = {}
    /\ NextTurn(p)
    /\ UNCHANGED <<redisVars, batch, taskVars, stopVars, histVars, envVars>>

\* read_events acknowledges, one by one, the entries for other groups.  An
\* entry that does not parse raises, which drops the batch.
Odd(p) == Firsts({i \in batch[p] : ~CanHandle(stream[i])})

Sift(p) ==
    /\ loop[p] = "sift"
    /\ \/ /\ \A i \in batch[p] : CanHandle(stream[i])
          /\ Goto(p, "spawn")
          /\ UNCHANGED <<pending, acked, batch>>
       \/ \E i \in Odd(p) :
            /\ Parses(stream[i])
            /\ XAck(i)
            /\ batch' = [batch EXCEPT ![p] = @ \ {i}]
            /\ UNCHANGED loop
       \/ \E i \in Odd(p) :
            /\ ~Parses(stream[i])
            /\ batch' = [batch EXCEPT ![p] = {}]
            /\ Goto(p, "backoff")
            /\ UNCHANGED <<pending, acked>>
    /\ UNCHANGED <<stream, trimmed, cursor, marks, state, taskVars, stopVars,
                   succeeded, completed, errored, runs, envVars>>

\* Mutant: the semaphore is not acquired.
ChosenUnlimited(p) == batch[p]

\* The for loop over the events: _state is tested before each, and the loop
\* only yields when the semaphore is exhausted.  When it is released, the event
\* that waited is made a task without a second test.
Chosen(p) == IF state[p] = "running" THEN Oldest(batch[p], permits[p])
             ELSE IF loop[p] = "acquire" THEN Firsts(batch[p]) ELSE {}

SpawnAll(p, S) ==
    /\ tasks' = tasks \cup {[pool |-> p, id |-> i, step |-> "mark"] : i \in S}
    /\ permits' = [permits EXCEPT ![p] = @ - Cardinality(S)]

\* Mutant: an event that got its permit stays in the batch.
SpawnAgain(p) ==
    /\ loop[p] = "spawn" \/ (loop[p] = "acquire" /\ permits[p] > 0)
    /\ SpawnAll(p, Chosen(p))
    /\ \/ /\ state[p] = "running" /\ batch[p] # Chosen(p)
          /\ Goto(p, "acquire")
          /\ UNCHANGED <<state, batch>>
       \/ /\ state[p] # "running" \/ batch[p] = Chosen(p)
          /\ batch' = [batch EXCEPT ![p] = {}]
          /\ NextTurn(p)
    /\ UNCHANGED <<redisVars, stopVars, histVars, envVars>>

\* Mutant: _state is not tested before the loop waits for a permit.
SpawnUntested(p) ==
    /\ loop[p] = "spawn" \/ (loop[p] = "acquire" /\ permits[p] > 0)
    /\ SpawnAll(p, Chosen(p))
    /\ batch' = [batch EXCEPT ![p] = @ \ Chosen(p)]
    /\ IF batch[p] = Chosen(p) THEN NextTurn(p) ELSE Goto(p, "acquire") /\ UNCHANGED state
    /\ UNCHANGED <<redisVars, stopVars, histVars, envVars>>

\* Mutant: the events for which there is no permit are dropped.
SpawnDropsRest(p) ==
    /\ loop[p] = "spawn"
    /\ SpawnAll(p, Chosen(p))
    /\ batch' = [batch EXCEPT ![p] = {}]
    /\ NextTurn(p)
    /\ UNCHANGED <<redisVars, stopVars, histVars, envVars>>

Spawn(p) ==
    /\ loop[p] = "spawn" \/ (loop[p] = "acquire" /\ permits[p] > 0)
    /\ SpawnAll(p, Chosen(p))
    /\ \/ /\ state[p] = "running" /\ batch[p] # Chosen(p)
          /\ batch' = [batch EXCEPT ![p] = @ \ Chosen(p)]
          /\ Goto(p, "acquire")
          /\ UNCHANGED state
       \/ /\ state[p] # "running" \/ batch[p] = Chosen(p)
          /\ batch' = [batch EXCEPT ![p] = {}]
          /\ NextTurn(p)
    /\ UNCHANGED <<redisVars, stopVars, histVars, envVars>>

\* asyncio.sleep(1) after an error.
Backoff(p) ==
    /\ loop[p] = "backoff"
    /\ NextTurn(p)
    /\ UNCHANGED <<redisVars, batch, taskVars, stopVars, histVars, envVars>>

-----------------------------------------------------------------------------
(* _process_event.                                                         *)

Key(t) == stream[t.id].key
Move(t, label) == /\ tasks' = (tasks \ {t}) \cup {[t EXCEPT !.step = label]}
                  /\ UNCHANGED permits

\* The tasks in S end, and _task_done is called for each.
End(p, S) == /\ tasks' = tasks \ S
             /\ permits' = [permits EXCEPT ![p] = @ + Cardinality(S)]

\* Mutant: check_and_mark_if_new only checks.
SetNXMissing(t) == UNCHANGED marks

\* SET NX of check_and_mark_if_new.
SetNX(t) == marks' = [marks EXCEPT ![Key(t)] = IF @ = 0 THEN t.id ELSE @]

\* Mutant: a duplicate is answered with AGENT_ERROR.
MarkDuplicateAnswered(t) ==
    /\ t.step = "mark"
    /\ SetNX(t)
    /\ \/ /\ marks[Key(t)] = 0
          /\ runs' = [runs EXCEPT ![Key(t)] = @ + 1]
          /\ Move(t, "agent")
       \/ /\ marks[Key(t)] # 0
          /\ Move(t, "giveup")
          /\ UNCHANGED runs
    /\ UNCHANGED <<stream, trimmed, cursor, pending, loopVars, stopVars, acked,
                   succeeded, completed, errored, envVars>>

Mark(t) ==
    /\ t.step = "mark"
    /\ SetNX(t)
    /\ \/ /\ marks[Key(t)] = 0
          /\ runs' = [runs EXCEPT ![Key(t)] = @ + 1]
          /\ Move(t, "agent")
       \/ /\ marks[Key(t)] # 0
          /\ Move(t, "skip")
          /\ UNCHANGED runs
    /\ UNCHANGED <<stream, trimmed, cursor, pending, loopVars, stopVars, acked,
                   succeeded, completed, errored, envVars>>

\* Mutant: a failed result is acknowledged without being published.
AgentFailsSilently(t) ==
    /\ t.step = "agent"
    /\ \/ Move(t, "completed") /\ succeeded' = succeeded \cup {t.id}
       \/ Move(t, "ack") /\ UNCHANGED succeeded
       \/ Move(t, "giveup") /\ UNCHANGED succeeded
    /\ UNCHANGED <<redisVars, loopVars, stopVars, acked, completed, errored, runs,
                   envVars>>

\* dispatch returns a successful or a failed result, or raises (no agent of
\* that type, or an exception of the agent).
Agent(t) ==
    /\ t.step = "agent"
    /\ \/ Move(t, "completed") /\ succeeded' = succeeded \cup {t.id}
       \/ Move(t, "failed") /\ UNCHANGED succeeded
       \/ Move(t, "giveup") /\ UNCHANGED succeeded
    /\ UNCHANGED <<redisVars, loopVars, stopVars, acked, completed, errored, runs,
                   envVars>>

\* Mutant: AGENT_COMPLETED whatever result.success is.
AddResultCompleted(t) ==
    /\ XAdd(Answer)
    /\ completed' = IF t.step = "giveup" THEN completed ELSE completed \cup {t.id}
    /\ errored' = IF t.step = "giveup" THEN errored \cup {t.id} ELSE errored

AddResult(t) ==
    /\ XAdd(Answer)
    /\ completed' = IF t.step = "completed" THEN completed \cup {t.id} ELSE completed
    /\ errored' = IF t.step = "completed" THEN errored ELSE errored \cup {t.id}

PublishResult(t) ==
    /\ t.step \in {"completed", "failed"}
    /\ AddResult(t)
    /\ Move(t, "ack")
    /\ UNCHANGED <<cursor, pending, marks, loopVars, stopVars, acked, succeeded, runs,
                   envVars>>

\* The handlers of AgentNotFoundError and Exception.
PublishError(t) ==
    /\ t.step = "giveup"
    /\ AddResult(t)
    /\ Move(t, "giveack")
    /\ UNCHANGED <<cursor, pending, marks, loopVars, stopVars, acked, succeeded, runs,
                   envVars>>

\* Mutant: a duplicate returns without being acknowledged.
AcknowledgeNotSkipped(t) ==
    /\ t.step \in {"ack", "skip", "giveack"}
    /\ IF t.step = "skip" THEN UNCHANGED <<pending, acked>> ELSE XAck(t.id)
    /\ End(t.pool, {t})
    /\ UNCHANGED <<stream, trimmed, cursor, marks, loopVars, stopVars, succeeded,
                   completed, errored, runs, envVars>>

Acknowledge(t) ==
    /\ t.step \in {"ack", "skip", "giveack"}
    /\ XAck(t.id)
    /\ End(t.pool, {t})
    /\ UNCHANGED <<stream, trimmed, cursor, marks, loopVars, stopVars, succeeded,
                   completed, errored, runs, envVars>>

-----------------------------------------------------------------------------
(* Shutting down, crashing and failing.                                    *)

\* handle_shutdown makes a task of stop().
Stop(p) ==
    /\ state[p] = "running"
    /\ stops < MaxStops
    /\ stops' = stops + 1
    /\ state' = [state EXCEPT ![p] = "shutting_down"]
    /\ waited' = [waited EXCEPT ![p] = {t.id : t \in Active(p)}]
    /\ stopper' = [stopper EXCEPT ![p] = IF Active(p) = {} THEN "none" ELSE "waiting"]
    /\ UNCHANGED <<redisVars, loop, batch, taskVars, histVars, crashes, faults>>

Gathered(p) == {t \in Active(p) : t.id \in waited[p]}

StopReturns(p) ==
    /\ stopper[p] = "waiting" /\ Gathered(p) = {}
    /\ stopper' = [stopper EXCEPT ![p] = "none"]
    /\ UNCHANGED <<redisVars, loopVars, taskVars, waited, histVars, envVars>>

\* Mutant: a cancelled task does not release its permit.
StopTimeoutLeaks(p) ==
    /\ stopper[p] = "waiting" /\ Gathered(p) # {}
    /\ tasks' = tasks \ Gathered(p)
    /\ stopper' = [stopper EXCEPT ![p] = "cancelling"]
    /\ UNCHANGED <<redisVars, loopVars, permits, waited, histVars, envVars>>

\* wait_for times out and cancels the gathered tasks: CancelledError is not an
\* Exception, so _process_event neither answers nor acknowledges.
StopTimeout(p) ==
    /\ stopper[p] = "waiting" /\ Gathered(p) # {}
    /\ End(p, Gathered(p))
    /\ stopper' = [stopper EXCEPT ![p] = "cancelling"]
    /\ UNCHANGED <<redisVars, loopVars, waited, histVars, envVars>>

\* stop() cancels what is active by then, and returns.
CancelRest(p) ==
    /\ stopper[p] = "cancelling"
    /\ End(p, Active(p))
    /\ stopper' = [stopper EXCEPT ![p] = "none"]
    /\ UNCHANGED <<redisVars, loopVars, waited, histVars, envVars>>

\* The process is gone, with the memory of its pool.
Down(p) ==
    /\ Goto(p, "down")
    /\ state' = [state EXCEPT ![p] = "stopped"]
    /\ batch' = [batch EXCEPT ![p] = {}]
    /\ tasks' = tasks \ Active(p)
    /\ permits' = [permits EXCEPT ![p] = PoolSize]
    /\ stopper' = [stopper EXCEPT ![p] = "none"]
    /\ waited' = [waited EXCEPT ![p] = {}]

\* async_main returns once start() has; asyncio.run cancels every other task.
Exit(p) ==
    /\ loop[p] = "ended"
    /\ Down(p)
    /\ UNCHANGED <<redisVars, histVars, envVars>>

Crash(p) ==
    /\ loop[p] # "down"
    /\ crashes < MaxCrashes
    /\ crashes' = crashes + 1
    /\ Down(p)
    /\ UNCHANGED <<redisVars, histVars, faults, stops>>

\* A Redis command of the event loop raises; the server may have executed it.
LoopFails(p) ==
    /\ faults < MaxFaults
    /\ faults' = faults + 1
    /\ \/ /\ loop[p] = "read"
          /\ Deliver \/ UNCHANGED <<cursor, pending>>
          /\ UNCHANGED <<batch, acked>>
       \/ /\ loop[p] = "sift"
          /\ \E i \in Odd(p) : Parses(stream[i])
                               /\ (XAck(i) \/ UNCHANGED <<pending, acked>>)
          /\ batch' = [batch EXCEPT ![p] = {}]
          /\ UNCHANGED cursor
    /\ Goto(p, "backoff")
    /\ UNCHANGED <<stream, trimmed, marks, state, taskVars, stopVars, succeeded,
                   completed, errored, runs, crashes, stops>>

\* A Redis command of a task raises.  The first time _process_event publishes
\* AGENT_ERROR instead; raised in there, the exception ends the task.
TaskFails(t) ==
    /\ faults < MaxFaults
    /\ faults' = faults + 1
    /\ \/ /\ t.step = "mark"
          /\ SetNX(t) \/ UNCHANGED marks
          /\ UNCHANGED <<stream, trimmed, pending, acked, completed, errored>>
       \/ /\ t.step \in {"completed", "failed", "giveup"}
          /\ AddResult(t) \/ UNCHANGED <<stream, trimmed, completed, errored>>
          /\ UNCHANGED <<pending, marks, acked>>
       \/ /\ t.step \in {"ack", "skip", "giveack"}
          /\ XAck(t.id) \/ UNCHANGED <<pending, acked>>
          /\ UNCHANGED <<stream, trimmed, marks, completed, errored>>
    /\ IF t.step \in {"giveup", "giveack"} THEN End(t.pool, {t}) ELSE Move(t, "giveup")
    /\ UNCHANGED <<cursor, loopVars, stopVars, succeeded, runs, crashes, stops>>

-----------------------------------------------------------------------------
EventLoop(p) == Read(p) \/ ReadNothing(p) \/ Sift(p) \/ Spawn(p) \/ Backoff(p)
Stopping(p)  == StopReturns(p) \/ StopTimeout(p) \/ CancelRest(p) \/ Exit(p)
Process(t)   == Mark(t) \/ PublishResult(t) \/ PublishError(t) \/ Acknowledge(t)

Next == \/ Publish
        \/ \E p \in Pools : \/ Start(p) \/ EventLoop(p) \/ Stop(p) \/ Stopping(p)
                            \/ Crash(p) \/ LoopFails(p)
        \/ \E t \in tasks : Process(t) \/ Agent(t) \/ TaskFails(t)

Spec == Init /\ [][Next]_vars

\* asyncio runs what is not blocked, Redis answers, the timeout of stop()
\* expires, and a process that is down is started (Kubernetes restarts it).
\* Agents need not return: nothing enforces event_timeout_seconds.
LiveSpec ==
    /\ Spec
    /\ \A p \in Pools : WF_vars(Start(p)) /\ WF_vars(EventLoop(p)) /\ WF_vars(Stopping(p))
    /\ \A i \in 1..MaxEvents : WF_vars(\E t \in tasks : t.id = i /\ Process(t))

-----------------------------------------------------------------------------
(* Properties.                                                             *)

Requests == INSTANCE AgentRequests
                WITH log <- stream, taken <- marks, settled <- acked

ActiveIds == {t.id : t \in tasks}
Answered == completed \cup errored
AllParse == \A i \in Ids : Parses(stream[i])

\* An event is in one place: in the batch of one pool, or in one task.
OneHolder ==
    /\ \A t, u \in tasks : t.id = u.id => t = u
    /\ \A p \in Pools : /\ batch[p] \cap ActiveIds = {}
                        /\ \A q \in Pools \ {p} : batch[p] \cap batch[q] = {}

\* Requests have a key, and only requests become tasks.
Requested ==
    /\ \A i \in Ids : CanHandle(stream[i]) => stream[i].key \in Keys
    /\ \A p \in Pools : loop[p] \in {"spawn", "acquire"} =>
           \A i \in batch[p] : CanHandle(stream[i])
    /\ \A t \in tasks : CanHandle(stream[t.id])

\* An event that has not been through check_and_mark_if_new has not taken a key.
NotTaken(i) == \A k \in Keys : marks[k] # i
Untaken ==
    /\ \A p \in Pools : \A i \in batch[p] : NotTaken(i)
    /\ \A t \in tasks : t.step = "mark" => NotTaken(t.id)

\* What a task knows of its event: it took its key when its agent runs, and it
\* is acknowledged for a reason.
Known(t) ==
    /\ t.step \in {"agent", "completed", "failed"} => marks[Key(t)] = t.id
    /\ t.step = "completed" => t.id \in succeeded
    /\ t.step \in {"ack", "giveack"} => t.id \in Answered
    /\ t.step = "skip" => Requests!Duplicate(t.id)
TasksKnown == \A t \in tasks : Known(t)

\* From XREADGROUP to XACK an event is in the hands of one pool, which knows
\* what has been done about it, across replicas, crashes, failed commands and
\* cancellations (the inductive invariant behind the theorems).
Custody == OneHolder /\ Requested /\ Untaken /\ TasksKnown

\* The semaphore limits the agents that run at once to pool_size, and loses or
\* gains no permit: not when a task fails, is cancelled by stop(), or is made
\* while stop() waits (WorkerPool._semaphore, _task_done).
PermitsBalanced ==
    \A p \in Pools : permits[p] + Cardinality(Active(p)) = PoolSize

\* No key has its agent run twice, in whichever pools, and whatever crashes,
\* fails or is cancelled (check_and_mark_if_new before dispatch).
AtMostOneRun == \A k \in Keys : runs[k] <= 1

\* A pending entry that no batch or task holds is never looked at again; it is
\* left behind by a crash, a failed command, a shutdown or an entry that does
\* not parse, and by nothing else that _run_event_loop or _process_event does.
OrphansHaveACause ==
    pending \subseteq ActiveIds \cup UNION {batch[p] : p \in Pools}
        \/ crashes + faults + stops > 0
        \/ \E i \in 1..cursor : ~Parses(stream[i])

\* A key that is taken up refuses every later request.  So the entry that took
\* it must be in progress or answered, unless its pool was cut off
\* (_process_event marks first and answers last).
TakenIsAnswered ==
    \A k \in Keys : marks[k] # 0 =>
        \/ marks[k] \in ActiveIds \cup Answered
        \/ crashes + faults + stops > 0

\* A request gets the answer its agent earned, once, and a duplicate gets none;
\* every wrong answer (an AGENT_ERROR for an agent that succeeded, or an answer
\* for an entry that did not take up its key) costs a failed command
\* (_process_event publishes in three places).
WrongAnswers == {i \in Answered : \/ marks[stream[i].key] # i
                                  \/ i \in succeeded \cap errored}
OneAnswer == Cardinality(WrongAnswers) <= faults

\* The pools take up a request at most once and acknowledge it only for one of
\* the reasons AgentRequests names (order of _process_event).
Implements == Requests!Spec

\* stop() lets at most one more agent start: the event that waited for the
\* semaphore when it was called (_run_event_loop tests _state before each event,
\* and not again when it has the permit).
Spawned(p) == {t.id : t \in Active(p)'} \ {t.id : t \in Active(p)}
LastStart ==
    [][\A p \in Pools : state[p] = "shutting_down" /\ Spawned(p) # {} =>
           Cardinality(Spawned(p)) = 1 /\ loop'[p] = "ended"]_vars

\* While nothing fails, crashes or is stopped and all agents return, every
\* request is answered or found a duplicate, and acknowledged, though requests
\* wait for permits (_run_event_loop, _process_event, _task_done).
AgentsReturn ==
    \A i \in 1..MaxEvents : []<>(\A t \in tasks : t.id = i => t.step # "agent")
EventuallyAcked ==
    \A i \in 1..MaxEvents :
        AgentsReturn => ((i \in Ids /\ AllParse)
                            ~> (i \in acked \/ i <= trimmed \/ crashes + faults + stops > 0))

\* A shutdown signal ends the process, even if agents never return and commands
\* fail (stop(), shutdown_timeout_seconds, _run_event_loop).
ShutdownEnds ==
    \A p \in Pools : (state[p] = "shutting_down") ~> (loop[p] = "down")

\* "In-progress agent executions complete before shutdown" (user_stories.md):
\* the process does not exit while a task is active.
InProgressCompletes == [][\A p \in Pools : Exit(p) => Active(p) = {}]_vars
=============================================================================
