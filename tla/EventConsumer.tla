---------------------------- MODULE EventConsumer ---------------------------
(***************************************************************************)
(* EventConsumer (src/src/infrastructure/consumer_group.py) over the Redis *)
(* stream and consumer group of src/src/infrastructure/redis_streams.py.   *)
(*                                                                         *)
(* One group, several consumer processes.  A step is what runs between two *)
(* awaits: one Redis command, or the completion of the handler.  Redis     *)
(* executes commands atomically; everything between them interleaves.      *)
(*                                                                         *)
(* The owner of a pending entry is not kept: no code of the repository     *)
(* reads it (XACK ignores it and XPENDING is never filtered by consumer).  *)
(***************************************************************************)
EXTENDS EventEntries, FiniteSets

CONSTANTS Consumers,     \* consumer processes of the group
          BatchSize,     \* EventConsumer.batch_size (XREADGROUP COUNT)
          PageSize,      \* the count=100 of process_pending's XPENDING
          MaxLen,        \* XADD MAXLEN
          Publishable,   \* the entries the environment publishes
          MaxEvents,     \* bound: entries ever added to the stream
          MaxCrashes,    \* bound: process crashes
          MaxFaults,     \* bound: Redis commands that raise
          MaxRetries,    \* bound: handler runs that ask for a retry or raise
          MaxStops       \* bound: calls of stop()

ASSUME ConsumerAssumption ==
    /\ IsFiniteSet(Consumers)
    /\ BatchSize \in Nat \ {0}
    /\ PageSize \in Nat \ {0}
    /\ MaxLen \in Nat \ {0}
    /\ Publishable \subseteq Entry
    /\ MaxEvents \in Nat
    /\ MaxCrashes \in Nat
    /\ MaxFaults \in Nat
    /\ MaxRetries \in Nat
    /\ MaxStops \in Nat

VARIABLES
    \* Redis
    stream,      \* every entry ever added; entry i has id i
    trimmed,     \* entries 1..trimmed were evicted by MAXLEN
    cursor,      \* the group's last delivered id
    pending,     \* the group's pending entries list
    stale,       \* pending entries idle for 60 s or more
    processed,   \* keys of IdempotencyTracker
    \* consumer processes
    pc,          \* what the consumer awaits
    mode,        \* "recover" in process_pending, "loop" in start
    batch,       \* ids claimed or read and not yet looked at
    cur,         \* id of the event in hand
    running,     \* EventConsumer._running
    \* history
    acked,       \* ids acknowledged
    succeeded,   \* ids some handler run succeeded on
    refused,     \* ids some handler run failed permanently on
    runs,        \* successful handler runs per key
    crashes, faults, retries, stops

redisVars == <<stream, trimmed, cursor, pending, stale, processed>>
procVars  == <<pc, mode, batch, cur, running>>
histVars  == <<acked, succeeded, refused, runs>>
envVars   == <<crashes, faults, retries, stops>>
vars      == <<redisVars, procVars, histVars, envVars>>

Ids == 1..Len(stream)
Evicted(i) == i <= trimmed

PCs == {"down", "claim", "next", "handle", "mark", "ack", "skip"}

TypeOK ==
    /\ stream \in Seq(Entry)
    /\ trimmed \in 0..Len(stream)
    /\ cursor \in 0..Len(stream)
    /\ pending \subseteq 1..cursor
    /\ stale \subseteq pending
    /\ processed \subseteq Keys
    /\ pc \in [Consumers -> PCs]
    /\ mode \in [Consumers -> {"recover", "loop"}]
    /\ batch \in [Consumers -> SUBSET (1..cursor)]
    /\ cur \in [Consumers -> 0..cursor]
    /\ running \in [Consumers -> BOOLEAN]
    /\ acked \subseteq 1..cursor
    /\ succeeded \subseteq 1..cursor
    /\ refused \subseteq 1..cursor
    /\ runs \in [Keys -> Nat]
    /\ crashes \in Nat /\ faults \in Nat /\ retries \in Nat /\ stops \in Nat

\* The stream exists with initialize_consumer_groups' placeholder, or was
\* created by XGROUP CREATE ... MKSTREAM or a first XADD without one; the
\* groups read it from id 0.
Init ==
    /\ stream \in {<<>>, <<Placeholder>>}
    /\ trimmed = 0
    /\ cursor = 0
    /\ pending = {}
    /\ stale = {}
    /\ processed = {}
    /\ pc = [c \in Consumers |-> "down"]
    /\ mode = [c \in Consumers |-> "recover"]
    /\ batch = [c \in Consumers |-> {}]
    /\ cur = [c \in Consumers |-> 0]
    /\ running = [c \in Consumers |-> FALSE]
    /\ acked = {}
    /\ succeeded = {}
    /\ refused = {}
    /\ runs = [k \in Keys |-> 0]
    /\ crashes = 0 /\ faults = 0 /\ retries = 0 /\ stops = 0

-----------------------------------------------------------------------------
(* The stream.                                                             *)

\* XADD MAXLEN ~ n (redis-py's default is approximate): Redis may evict any
\* number of the excess entries, delivered or not.
Publish ==
    /\ Len(stream) < MaxEvents
    /\ \E e \in Publishable : stream' = Append(stream, e)
    /\ trimmed' \in {t \in trimmed..(Len(stream) + 1) :
                        t = trimmed \/ t + MaxLen <= Len(stream) + 1}
    /\ UNCHANGED <<cursor, pending, stale, processed, procVars, histVars, envVars>>

\* 60 seconds pass since the last delivery of i.  A handler may well take
\* longer than that, so the event may be in the hands of a live consumer.
GoStale(i) ==
    /\ i \in pending \ stale
    /\ stale' = stale \cup {i}
    /\ UNCHANGED <<stream, trimmed, cursor, pending, processed, procVars, histVars,
                   envVars>>

-----------------------------------------------------------------------------
(* The consumer.                                                           *)

At(c, label) == pc[c] = label
Goto(c, label) == pc' = [pc EXCEPT ![c] = label]
Oldest(S, n) == {i \in S : Cardinality({j \in S : j < i}) < n}
Firsts(S) == {i \in S : \A j \in S : i <= j}    \* the least id of S, if any
Key(c) == stream[cur[c]].key

\* Mutant: the test of time_since_delivered is inverted.
ListPendingFresh(c) ==
    /\ At(c, "down")
    /\ mode' = [mode EXCEPT ![c] = "recover"]
    /\ batch' = [batch EXCEPT ![c] = Oldest(pending, PageSize) \ stale]
    /\ Goto(c, "claim")
    /\ UNCHANGED <<redisVars, cur, running, histVars, envVars>>

\* process_pending lists one page of the group's pending entries and keeps
\* the ids that are stale.
ListPending(c) ==
    /\ At(c, "down")
    /\ mode' = [mode EXCEPT ![c] = "recover"]
    /\ batch' = [batch EXCEPT ![c] = Oldest(pending, PageSize) \cap stale]
    /\ Goto(c, "claim")
    /\ UNCHANGED <<redisVars, cur, running, histVars, envVars>>

\* XCLAIM takes the listed ids that are still pending and still idle; ids
\* evicted from the stream are dropped from the pending list and not returned.
Claim(c) ==
    /\ At(c, "claim")
    /\ LET claimed == batch[c] \cap stale
           gone == {i \in batch[c] \cap pending : Evicted(i)}
       IN /\ pending' = pending \ gone
          /\ stale' = stale \ (claimed \cup gone)
          /\ batch' = [batch EXCEPT ![c] = claimed \ gone]
    /\ Goto(c, "next")
    /\ UNCHANGED <<stream, trimmed, cursor, processed, mode, cur, running,
                   histVars, envVars>>

\* process_pending returns and the caller enters start(), which sets _running.
StartLoop(c) ==
    /\ At(c, "next") /\ mode[c] = "recover" /\ batch[c] = {}
    /\ mode' = [mode EXCEPT ![c] = "loop"]
    /\ running' = [running EXCEPT ![c] = TRUE]
    /\ UNCHANGED <<redisVars, pc, batch, cur, histVars, envVars>>

\* In the loop of start(), between batches.
Idle(c) == At(c, "next") /\ mode[c] = "loop" /\ batch[c] = {}

\* XREADGROUP ">" delivers the next entries that still exist and makes them
\* pending.
Fresh == Oldest({i \in Ids : i > cursor /\ ~Evicted(i)}, BatchSize)
\* Mutant: XREADGROUP with NOACK.
DeliverNoAck == /\ cursor' \in Fresh /\ \A i \in Fresh : i <= cursor'
                /\ UNCHANGED pending

Deliver == /\ cursor' \in Fresh /\ \A i \in Fresh : i <= cursor'
           /\ pending' = pending \cup Fresh

\* One entry that does not parse loses the whole batch to this loop.
Read(c) ==
    /\ Idle(c) /\ running[c]
    /\ Deliver
    /\ batch' = [batch EXCEPT ![c] =
                     IF \A i \in Fresh : Parses(stream[i]) THEN Fresh ELSE {}]
    /\ UNCHANGED <<stream, trimmed, stale, processed, pc, mode, cur, running,
                   histVars, envVars>>

\* Mutant: the idempotency check is forgotten.
ExamineUnchecked(c) ==
    /\ At(c, "next")
    /\ \E i \in Firsts(batch[c]) :
        /\ cur' = [cur EXCEPT ![c] = i]
        /\ batch' = [batch EXCEPT ![c] = @ \ {i}]
        /\ Goto(c, IF CanHandle(stream[i]) THEN "handle" ELSE "skip")
    /\ UNCHANGED <<redisVars, mode, running, histVars, envVars>>

\* Mutant: a duplicate is skipped without being acknowledged.
ExamineSilent(c) ==
    /\ At(c, "next")
    /\ \E i \in Firsts(batch[c]) :
        /\ cur' = [cur EXCEPT ![c] = i]
        /\ batch' = [batch EXCEPT ![c] = @ \ {i}]
        /\ Goto(c, IF ~CanHandle(stream[i]) THEN "skip"
                   ELSE IF stream[i].key \in processed THEN "next" ELSE "handle")
    /\ UNCHANGED <<redisVars, mode, running, histVars, envVars>>

\* The next event of the batch: can_handle and is_processed, in one order in
\* the loop and in the other in process_pending, which does not change the
\* outcome.  In process_pending an entry that does not parse raises, and the
\* exception leaves process_pending and its caller.
Examine(c) ==
    /\ At(c, "next")
    /\ \E i \in Firsts(batch[c]) :
        \/ /\ Parses(stream[i])
           /\ cur' = [cur EXCEPT ![c] = i]
           /\ batch' = [batch EXCEPT ![c] = @ \ {i}]
           /\ Goto(c, IF CanHandle(stream[i]) /\ stream[i].key \notin processed
                      THEN "handle" ELSE "skip")
        \/ /\ ~Parses(stream[i])
           /\ batch' = [batch EXCEPT ![c] = {}]
           /\ Goto(c, "down")
           /\ UNCHANGED cur
    /\ UNCHANGED <<redisVars, mode, running, histVars, envVars>>

\* Mutant: mark_processed is called for an event without a key.
SucceedAlwaysMarked(c) ==
    /\ At(c, "handle")
    /\ succeeded' = succeeded \cup {cur[c]}
    /\ runs' = [k \in Keys |-> runs[k] + (IF k = Key(c) THEN 1 ELSE 0)]
    /\ Goto(c, "mark")
    /\ UNCHANGED <<redisVars, mode, batch, cur, running, acked, refused, envVars>>

\* handler.handle returns success.
Succeed(c) ==
    /\ At(c, "handle")
    /\ succeeded' = succeeded \cup {cur[c]}
    /\ runs' = [k \in Keys |-> runs[k] + (IF k = Key(c) THEN 1 ELSE 0)]
    /\ Goto(c, IF Key(c) = NoKey THEN "ack" ELSE "mark")
    /\ UNCHANGED <<redisVars, mode, batch, cur, running, acked, refused, envVars>>

\* handler.handle returns a permanent failure: acknowledged, not marked.
Refuse(c) ==
    /\ At(c, "handle")
    /\ refused' = refused \cup {cur[c]}
    /\ Goto(c, "ack")
    /\ UNCHANGED <<redisVars, mode, batch, cur, running, acked, succeeded, runs,
                   envVars>>

\* Mutant: an event to be retried is acknowledged.
RetryAcknowledged(c) ==
    /\ At(c, "handle")
    /\ retries < MaxRetries
    /\ retries' = retries + 1
    /\ Goto(c, "ack")
    /\ UNCHANGED <<redisVars, mode, batch, cur, running, histVars, crashes, faults,
                   stops>>

\* handler.handle asks for a retry, or raises: not acknowledged.
Retry(c) ==
    /\ At(c, "handle")
    /\ retries < MaxRetries
    /\ retries' = retries + 1
    /\ Goto(c, "next")
    /\ UNCHANGED <<redisVars, mode, batch, cur, running, histVars, crashes, faults,
                   stops>>

SetProcessed(c) == processed' = processed \cup {Key(c)}
XAck(c) == /\ pending' = pending \ {cur[c]}
           /\ stale' = stale \ {cur[c]}
           /\ acked' = acked \cup {cur[c]}

Mark(c) ==
    /\ At(c, "mark")
    /\ SetProcessed(c)
    /\ Goto(c, "ack")
    /\ UNCHANGED <<stream, trimmed, cursor, pending, stale, mode, batch, cur,
                   running, histVars, envVars>>

Ack(c) ==
    /\ At(c, "ack") \/ At(c, "skip")
    /\ XAck(c)
    /\ Goto(c, "next")
    /\ UNCHANGED <<stream, trimmed, cursor, processed, mode, batch, cur, running,
                   succeeded, refused, runs, envVars>>

-----------------------------------------------------------------------------
(* Stopping, crashing and failing.                                         *)

\* stop() clears _running; a call made during process_pending is undone by
\* start(), which sets it again.
Stop(c) ==
    /\ ~At(c, "down")
    /\ stops < MaxStops
    /\ stops' = stops + 1
    /\ running' = [running EXCEPT ![c] = FALSE]
    /\ UNCHANGED <<redisVars, pc, mode, batch, cur, histVars, crashes, faults,
                   retries>>

\* Mutant: the loop leaves in the middle of a batch.
ExitMidBatch(c) ==
    /\ At(c, "next") /\ mode[c] = "loop" /\ ~running[c]
    /\ Goto(c, "down")
    /\ batch' = [batch EXCEPT ![c] = {}]
    /\ UNCHANGED <<redisVars, mode, cur, running, histVars, envVars>>

\* Mutant: the loop leaves only once nothing is pending.
ExitAcknowledged(c) ==
    /\ Idle(c) /\ ~running[c] /\ pending = {}
    /\ Goto(c, "down")
    /\ UNCHANGED <<redisVars, mode, batch, cur, running, histVars, envVars>>

\* The loop tests _running between batches.
Exit(c) ==
    /\ Idle(c) /\ ~running[c]
    /\ Goto(c, "down")
    /\ UNCHANGED <<redisVars, mode, batch, cur, running, histVars, envVars>>

Crash(c) ==
    /\ ~At(c, "down")
    /\ crashes < MaxCrashes
    /\ crashes' = crashes + 1
    /\ Goto(c, "down")
    /\ batch' = [batch EXCEPT ![c] = {}]
    /\ UNCHANGED <<redisVars, mode, cur, running, histVars, faults, retries, stops>>

\* A Redis command raises; the server may have executed it all the same.
Fail(c) ==
    /\ faults < MaxFaults
    /\ faults' = faults + 1
    /\ UNCHANGED <<stream, trimmed, mode, cur, running, succeeded, refused, runs,
                   crashes, retries, stops>>
    /\ \/ \* XCLAIM raises in process_pending, which returns early.
          /\ At(c, "claim")
          /\ stale' \in {stale, stale \ batch[c]}
          /\ batch' = [batch EXCEPT ![c] = {}]
          /\ Goto(c, "next")
          /\ UNCHANGED <<cursor, pending, processed, acked>>
       \/ \* XREADGROUP raises; its entries may have become pending.
          /\ Idle(c) /\ running[c]
          /\ Deliver \/ UNCHANGED <<cursor, pending>>
          /\ UNCHANGED <<pc, batch, stale, processed, acked>>
       \/ \* is_processed raises: the loop goes on, process_pending returns.
          /\ At(c, "next")
          /\ \E i \in Firsts(batch[c]) :
              /\ Parses(stream[i])
              /\ batch' = [batch EXCEPT ![c] = IF mode[c] = "loop" THEN @ \ {i} ELSE {}]
          /\ UNCHANGED <<pc, cursor, pending, stale, processed, acked>>
       \/ \* mark_processed raises: the event is left unacknowledged.
          /\ At(c, "mark")
          /\ SetProcessed(c) \/ UNCHANGED processed
          /\ Goto(c, "next")
          /\ UNCHANGED <<batch, cursor, pending, stale, acked>>
       \/ \* XACK raises; when skipping in process_pending, so does that.
          /\ At(c, "ack") \/ At(c, "skip")
          /\ XAck(c) \/ UNCHANGED <<pending, stale, acked>>
          /\ IF At(c, "skip") /\ mode[c] = "recover"
             THEN Goto(c, "down") /\ batch' = [batch EXCEPT ![c] = {}]
             ELSE Goto(c, "next") /\ UNCHANGED batch
          /\ UNCHANGED <<cursor, processed>>

-----------------------------------------------------------------------------
Loop(c) == \/ Claim(c) \/ StartLoop(c) \/ Read(c) \/ Examine(c) \/ Exit(c)
           \/ Mark(c) \/ Ack(c)

Handle(c) == Succeed(c) \/ Refuse(c) \/ Retry(c)

Next == \/ Publish
        \/ \E i \in pending : GoStale(i)
        \/ \E c \in Consumers : \/ ListPending(c) \/ Loop(c) \/ Handle(c)
                                \/ Stop(c) \/ Crash(c) \/ Fail(c)

Spec == Init /\ [][Next]_vars

\* asyncio runs a consumer that is not blocked, every handler returns or
\* raises, and Redis answers.  Nothing restarts a consumer that is down.
LiveSpec == Spec /\ \A c \in Consumers : WF_vars(Loop(c)) /\ WF_vars(Handle(c))

\* As above, with a supervisor that restarts consumers, and time passing.
RestartSpec == /\ LiveSpec
               /\ \A c \in Consumers : WF_vars(ListPending(c))
               /\ \A i \in 1..MaxEvents : WF_vars(GoStale(i))

-----------------------------------------------------------------------------
(* Properties.                                                             *)

Delivery == INSTANCE EventDelivery
                WITH log <- stream, done <- processed, settled <- acked

Busy(c) == pc[c] \in {"handle", "mark", "ack", "skip"}

\* What a consumer knows about the event in hand: the handler only sees events
\* it can handle, mark_processed follows a success of a keyed event, and an
\* event is about to be acknowledged only for a reason EventDelivery names.
Known(c) ==
    /\ At(c, "down") => batch[c] = {}
    /\ Busy(c) => cur[c] \in 1..cursor
    /\ At(c, "handle") => CanHandle(stream[cur[c]])
    /\ At(c, "mark") => Key(c) # NoKey /\ cur[c] \in succeeded
    /\ At(c, "ack") \/ At(c, "skip") => Delivery!Cause(cur[c])

InHand == \A c \in Consumers : Known(c)

\* The entries consumer c will still look at: what it claimed or read, and
\* the event in hand.  Ids listed by XPENDING are not c's yet.
Held(c) == (IF At(c, "claim") THEN {} ELSE batch[c])
             \cup (IF Busy(c) THEN {cur[c]} ELSE {})

AllParse == \A i \in Ids : Parses(stream[i])

\* No entry is dropped: whatever the group's cursor has passed is still
\* pending, was acknowledged, or was evicted by the MAXLEN of publish_event,
\* through every crash, claim and failed command of EventConsumer.
NeverDropped == \A i \in 1..cursor : i \in pending \/ i \in acked \/ Evicted(i)

\* A pending entry nobody will look at (only a later process_pending can find
\* it again) is left behind by a crash, a failed Redis command, a retry or an
\* entry that does not parse: _process_once, process_pending and stop() never
\* leave one on their own account, also when consumers claim from each other.
OrphansHaveACause ==
    pending \subseteq UNION {Held(c) : c \in Consumers}
        \/ crashes + faults + retries > 0
        \/ \E i \in 1..cursor : ~Parses(stream[i])

\* is_processed and mark_processed do not exclude each other, so a key may be
\* handled successfully more than once; but not more often than there are
\* consumers, plus one run for every crash or failed Redis command.
OverlapBound ==
    \A k \in Keys : runs[k] <= Cardinality(Consumers) + crashes + faults

\* Why OverlapBound holds.  Until a key is marked, each of its runs is either
\* about to mark it or was lost by a crash or a failed command; once it is
\* marked, only the runs already under way can still succeed.
AtKey(label, k) == {c \in Consumers : At(c, label) /\ Key(c) = k}
Accounted(k) ==
    IF k \in processed
    THEN runs[k] + Cardinality(AtKey("handle", k))
            <= Cardinality(Consumers) + crashes + faults
    ELSE runs[k] <= Cardinality(AtKey("mark", k)) + crashes + faults
RunsAccounted == \A k \in Keys : Accounted(k)

\* The group delivers at least once: EventConsumer acknowledges an entry only
\* for one of the reasons EventDelivery names, and marks a key only after a
\* successful run (the order handle, mark_processed, acknowledge_event).
Implements == Delivery!Spec

\* While no consumer crashes, no command fails and no handler asks for a retry,
\* every published event that is not evicted is acknowledged in the end,
\* whichever consumer reads or claims it and however consumers stop and restart.
EventuallyAcked ==
    \A i \in 1..MaxEvents :
        (i \in Ids /\ AllParse)
            ~> (i \in acked \/ Evicted(i) \/ crashes + faults + retries > 0)

\* process_pending does recover what a crash left behind, provided the entry
\* is stale when the consumer restarts and the consumer does not crash again.
RecoveredUnlessCrashedAgain ==
    \A i \in 1..MaxEvents : \A n \in 0..MaxCrashes :
        (/\ \E c \in Consumers : At(c, "down")
         /\ i \in stale /\ crashes = n /\ AllParse) ~> (i \in acked \/ crashes > n)

\* stop() called in the loop of start() ends it, after the batch in hand.
StopEndsLoop ==
    \A c \in Consumers :
        (mode[c] = "loop" /\ ~running[c]) ~> (At(c, "down"))

\* "Don't acknowledge - let it be redelivered" (_handle_event, should_retry):
\* an entry left pending is acknowledged in the end.
RetryRedelivered ==
    \A i \in 1..MaxEvents : (i \in pending /\ AllParse) ~> (i \in acked)
=============================================================================
