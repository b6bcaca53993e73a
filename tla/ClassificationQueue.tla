------------------------ MODULE ClassificationQueue ------------------------
(***************************************************************************)
(* One batch of the classification queue (workers/classification_worker):  *)
(* a caller stores the job's record and pushes one item per idea; workers  *)
(* pop an item, mark the job as processing, have the idea classified, and  *)
(* count the outcome.  The record is one JSON value that every worker      *)
(* reads, changes and writes back, and an item is only in the memory of    *)
(* the worker that popped it until it is counted or pushed again.          *)
(***************************************************************************)
EXTENDS Naturals, Sequences, FiniteSets

CONSTANTS
    Ideas,          \* the ideas of the batch
    BatchWorkers,   \* the worker processes
    MaxRetries,     \* MAX_RETRIES
    MaxBatchFaults, \* bound: Redis commands that raise
    MaxRestarts     \* bound: workers cancelled or killed, and started again

ASSUME BatchAssumption == IsFiniteSet(Ideas) /\ MaxRetries \in Nat

NoJob == [status |-> "none", completed |-> 0, failed |-> 0]
Free == [at |-> "free", item |-> [idea |-> "none", tries |-> 0], seen |-> NoJob]

VARIABLES
    jobRecord,      \* the job's record in Redis
    unpushed,       \* ideas whose item the caller has yet to push
    items,          \* the Redis list: pushed at the head, popped at the end
    inHand,         \* what each worker is doing, with which item, and the record it read
    outcomeWrites,  \* history: how often an outcome of the idea was written
    classified,     \* history: ideas whose classification was counted
    classifyCalls,  \* history: calls of classify_idea per idea
    lost,           \* history: ideas whose item an abort dropped
    raced,          \* history: a record was written over another one than was read
    batchFaults, restarts

batchVars == <<jobRecord, unpushed, items, inHand, outcomeWrites, classified, classifyCalls, lost, raced,
               batchFaults, restarts>>

Phases == {"free", "status", "status write", "classify", "ok", "ok write", "failed", "failed write", "retry"}
Jobs == [status : {"none", "pending", "processing", "completed", "failed"}, completed : Nat, failed : Nat]
Items == [idea : Ideas, tries : Nat]

BatchInit ==
    /\ jobRecord = NoJob /\ unpushed = Ideas /\ items = <<>>
    /\ inHand = [w \in BatchWorkers |-> Free]
    /\ outcomeWrites = [i \in Ideas |-> 0] /\ classified = {} /\ classifyCalls = [i \in Ideas |-> 0]
    /\ lost = {} /\ raced = FALSE /\ batchFaults = 0 /\ restarts = 0

----------------------------------------------------------------------------
(* The caller: enqueue_batch. *)

StoreJob ==
    /\ jobRecord = NoJob
    /\ jobRecord' = [NoJob EXCEPT !.status = "pending"]
    /\ UNCHANGED <<unpushed, items, inHand, outcomeWrites, classified, classifyCalls, lost, raced, batchFaults, restarts>>

PushItem ==
    /\ jobRecord # NoJob
    /\ \E i \in unpushed :
        /\ unpushed' = unpushed \ {i}
        /\ items' = <<[idea |-> i, tries |-> 0]>> \o items
    /\ UNCHANGED <<jobRecord, inHand, outcomeWrites, classified, classifyCalls, lost, raced, batchFaults, restarts>>

\* A push raises: the items before it stay queued, the others are never pushed.
EnqueueFails ==
    /\ batchFaults < MaxBatchFaults /\ jobRecord # NoJob /\ unpushed # {}
    /\ batchFaults' = batchFaults + 1
    /\ lost' = lost \cup unpushed
    /\ unpushed' = {}
    /\ UNCHANGED <<jobRecord, items, inHand, outcomeWrites, classified, classifyCalls, raced, restarts>>

----------------------------------------------------------------------------
(* A worker: process_queue and _process_job. *)

Goes(w, phase) == inHand' = [inHand EXCEPT ![w].at = phase]
SetFree(w) == inHand' = [inHand EXCEPT ![w] = Free]

Pop(w) ==
    /\ inHand[w].at = "free" /\ items # <<>>
    /\ inHand' = [inHand EXCEPT ![w] = [at |-> "status", item |-> items[Len(items)], seen |-> NoJob]]
    /\ items' = SubSeq(items, 1, Len(items) - 1)
    /\ UNCHANGED <<jobRecord, unpushed, outcomeWrites, classified, classifyCalls, lost, raced, batchFaults, restarts>>

\* GET of the record by the three read-modify-write helpers; without one they do nothing.
ReadJob(w) ==
    /\ inHand[w].at \in {"status", "ok", "failed"}
    /\ LET write == CASE inHand[w].at = "status" -> "status write"
                      [] inHand[w].at = "ok" -> "ok write"
                      [] inHand[w].at = "failed" -> "failed write"
           skip == IF inHand[w].at = "status" THEN [inHand[w] EXCEPT !.at = "classify"] ELSE Free
       IN inHand' = [inHand EXCEPT ![w] = IF jobRecord = NoJob THEN skip
                                      ELSE [@ EXCEPT !.at = write, !.seen = jobRecord]]
    /\ UNCHANGED <<jobRecord, unpushed, items, outcomeWrites, classified, classifyCalls, lost, raced, batchFaults, restarts>>

\* Mutant: the record is rebuilt.
MarkedAnew(r) == [NoJob EXCEPT !.status = "processing"]
\* What the three helpers make of the record they read.
Marked(r) == [r EXCEPT !.status = "processing"]
Succeeded(r) ==
    [r EXCEPT !.completed = @ + 1,
              !.status = IF r.completed + 1 + r.failed >= Cardinality(Ideas) THEN "completed" ELSE @]
Failed(r) ==
    [r EXCEPT !.failed = @ + 1,
              !.status = IF r.completed + r.failed + 1 < Cardinality(Ideas) THEN @
                         ELSE IF r.failed + 1 = Cardinality(Ideas) THEN "failed" ELSE "completed"]
\* SET of the changed record: nothing holds the key between the GET and here.
WriteJob(w) ==
    LET h == inHand[w] IN
    /\ h.at \in {"status write", "ok write", "failed write"}
    /\ jobRecord' = CASE h.at = "status write" -> Marked(h.seen)
                [] h.at = "ok write" -> Succeeded(h.seen)
                [] h.at = "failed write" -> Failed(h.seen)
    /\ raced' = (raced \/ jobRecord # h.seen)
    /\ outcomeWrites' = IF h.at = "status write" THEN outcomeWrites ELSE [outcomeWrites EXCEPT ![h.item.idea] = @ + 1]
    /\ classified' = IF h.at = "ok write" THEN classified \cup {h.item.idea} ELSE classified

WriteRecord(w) ==
    /\ WriteJob(w)
    /\ IF inHand[w].at = "status write" THEN Goes(w, "classify") ELSE SetFree(w)
    /\ UNCHANGED <<unpushed, items, classifyCalls, lost, batchFaults, restarts>>

\* Where an exception of the job's body leads: a retry, or the failed count.
AfterError(w, transient) ==
    IF transient /\ inHand[w].item.tries < MaxRetries THEN "retry" ELSE "failed"
Classify(w) ==
    /\ inHand[w].at = "classify"
    /\ classifyCalls' = [classifyCalls EXCEPT ![inHand[w].item.idea] = @ + 1]
    /\ \/ Goes(w, "ok")
       \/ \E transient \in BOOLEAN : Goes(w, AfterError(w, transient))
    /\ UNCHANGED <<jobRecord, unpushed, items, outcomeWrites, classified, lost, raced, batchFaults, restarts>>

\* _retry_job: after its delay, the item goes to the head of the list.
PushAgain(w) ==
    /\ items' = <<[inHand[w].item EXCEPT !.tries = @ + 1]>> \o items
    /\ SetFree(w)
Retry(w) ==
    /\ inHand[w].at = "retry"
    /\ PushAgain(w)
    /\ UNCHANGED <<jobRecord, unpushed, outcomeWrites, classified, classifyCalls, lost, raced, batchFaults, restarts>>

\* A Redis command raises, before it ran or after: RedisError is none of the
\* builtin errors _should_retry names.  In the body the idea is counted as failed;
\* in the except block the error leaves _process_job and the item is dropped.
CommandFails(w) ==
    LET h == inHand[w] IN
    /\ batchFaults < MaxBatchFaults
    /\ batchFaults' = batchFaults + 1
    /\ h.at \notin {"free", "classify"}
    /\ \/ WriteJob(w)
       \/ UNCHANGED <<jobRecord, raced, outcomeWrites, classified>>
    /\ IF h.at \in {"status", "status write", "ok", "ok write"}
       THEN Goes(w, "failed") /\ UNCHANGED lost
       ELSE SetFree(w) /\ lost' = lost \cup {h.item.idea}
    /\ UNCHANGED <<unpushed, items, classifyCalls, restarts>>

\* The worker is cancelled or its process killed, and another is started.
RestartWorker(w) ==
    /\ restarts < MaxRestarts /\ inHand[w].at # "free"
    /\ restarts' = restarts + 1
    /\ lost' = lost \cup {inHand[w].item.idea}
    /\ SetFree(w)
    /\ UNCHANGED <<jobRecord, unpushed, items, outcomeWrites, classified, classifyCalls, raced, batchFaults>>

BatchProgress ==
    \/ StoreJob \/ PushItem
    \/ \E w \in BatchWorkers : Pop(w) \/ ReadJob(w) \/ WriteRecord(w) \/ Classify(w) \/ Retry(w)

BatchNext ==
    \/ BatchProgress \/ EnqueueFails
    \/ \E w \in BatchWorkers : CommandFails(w) \/ RestartWorker(w)

----------------------------------------------------------------------------
(* Properties. *)

Final == jobRecord.status \in {"completed", "failed"}
Queued(i) == {n \in DOMAIN items : items[n].idea = i}
HeldBy(i) == {w \in BatchWorkers : inHand[w].at # "free" /\ inHand[w].item.idea = i}
Decided == UNION {{i} \X (1..outcomeWrites[i]) : i \in Ideas}
Counted == Cardinality(Decided)

BatchTypeOK ==
    /\ jobRecord \in Jobs /\ unpushed \subseteq Ideas
    /\ \A n \in DOMAIN items : items[n] \in Items
    /\ \A w \in BatchWorkers : inHand[w].at \in Phases /\ inHand[w].seen \in Jobs
    /\ classified \subseteq Ideas /\ lost \subseteq Ideas /\ raced \in BOOLEAN

\* An idea is in one place: yet to be pushed, in the list, or with one worker; when
\* it is in none, its outcome was written or an abort dropped it (BRPOP removes the
\* item, and _retry_job is the only way back).
IdeaInOnePlace ==
    \A i \in Ideas :
        LET places == Cardinality(Queued(i)) + Cardinality(HeldBy(i)) + (IF i \in unpushed THEN 1 ELSE 0)
        IN /\ places <= 1
           /\ places = 0 => outcomeWrites[i] > 0 \/ i \in lost

\* The record never counts more than was decided, and counts all of it unless a
\* worker wrote over what another had written (_mark_job_success, _mark_job_failed).
CountsAreTrue ==
    /\ jobRecord.completed + jobRecord.failed <= Counted
    /\ ~raced => jobRecord.completed + jobRecord.failed = Counted

\* A job that reads as ended has an outcome for every idea, and one that reads as
\* failed classified none, unless an idea was counted a second time after the reply
\* to the first count was lost.
FinalIsTrue ==
    (Final /\ \A i \in Ideas : outcomeWrites[i] <= 1) =>
        /\ \A i \in Ideas : outcomeWrites[i] = 1
        /\ jobRecord.status = "failed" => classified = {}

\* An idea is submitted to the classifier at most once more than MAX_RETRIES.
CallsBounded == \A i \in Ideas : classifyCalls[i] <= MaxRetries + 1

\* A batch is what becomes of its ideas: none is in two places or in none, the record counts what
\* was decided, reads as ended only then, and no idea is submitted without end.
BatchesAreTrue == BatchTypeOK /\ IdeaInOnePlace /\ CountsAreTrue /\ FinalIsTrue /\ CallsBounded

\* The batch ends, unless a lost update or a dropped item keeps it open for ever.
BatchEnds == <>(Final \/ raced \/ lost # {})
=============================================================================
