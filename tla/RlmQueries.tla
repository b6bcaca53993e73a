----------------------------- MODULE RlmQueries ------------------------------
(***************************************************************************)
(* Queries with retries (workers/rlm/tools/llm_query, budget_manager,      *)
(* cache): each attempt is counted, refused without a budget, answered by  *)
(* the cache, or paid and sent; the cache holds some entries and gives up  *)
(* the oldest.  RlmExplore has the explorations that share a budget.       *)
(***************************************************************************)
EXTENDS Naturals, Sequences, FiniteSets, SequencesExt

CONSTANTS
    Questions,      \* a prompt with its context
    QueryBudget,    \* max_total
    PerIteration,   \* max_per_iteration
    CacheSize,      \* max_entries
    QueryRetries,   \* max_retries
    MaxAsked        \* bound on queries

ASSUME QueriesAssumption == {QueryBudget, PerIteration, CacheSize, QueryRetries, MaxAsked} \subseteq Nat

VARIABLES
    paid,           \* total_used
    paidNow,        \* iteration_used
    cacheEntries,   \* the cache, the oldest entry first
    stats,          \* total_queries, cached_queries; the cache's requests, hits, misses, evictions
    retrying,       \* the question of query_with_retry and its failed attempts, or none
    queryOutcome,        \* how the last query ended, and what it had paid
    asks,
    spentByQueries, \* history: what the queries that have ended paid
    answers,        \* history: per question, the answers that were paid
    evicted         \* history: per question, how often its answer was given up

rlmQueryVars == <<paid, paidNow, cacheEntries, stats, retrying, queryOutcome, asks, spentByQueries, answers, evicted>>

NoQuestion == [of |-> "none", failed |-> 0, retries |-> 0]
NothingEnded == [of |-> "none", is |-> "none", paid |-> 0]

QueriesInit ==
    /\ paid = 0 /\ paidNow = 0 /\ cacheEntries = <<>>
    /\ stats = [queries |-> 0, cached |-> 0, requests |-> 0, hits |-> 0, misses |-> 0, refused |-> 0, evictions |-> 0]
    /\ retrying = NoQuestion /\ queryOutcome = NothingEnded /\ asks = 0 /\ spentByQueries = 0
    /\ answers = [q \in Questions |-> 0] /\ evicted = [q \in Questions |-> 0]

MayPay == paid < QueryBudget /\ paidNow < PerIteration

\* query, or query_with_retry.
AskQuestion(q, retries) ==
    /\ retrying = NoQuestion /\ asks < MaxAsked /\ asks' = asks + 1
    /\ retrying' = [of |-> q, failed |-> 0, retries |-> retries] /\ queryOutcome' = NothingEnded
    /\ UNCHANGED <<paid, paidNow, cacheEntries, stats, spentByQueries, answers, evicted>>

QueryEnds(how, cost) ==
    /\ spentByQueries' = spentByQueries + cost
    /\ queryOutcome' = [of |-> retrying.of, is |-> how, paid |-> cost]
    /\ retrying' = NoQuestion

\* The budget is asked before the cache: also an answer that is there is refused.
BudgetRefuses ==
    /\ retrying # NoQuestion /\ ~MayPay
    /\ stats' = [stats EXCEPT !.queries = @ + 1, !.refused = @ + 1]
    /\ QueryEnds("budget", retrying.failed)
    /\ UNCHANGED <<paid, paidNow, cacheEntries, asks, answers, evicted>>

Hit == [stats EXCEPT !.queries = @ + 1, !.cached = @ + 1, !.requests = @ + 1, !.hits = @ + 1]

CacheAnswers ==
    /\ retrying # NoQuestion /\ MayPay /\ retrying.of \in ToSet(cacheEntries)
    /\ stats' = Hit /\ QueryEnds("cached", retrying.failed)
    /\ UNCHANGED <<paid, paidNow, cacheEntries, asks, answers, evicted>>

Miss == [stats EXCEPT !.queries = @ + 1, !.requests = @ + 1, !.misses = @ + 1]
GoesOut == retrying # NoQuestion /\ MayPay /\ retrying.of \notin ToSet(cacheEntries)

\* record_call, before the API is called.
Pay == paid' = paid + 1 /\ paidNow' = paidNow + 1

Full == CacheSize > 0 /\ Len(cacheEntries) >= CacheSize
\* _evict_oldest: the oldest entry, however often it was asked for.
Evict(kept) == Tail(kept)

ModelReplies ==
    /\ GoesOut /\ Pay
    /\ cacheEntries' = Append(IF Full THEN Evict(cacheEntries) ELSE cacheEntries, retrying.of)
    /\ stats' = IF Full THEN [Miss EXCEPT !.evictions = @ + 1] ELSE Miss
    /\ evicted' = IF Full THEN [evicted EXCEPT ![Head(cacheEntries)] = @ + 1] ELSE evicted
    /\ answers' = [answers EXCEPT ![retrying.of] = @ + 1]
    /\ QueryEnds("answered", retrying.failed + 1)
    /\ UNCHANGED asks

MayRetry == retrying.failed < retrying.retries

ModelFails ==
    /\ GoesOut /\ Pay /\ stats' = Miss
    /\ IF MayRetry THEN retrying' = [retrying EXCEPT !.failed = @ + 1] /\ UNCHANGED <<queryOutcome, spentByQueries>>
       ELSE QueryEnds("failed", retrying.failed + 1)
    /\ UNCHANGED <<cacheEntries, asks, answers, evicted>>

NextIteration ==
    /\ retrying = NoQuestion /\ paidNow > 0 /\ paidNow' = 0
    /\ UNCHANGED <<paid, cacheEntries, stats, retrying, queryOutcome, asks, spentByQueries, answers, evicted>>

QueriesNext ==
    \/ \E q \in Questions, retries \in {0, QueryRetries} : AskQuestion(q, retries)
    \/ BudgetRefuses \/ CacheAnswers \/ ModelReplies \/ ModelFails \/ NextIteration

----------------------------------------------------------------------------
(* Properties. *)

\* The counters of the tool, of the cache and of the budget agree, though each attempt of a
\* retry counts as a query and one refused never reaches the cache.
CountersAgree ==
    /\ stats.misses = paid /\ stats.requests = stats.hits + stats.misses
    /\ stats.queries = stats.requests + stats.refused /\ stats.cached = stats.hits
    /\ Len(cacheEntries) + stats.evictions <= paid

\* An attempt that failed is paid like any other, and a query fails only after all of them: the
\* budget that is spent is what the queries' attempts have cost.
AttemptsArePaid ==
    /\ queryOutcome.is = "failed" => queryOutcome.paid \in {1, QueryRetries + 1}
    /\ queryOutcome.paid <= QueryRetries + 1 /\ spentByQueries + retrying.failed = paid

\* A question is paid for once more only after the cache has given up its answer.
PaidOnceWhileKept == \A q \in Questions :
    answers[q] = evicted[q] + (IF q \in ToSet(cacheEntries) THEN 1 ELSE 0)

------------------------------------------------------------------------------
(***************************************************************************)
(* The audit trail of RLM explorations (workers/rlm/audit, called by       *)
(* workers/rlm/integration): a file per result, named by the second and    *)
(* the task, and an index of all of them, which each auditor reads once    *)
(* and from then on writes whole from its own memory.                      *)
(***************************************************************************)

CONSTANTS
    Auditors,       \* of the worker processes that share the directory
    AuditTasks,
    MaxSeconds,     \* bound on the clock, and so on the names of the files of a task
    MaxAudits       \* bound on the results saved, and on the deletions

ASSUME AuditAssumption == IsFiniteSet(Auditors) /\ MaxSeconds \in Nat \ {0}

VARIABLES
    second,         \* the clock
    disk,           \* the result files: name -> the result it holds, 0 for none
    index,          \* the index file: its entries, and whether it was cut short
    memory,         \* per auditor: whether it has loaded the index, and its copy
    saving,         \* per auditor: the result it is saving, and where it is
    saved,          \* history: results whose saving has ended, as entries
    deleted,        \* history: results deleted, or whose file a later one replaced
    stale,          \* history: an auditor wrote an index that lacked what another had written
    failures        \* writes that failed, and whether one left the index torn

auditVars == <<second, disk, index, memory, saving, saved, deleted, stale, failures>>

Names == AuditTasks \X (1..MaxSeconds)
NoName == <<>>
NotSaving == [at |-> "idle", task |-> "none", result |-> 0, name |-> NoName]

AuditInit ==
    /\ second = 1 /\ disk = [n \in Names |-> 0] /\ index = [entries |-> <<>>, torn |-> FALSE]
    /\ memory = [a \in Auditors |-> [loaded |-> FALSE, entries |-> <<>>]]
    /\ saving = [a \in Auditors |-> NotSaving]
    /\ saved = {} /\ deleted = {} /\ stale = FALSE /\ failures = [some |-> FALSE, torn |-> FALSE]

Tick1 ==
    /\ second < MaxSeconds /\ second' = second + 1
    /\ UNCHANGED <<disk, index, memory, saving, saved, deleted, stale, failures>>

\* An index that cannot be parsed is taken for an empty one.
ReadIndex == IF index.torn THEN <<>> ELSE index.entries
Loaded(a) == IF memory[a].loaded THEN memory[a].entries ELSE ReadIndex

NextResult == 1 + Cardinality(saved) + Cardinality({a \in Auditors : saving[a].at # "idle"})

\* save_result loads the index and writes the file: another of the same task and second is replaced.
SaveFile(a, task) ==
    /\ saving[a].at = "idle" /\ NextResult <= MaxAudits
    /\ memory' = [memory EXCEPT ![a] = [loaded |-> TRUE, entries |-> Loaded(a)]]
    /\ disk' = [disk EXCEPT ![<<task, second>>] = NextResult]
    /\ saving' = [saving EXCEPT ![a] = 
        [at |-> "index", task |-> task, result |-> NextResult, name |-> <<task, second>>]]
    /\ deleted' = deleted \cup ({disk[<<task, second>>]} \ {0})
    /\ UNCHANGED <<second, index, saved, stale, failures>>

Entry(a) == [task |-> saving[a].task, result |-> saving[a].result, name |-> saving[a].name]
Added(entries, entry) == Append(entries, entry)
Lacks(entries) == ~index.torn /\ \E e \in ToSet(index.entries) : e \notin ToSet(entries)

\* The entry is appended to the memory, and the whole of it is written.
SaveIndex(a) ==
    /\ saving[a].at = "index"
    /\ LET entries == Added(memory[a].entries, Entry(a)) IN
        /\ memory' = [memory EXCEPT ![a].entries = entries]
        /\ index' = [entries |-> entries, torn |-> FALSE] /\ stale' = (stale \/ Lacks(memory[a].entries))
    /\ saving' = [saving EXCEPT ![a] = NotSaving] /\ saved' = saved \cup {Entry(a)}
    /\ UNCHANGED <<second, disk, deleted, failures>>

\* The write of the index fails after the file was opened for it: the exploration is reported as
\* failed, the file is there, the memory has the entry.
AuditIndexFails(a) ==
    /\ saving[a].at = "index" /\ ~failures.some
    /\ memory' = [memory EXCEPT ![a].entries = Append(@, Entry(a))]
    /\ index' \in {index, [entries |-> <<>>, torn |-> TRUE]}
    /\ failures' = [some |-> TRUE, torn |-> index'.torn]
    /\ saving' = [saving EXCEPT ![a] = NotSaving]
    /\ deleted' = deleted \cup {saving[a].result} /\ saved' = saved \cup {Entry(a)}
    /\ UNCHANGED <<second, disk, stale>>

FirstOf(entries, task) == SelectInSeq(entries, LAMBDA e : e.task = task)
\* delete_audit takes the oldest entry of the task.
WithoutFirst(entries, task) == RemoveAt(entries, FirstOf(entries, task))

DeleteAudit(a, task) ==
    /\ saving[a].at = "idle" /\ FirstOf(Loaded(a), task) # 0
    /\ LET entry == Loaded(a)[FirstOf(Loaded(a), task)]
           entries == WithoutFirst(Loaded(a), task)
       IN /\ disk' = [disk EXCEPT ![entry.name] = 0]
          /\ memory' = [memory EXCEPT ![a] = [loaded |-> TRUE, entries |-> entries]]
          /\ index' = [entries |-> entries, torn |-> FALSE]
          /\ deleted' = deleted \cup ({entry.result, disk[entry.name]} \ {0})
          /\ stale' = (stale \/ Lacks(Loaded(a)))
    /\ UNCHANGED <<second, saving, saved, failures>>

\* A worker process ends: what its auditor had in memory is gone.
AuditorRestarts(a) ==
    /\ memory[a].loaded
    /\ memory' = [memory EXCEPT ![a] = [loaded |-> FALSE, entries |-> <<>>]]
    /\ saving' = [saving EXCEPT ![a] = NotSaving] /\ deleted' = deleted \cup ({saving[a].result} \ {0})
    /\ saved' = IF saving[a].at = "idle" THEN saved ELSE saved \cup {Entry(a)}
    /\ UNCHANGED <<second, disk, index, stale, failures>>

AuditNext ==
    \/ Tick1
    \/ \E a \in Auditors :
        \/ SaveIndex(a) \/ AuditIndexFails(a) \/ AuditorRestarts(a)
        \/ \E task \in AuditTasks : SaveFile(a, task) \/ DeleteAudit(a, task)

----------------------------------------------------------------------------
(* Properties. *)

\* load_result of an auditor: the file of the newest entry of the task that it knows.
LoadedResult(a, task) ==
    LET last == SelectLastInSeq(Loaded(a), LAMBDA e : e.task = task) IN
    IF last = 0 THEN 0 ELSE disk[Loaded(a)[last].name]

\* A result that was saved and not deleted, nor replaced by one of the same second, has its entry
\* and its file, unless an auditor wrote an index older than what another had written, or an
\* index was torn.
AuditsAreKept == ~stale /\ ~failures.torn =>
    \A e \in saved : e.result \notin deleted => e \in ToSet(index.entries) /\ disk[e.name] = e.result

\* An auditor that knows what the index says loads the newest result of a task that is there, also
\* after a deletion, which takes the oldest.
LoadedIsNewest == ~stale /\ ~failures.some =>
    \A a \in Auditors, task \in AuditTasks : Loaded(a) = index.entries =>
        \A e \in saved : e.task = task /\ e.result \notin deleted => LoadedResult(a, task) >= e.result
==============================================================================
