------------------------------ MODULE HitlGate ------------------------------
(***************************************************************************)
(* The gates of HITLDispatcher (src/src/orchestrator/hitl_dispatcher.py):  *)
(* request_gate, record_decision, get_pending_requests and check_expired   *)
(* over the request hashes, the evidence bundles, the pending set and the  *)
(* decision log.                                                           *)
(*                                                                         *)
(* Every call is a job of its caller, and every step of a job one Redis    *)
(* command (or publication) with the code that follows it: callers are     *)
(* coroutines or processes that interleave between any two commands.       *)
(***************************************************************************)
EXTENDS Naturals, FiniteSets

CONSTANTS
    Gates,       \* request ids; each is generated by one request_gate
    Expiring,    \* those requested with ttl_seconds
    Callers,     \* who calls request_gate and record_decision
    Sweepers,    \* who calls check_expired, again and again
    MaxCalls,    \* bound: calls of the Callers
    MaxAborts    \* bound: crashes, and commands that raise

\* A coroutine that decides is not one that looks for what has expired.
ASSUME GateAssumption ==
    /\ Callers \cap Sweepers = {}
    /\ MaxCalls \in Nat /\ MaxAborts \in Nat

Decisions == {"approved", "rejected"}
Closed    == Decisions \cup {"expired"}
Statuses  == {"none", "pending"} \cup Closed

VARIABLES
    status,     \* the status field of each request hash
    bundles,    \* requests whose evidence bundle is stored
    listed,     \* the sorted set asdlc:pending_gates
    due,        \* requests whose expires_at has passed
    history,    \* decisions in the task logs
    audit,      \* decisions in the audit stream
    published,  \* events: GATE_REQUESTED, and the outcomes
    job,        \* what each caller and sweeper is doing
    \* history of the run
    known,      \* requests that were listed: their ids can be known
    late,       \* jobs that had found a request pending when it was closed
    cut,        \* requests whose job was aborted
    calls, aborts

gateVars == <<status, bundles, listed, due, history, audit, published, job,
              known, late, cut, calls, aborts>>

Procs == Callers \cup Sweepers
Event == [id : 0..MaxCalls, gate : Gates, what : Closed \cup {"requested"}]

Idle == [step |-> "idle"]
RequestSteps == {"store", "bundle", "list", "history", "audit", "publish"}
CloseSteps   == {"read", "write", "unlist", "history", "audit", "publish"}
Job == {Idle}
       \cup [step : RequestSteps, id : 1..MaxCalls, gate : Gates, what : {"requested"},
             rest : {{}}]
       \cup [step : CloseSteps, id : 0..MaxCalls, gate : Gates, what : Closed,
             rest : SUBSET Gates]

GateTypeOK ==
    /\ status \in [Gates -> Statuses]
    /\ bundles \subseteq Gates /\ listed \subseteq Gates /\ due \subseteq Expiring
    /\ history \subseteq Event /\ audit \subseteq Event /\ published \subseteq Event
    /\ job \in [Procs -> Job]
    /\ \A p \in Procs : job[p] # Idle => (job[p].what = "expired" <=> p \in Sweepers)
    /\ known \subseteq Gates /\ cut \subseteq Gates
    /\ late \subseteq Procs \X Gates
    /\ calls \in 0..MaxCalls /\ aborts \in 0..MaxAborts

GateInit ==
    /\ status = [g \in Gates |-> "none"]
    /\ bundles = {} /\ listed = {} /\ due = {}
    /\ history = {} /\ audit = {} /\ published = {}
    /\ job = [p \in Procs |-> Idle]
    /\ known = {} /\ late = {} /\ cut = {}
    /\ calls = 0 /\ aborts = 0

-----------------------------------------------------------------------------
(* Calls begin.                                                            *)

At(p, step) == job[p].step = step
Fact(p) == [id |-> job[p].id, gate |-> job[p].gate, what |-> job[p].what]

\* Some job works on g.
Busy(g) == \E p \in Procs : job[p] # Idle /\ job[p].gate = g

Call(p, g, what, step) ==
    /\ At(p, "idle") /\ calls < MaxCalls
    /\ calls' = calls + 1
    /\ job' = [job EXCEPT ![p] = [step |-> step, id |-> calls + 1, gate |-> g,
                                  what |-> what, rest |-> {}]]
    /\ UNCHANGED <<status, bundles, listed, due, history, audit, published, known, late,
                   cut, aborts>>

\* request_gate generates a new id, once the evidence was validated.
Request(p, g) == status[g] = "none" /\ g \notin cut /\ ~Busy(g)
                 /\ Call(p, g, "requested", "store")

\* record_decision, by someone who has seen the request listed.
Decide(p, g, verdict) == g \in known /\ Call(p, g, verdict, "read")

\* expires_at passes.
Tick(g) ==
    /\ g \in Expiring \ due /\ g \in known
    /\ due' = due \cup {g}
    /\ UNCHANGED <<status, bundles, listed, history, audit, published, job, known, late,
                   cut, calls, aborts>>

\* A sweeper turns to a request of those it still has to look at, or is done.
SweepJob(rest, g) == [step |-> "read", id |-> 0, gate |-> g, what |-> "expired",
                      rest |-> rest \ {g}]
NextOf(p, rest) ==
    IF rest = {} THEN job' = [job EXCEPT ![p] = Idle]
    ELSE \E g \in rest : job' = [job EXCEPT ![p] = SweepJob(rest, g)]

\* ZRANGEBYSCORE of check_expired.
Scan(p) ==
    /\ At(p, "idle") /\ listed \cap due # {}
    /\ NextOf(p, listed \cap due)
    /\ UNCHANGED <<status, bundles, listed, due, history, audit, published, known, late,
                   cut, calls, aborts>>

-----------------------------------------------------------------------------
(* The steps of a job.                                                     *)

Goto(p, step) == job' = [job EXCEPT ![p].step = step]
Done(p) == IF p \in Sweepers THEN NextOf(p, job[p].rest) ELSE job' = [job EXCEPT ![p] = Idle]

Store(p) ==
    /\ At(p, "store")
    /\ status' = [status EXCEPT ![job[p].gate] = "pending"]
    /\ Goto(p, "bundle")
    /\ UNCHANGED <<bundles, listed, due, history, audit, published, known, late, cut,
                   calls, aborts>>

StoreBundle(p) ==
    /\ At(p, "bundle")
    /\ bundles' = bundles \cup {job[p].gate}
    /\ Goto(p, "list")
    /\ UNCHANGED <<status, listed, due, history, audit, published, known, late, cut,
                   calls, aborts>>

\* ZADD
List(p) ==
    /\ At(p, "list")
    /\ listed' = listed \cup {job[p].gate}
    /\ known' = known \cup {job[p].gate}
    /\ Goto(p, "history")
    /\ UNCHANGED <<status, bundles, due, history, audit, published, late, cut, calls,
                   aborts>>

\* Mutant: check_expired looks for requests that are expired already.
ReadExpired(p) ==
    /\ At(p, "read")
    /\ IF status[job[p].gate] = (IF p \in Sweepers THEN "expired" ELSE "pending")
       THEN Goto(p, "write") ELSE Done(p)
    /\ UNCHANGED <<status, bundles, listed, due, history, audit, published, known, late,
                   cut, calls, aborts>>

\* HGETALL; a request that is not pending is refused (record_decision raises)
\* or skipped (check_expired).
Read(p) ==
    /\ At(p, "read")
    /\ IF status[job[p].gate] = "pending" THEN Goto(p, "write") ELSE Done(p)
    /\ UNCHANGED <<status, bundles, listed, due, history, audit, published, known, late,
                   cut, calls, aborts>>

\* HSET of the status.
Write(p) ==
    /\ At(p, "write")
    /\ LET g == job[p].gate
       IN /\ status' = [status EXCEPT ![g] = job[p].what]
          /\ late' = IF status[g] # "pending" THEN late
                     ELSE late \cup {<<q, g>> : q \in {q \in Procs \ {p} :
                                              At(q, "write") /\ job[q].gate = g}}
    /\ Goto(p, "unlist")
    /\ UNCHANGED <<bundles, listed, due, history, audit, published, known, cut, calls,
                   aborts>>

\* ZREM; an expiry is not logged.
Unlist(p) ==
    /\ At(p, "unlist")
    /\ listed' = listed \ {job[p].gate}
    /\ Goto(p, IF p \in Sweepers THEN "publish" ELSE "history")
    /\ UNCHANGED <<status, bundles, due, history, audit, published, known, late, cut,
                   calls, aborts>>

\* Mutant: the event goes out before the decision is logged.
LogPublished(p) ==
    /\ At(p, "history")
    /\ history' = history \cup {Fact(p)}
    /\ published' = published \cup {Fact(p)}
    /\ Goto(p, "audit")
    /\ UNCHANGED <<status, bundles, listed, due, audit, known, late, cut, calls, aborts>>

\* RPUSH and XADD of log_request and log_decision.
LogHistory(p) ==
    /\ At(p, "history")
    /\ history' = history \cup {Fact(p)}
    /\ Goto(p, "audit")
    /\ UNCHANGED <<status, bundles, listed, due, audit, published, known, late, cut,
                   calls, aborts>>

LogAudit(p) ==
    /\ At(p, "audit")
    /\ audit' = audit \cup {Fact(p)}
    /\ Goto(p, "publish")
    /\ UNCHANGED <<status, bundles, listed, due, history, published, known, late, cut,
                   calls, aborts>>

Publish(p) ==
    /\ At(p, "publish")
    /\ published' = published \cup {Fact(p)}
    /\ Done(p)
    /\ UNCHANGED <<status, bundles, listed, due, history, audit, known, late, cut, calls,
                   aborts>>

\* The caller crashes, or the command it waits for raises; a command that was
\* executed and whose reply is lost is this step after the next one.
Abort(p) ==
    /\ job[p] # Idle /\ aborts < MaxAborts
    /\ aborts' = aborts + 1
    /\ cut' = cut \cup {job[p].gate}
    /\ job' = [job EXCEPT ![p] = Idle]
    /\ UNCHANGED <<status, bundles, listed, due, history, audit, published, known, late,
                   calls>>

Step(p) == \/ Store(p) \/ StoreBundle(p) \/ List(p) \/ Read(p) \/ Write(p) \/ Unlist(p)
           \/ LogHistory(p) \/ LogAudit(p) \/ Publish(p)

GateNext ==
    \/ \E p \in Callers, g \in Gates :
          Request(p, g) \/ \E v \in Decisions : Decide(p, g, v)
    \/ \E g \in Gates : Tick(g)
    \/ \E p \in Sweepers : Scan(p)
    \/ \E p \in Procs : Step(p) \/ Abort(p)

GateSpec == GateInit /\ [][GateNext]_gateVars

-----------------------------------------------------------------------------
(* Properties.                                                             *)

\* get_pending_requests shows what is listed, whatever its status is.
PendingRequests == {g \in listed : status[g] # "none"}

\* Reviewers are shown the pending requests and no others, and each with its
\* evidence, except while a job is at work on one or where a job was cut off
\* (request_gate, record_decision and check_expired order their commands so).
ShownArePending ==
    \A g \in Gates \ cut :
        /\ ~Busy(g) => (g \in PendingRequests <=> status[g] = "pending")
        /\ g \in PendingRequests => g \in bundles

\* An approval or a rejection that others act upon is in the task's log and in
\* the audit trail, whatever fails in between (log_decision before publishing).
AnnouncedWasLogged ==
    \A e \in published : e.what # "expired" => e \in history \cap audit

\* A decision is overruled only by a reviewer or a sweeper who had found the
\* request pending before that decision was written: not by one who came later.
OnlyRacersOverrule ==
    \A p \in Procs : At(p, "write") /\ status[job[p].gate] # "pending"
                        => <<p, job[p].gate>> \in late

\* What a request became is announced, and by whoever wrote the status last:
\* unless some job was cut off, no one is left to believe it pending.
Announced(g) == \E e \in published : e.gate = g /\ e.what = status[g]
ClosedIsAnnounced ==
    \A g \in Gates \ cut : status[g] \in Closed /\ ~Busy(g) => Announced(g)

\* Whoever looks at a request, its evidence, the log, the audit trail or the events is told the
\* same of it, and a decision stands (request_gate, record_decision, check_expired).
RequestsAreTrue == ShownArePending /\ AnnouncedWasLogged /\ OnlyRacersOverrule /\ ClosedIsAnnounced

\* A request that is past its expires_at does not stay pending, provided that
\* check_expired is called and does not fail.
DueIsClosed ==
    \A g \in Expiring : (g \in due) ~> (status[g] # "pending" \/ aborts > 0)
=============================================================================
