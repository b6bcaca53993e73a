------------------------- MODULE HealthAndTelemetry --------------------------
(***************************************************************************)
(* What the services say of themselves to probes and scrapes.  The workers *)
(* and the review swarm answer from a thread, with what their event loop   *)
(* last found out about Redis; the orchestrator asks Redis while it        *)
(* answers, in the event loop, but its gauge is read from the same cached  *)
(* value as theirs.                                                        *)
(***************************************************************************)
EXTENDS Naturals, FiniteSets, Sequences, SequencesExt

CONSTANT MaxFlips       \* bound: times that Redis goes away or comes back

VARIABLES
    process,    \* the service, how far it is, its event loop, what its updater has just asked
    cachedUp,   \* HealthChecker._redis_healthy
    redisUp,
    flips,      \* the bound's counter
    checked,    \* history: an update that asked since Redis last went or came was stored
    answer      \* history: the last request, and the answer

healthVars == <<process, cachedUp, redisUp, flips, checked, answer>>

Requests == {"ready", "live", "metrics"}
NotAsked == [up |-> FALSE, since |-> FALSE, asked |-> FALSE]
NothingSaid == [request |-> "none", said |-> "none", code |-> 0, redis |-> FALSE, checked |-> FALSE, cause |-> "none"]

\* What the main of each service starts beside its event loop: a thread that answers requests, and
\* in the loop a task that updates the cached value.
WorkersMain == [thread |-> TRUE, updater |-> TRUE]
SwarmMain == [thread |-> TRUE, updater |-> TRUE]
OrchestratorMain == [thread |-> FALSE, updater |-> FALSE]
MainOf == [workers |-> WorkersMain, swarm |-> SwarmMain, orchestrator |-> OrchestratorMain]

\* The cached value before any update.
HealthInit ==
    /\ \E s \in DOMAIN MainOf :
        process = [service |-> s, phase |-> "off", loop |-> "runs", thread |-> FALSE, updater |-> FALSE,
                   update |-> NotAsked]
    /\ cachedUp = FALSE /\ redisUp \in BOOLEAN /\ flips = 0 /\ checked = FALSE
    /\ answer = NothingSaid

\* Startup does not need Redis: consumer groups that cannot be made are logged.
Start ==
    /\ process.phase = "off"
    /\ LET main == MainOf[process.service] IN
       process' = [process EXCEPT !.phase = "serving", !.thread = main.thread, !.updater = main.updater]
    /\ UNCHANGED <<cachedUp, redisUp, flips, checked, answer>>

Loops == process.phase \in {"serving", "draining"} /\ process.loop = "runs"
\* Mutant: an update that fails leaves Redis healthy.
PingTrue == TRUE
\* check_redis_health: what fails is not healthy.
Ping == redisUp

\* One round of the updater: it asks, and later stores what it was told.
UpdateAsks ==
    /\ Loops /\ process.updater /\ ~process.update.asked
    /\ process' = [process EXCEPT !.update = [up |-> Ping, since |-> TRUE, asked |-> TRUE]]
    /\ UNCHANGED <<cachedUp, redisUp, flips, checked, answer>>
UpdateStores ==
    /\ Loops /\ process.update.asked
    /\ cachedUp' = process.update.up
    /\ checked' = (checked \/ process.update.since)
    /\ process' = [process EXCEPT !.update = NotAsked]
    /\ UNCHANGED <<redisUp, flips, answer>>

\* Redis goes away, or comes back.
Flips ==
    /\ flips < MaxFlips
    /\ flips' = flips + 1 /\ redisUp' = ~redisUp /\ checked' = FALSE
    /\ process' = [process EXCEPT !.update.since = FALSE]
    /\ UNCHANGED <<cachedUp, answer>>

\* Something blocks the event loop, or no longer does.
Blocks ==
    /\ process.phase \in {"serving", "draining"}
    /\ process' = [process EXCEPT !.loop = IF @ = "runs" THEN "blocked" ELSE "runs"]
    /\ UNCHANGED <<cachedUp, redisUp, flips, checked, answer>>

\* A signal stops the workers' thread first and then, in the event loop, the pool.
SignalWorkers ==
    /\ process.service = "workers" /\ process.phase = "serving"
    /\ process' = [process EXCEPT !.phase = "draining", !.thread = FALSE]
    /\ UNCHANGED <<cachedUp, redisUp, flips, checked, answer>>
\* The others end when uvicorn does; so do the workers when the pool stops, or fails.
Ends ==
    /\ Loops
    /\ process' = [process EXCEPT !.phase = "ended", !.thread = FALSE, !.updater = FALSE, !.update = NotAsked]
    /\ UNCHANGED <<cachedUp, redisUp, flips, checked, answer>>

\* Who answers a request now: the thread, or the event loop of the orchestrator.
Serves == process.thread \/ (process.service = "orchestrator" /\ Loops)

StatusOf(up) == IF up THEN "healthy" ELSE "unhealthy"
\* HTTP 503 when unhealthy.
CodeOf(up) == IF up THEN 200 ELSE 503

\* From the cached value, with its code.
CachedHealth == [NothingSaid EXCEPT !.said = StatusOf(cachedUp), !.code = CodeOf(cachedUp)]
\* check_health in the orchestrator: the response is the body, and the code that of any body.
CheckedHealth == [NothingSaid EXCEPT !.said = StatusOf(Ping), !.code = 200]
Liveness == [NothingSaid EXCEPT !.said = "healthy", !.code = 200]
\* RedisMetricsCollector.collect.
Gauge == [NothingSaid EXCEPT !.said = StatusOf(cachedUp), !.code = 200]

Answered(request) ==
    IF request = "live" THEN Liveness
    ELSE IF request = "metrics" THEN Gauge
    ELSE IF process.service = "orchestrator" THEN CheckedHealth ELSE CachedHealth

WhyNot == IF process.phase \in {"off", "draining", "ended"} THEN process.phase ELSE process.loop

\* do_GET, or a route of the orchestrator.
Request(request) ==
    /\ answer' = [IF Serves THEN Answered(request) ELSE [NothingSaid EXCEPT !.cause = WhyNot]
                  EXCEPT !.request = request, !.redis = redisUp, !.checked = checked]
    /\ UNCHANGED <<process, cachedUp, redisUp, flips, checked>>

HealthNext ==
    \/ Start
    \/ UpdateAsks \/ UpdateStores \/ Flips \/ Blocks \/ SignalWorkers \/ Ends
    \/ \E q \in Requests : Request(q)

----------------------------------------------------------------------------
(* Properties. *)

\* A service that has checked Redis since it last went or came tells a probe, and a scrape, what
\* is the case; before that, or with a blocked event loop, it may tell either.
CheckedIsTold ==
    answer.request \in {"ready", "metrics"} /\ answer.checked /\ answer.said # "none" =>
        answer.said = StatusOf(answer.redis)

\* A request is left without an answer by the shutdown of the service, or by the blocked event loop
\* of the orchestrator: of the others a blocked event loop is never noticed.
SilenceHasACause ==
    \/ answer.cause \in {"none", "off", "draining", "ended"}
    \/ answer.cause = "blocked" /\ process.service = "orchestrator"

\* The orchestrator is never refused traffic, however unhealthy it says it is; and its gauge says
\* that Redis is down, however healthy it says it is.
OrchestratorIsSplit == process.service = "orchestrator" =>
    /\ answer.code # 503
    /\ answer.request = "metrics" => answer.said # "healthy"

------------------------------------------------------------------------------
(***************************************************************************)
(* The agents' status and logs in Redis, as the dashboard reads them: the  *)
(* set of the active agents first, then the status of each, while agents   *)
(* come and go; what cannot be parsed is passed over, and an error of      *)
(* Redis is an empty answer.                                               *)
(***************************************************************************)

CONSTANTS
    TelemetryAgents,    \* ids of agents
    LogLimit,           \* newest log entries that are asked for
    MaxLogs,            \* bound: log entries of an agent
    MaxReports          \* bound: changes by agents

ASSUME TelemetryAssumption == LogLimit \in Nat

VARIABLES
    active,         \* the set agent:active
    reported,       \* agent:status:<id>: none, one that can be parsed, or not
    agentLogs,      \* agent:logs of one agent, newest first: levels
    listing,        \* a listing of the statuses under way, and the last answer
    shownLogs,      \* the last answer to a request for logs
    watching,       \* active_connections of the ConnectionManager
    reports,        \* the bound's counter
    throughout,     \* history: agents that were active, with a status, since the listing began
    sometimes       \* history: agents that had a status at some time since it began, while it reads

telemetryVars == <<active, reported, agentLogs, listing, shownLogs, watching, reports, throughout, sometimes>>

Statuses == {"none", "good", "bad"}
Levels == {"info", "error", "bad"}
NoListing == [phase |-> "none", left |-> {}, found |-> {}, by |-> "api", failed |-> FALSE]

TelemetryInit ==
    /\ active = {} /\ reported = [a \in TelemetryAgents |-> "none"] /\ agentLogs = <<>>
    /\ listing = NoListing /\ shownLogs = [level |-> "none", logs |-> <<>>, behind |-> 0, of |-> 0]
    /\ watching = {} /\ reports = 0 /\ throughout = {} /\ sometimes = {}

\* An agent reports, in two commands of either order; it goes; or its status expires.
Report(a, status) ==
    /\ reports < MaxReports /\ reports' = reports + 1
    /\ reported' = [reported EXCEPT ![a] = status]
    /\ throughout' = IF status = "good" THEN throughout ELSE throughout \ {a}
    /\ sometimes' = IF status = "good" /\ listing.phase = "reading" THEN sometimes \cup {a} ELSE sometimes
    /\ UNCHANGED <<active, agentLogs, listing, shownLogs, watching>>
Enlist(a) ==
    /\ reports < MaxReports /\ reports' = reports + 1
    /\ active' = IF a \in active THEN active \ {a} ELSE active \cup {a}
    /\ throughout' = throughout \ {a}
    /\ UNCHANGED <<sometimes, reported, agentLogs, listing, shownLogs, watching>>
Log(level) ==
    /\ Len(agentLogs) < MaxLogs
    /\ agentLogs' = <<level>> \o agentLogs
    /\ UNCHANGED <<active, reported, listing, shownLogs, watching, reports, throughout, sometimes>>

\* get_all_agent_status: SMEMBERS; without members the answer is there.
BeginListing(by) ==
    /\ listing.phase # "reading"
    /\ listing' = [NoListing EXCEPT !.by = by, !.left = active,
                                    !.phase = IF active = {} THEN "done" ELSE "reading"]
    /\ throughout' = {a \in active : reported[a] = "good"}
    /\ sometimes' = {a \in TelemetryAgents : reported[a] = "good"}
    /\ UNCHANGED <<active, reported, agentLogs, shownLogs, watching, reports>>

\* A status that is gone, or is not of an agent, is passed over.
Parses(status) == status = "good"
\* The listing goes on after one that does not parse.
AfterBad(left) == left

ReadStatus(a) ==
    /\ listing.phase = "reading" /\ a \in listing.left
    /\ LET left == IF Parses(reported[a]) THEN listing.left \ {a} ELSE AfterBad(listing.left \ {a}) IN
       listing' = [listing EXCEPT !.left = left,
                                  !.found = IF Parses(reported[a]) THEN @ \cup {a} ELSE @,
                                  !.phase = IF left = {} THEN "done" ELSE @]
    /\ UNCHANGED <<active, reported, agentLogs, shownLogs, watching, reports, throughout, sometimes>>

\* Any error is an empty answer, with 200: the 503 of the routes never happens.
OnError(found) == {}

ListingFails ==
    /\ listing.phase = "reading"
    /\ listing' = [listing EXCEPT !.phase = "done", !.left = {}, !.found = OnError(@), !.failed = TRUE]
    /\ UNCHANGED <<active, reported, agentLogs, shownLogs, watching, reports, throughout, sometimes>>

NewestLogs(logs) == SubSeq(logs, 1, IF Len(logs) < LogLimit THEN Len(logs) ELSE LogLimit)
Matching(logs, level) == SelectSeq(logs, LAMBDA l : l # "bad" /\ level \in {"any", l})
\* get_agent_logs: the newest, and of them those that parse and are of the level.
LogsOf(logs, level) == Matching(NewestLogs(logs), level)

ShowLogs(level) ==
    /\ shownLogs' = [level |-> level, logs |-> LogsOf(agentLogs, level),
                     behind |-> Len(Matching(agentLogs, level)), of |-> Len(agentLogs)]
    /\ UNCHANGED <<active, reported, agentLogs, listing, watching, reports, throughout, sometimes>>

\* A client of the websocket: it connects, subscribes to the statuses, and leaves, which is noticed
\* when the next message is awaited.
Connect ==
    /\ "watcher" \notin watching
    /\ watching' = watching \cup {"watcher"}
    /\ UNCHANGED <<active, reported, agentLogs, listing, shownLogs, reports, throughout, sometimes>>
Subscribe == "watcher" \in watching /\ BeginListing("watcher")
Disconnect ==
    /\ "watcher" \in watching /\ (listing.phase = "reading" => listing.by # "watcher")
    /\ watching' = watching \ {"watcher"}
    /\ UNCHANGED <<active, reported, agentLogs, listing, shownLogs, reports, throughout, sometimes>>

TelemetryNext ==
    \/ \E a \in TelemetryAgents : Enlist(a) \/ ReadStatus(a) \/ \E s \in Statuses : Report(a, s)
    \/ \E l \in Levels : Log(l)
    \/ BeginListing("api") \/ ListingFails
    \/ \E l \in {"any", "info", "error"} : ShowLogs(l)
    \/ Connect \/ Subscribe \/ Disconnect

----------------------------------------------------------------------------
(* Properties. *)

\* A listing that was not cut short by Redis has every agent that was active, with a status that
\* parses, from its beginning to its end; the others may be in it.
ListedThroughout ==
    listing.phase = "done" /\ ~listing.failed /\ throughout \subseteq active => throughout \subseteq listing.found

\* An agent that is listed had a status that parses at some time of the listing, though it may no
\* longer have been active.
ListedWasThere == listing.found \subseteq sometimes

\* Fewer logs than were asked for, while there are more of the level, are told only if there are
\* more of all levels than were asked for.
FewerHasACause ==
    Len(shownLogs.logs) < LogLimit /\ Len(shownLogs.logs) < shownLogs.behind => shownLogs.of > LogLimit

------------------------------------------------------------------------------
(***************************************************************************)
(* What the dashboards show of the cluster: its health, nodes and pods     *)
(* from the Kubernetes API, the health of the services from                *)
(* VictoriaMetrics.  Each answer is kept for a while; an answer that could *)
(* not be had is made up.                                                  *)
(***************************************************************************)

CONSTANTS
    PodCount,       \* pods there may be, in the API's order
    ClusterTTL,     \* CACHE_TTL, in ticks
    ServiceTTL,     \* HEALTH_CACHE_TTL, in ticks
    SparklineTTL,   \* SPARKLINE_CACHE_TTL, in ticks
    MaxFailed,      \* five, in the code: more failed pods are critical
    MaxTicks        \* bound: changes of what there is to be shown

ASSUME ViewAssumption ==
    /\ PodCount \in Nat
    /\ {ClusterTTL, ServiceTTL, SparklineTTL} \subseteq Nat \ {0}

VARIABLES
    shows,      \* which of the answers the behaviour is about
    world,      \* history: what there was at each tick, the last one now
    cached,     \* the answer that is kept, and since when
    shown       \* the last answers: the whole, or the pages of the pods

viewVars == <<shows, world, cached, shown>>

Kinds == {"health", "nodes", "pods", "service", "services", "sparkline", "series"}
OfMetrics == {"service", "services", "sparkline", "series"}
Pods == 1..PodCount
Phases == {"Running", "Pending", "Failed", "gone"}
Loads == {"low", "high", "full", "missing"}

Now == Len(world)
There == world[Now]

NotShown == [value |-> {}, madeUp |-> FALSE, at |-> 0, since |-> 0]

ViewInit ==
    /\ shows \in Kinds
    /\ world = <<[ready |-> TRUE, pods |-> [p \in Pods |-> "Running"], load |-> "low", up |-> TRUE]>>
    /\ cached = NotShown /\ shown = <<>>

Becomes(w) == world' = Append(world, w)
\* One thing changes, or none: whether the API and VictoriaMetrics answer, a node, a pod, or the
\* load of a service.
Changes ==
    /\ Now < MaxTicks
    /\ \/ \E up \in BOOLEAN : Becomes([There EXCEPT !.up = up])
       \/ shows \in {"health", "nodes"} /\ \E ready \in BOOLEAN : Becomes([There EXCEPT !.ready = ready])
       \/ shows \in {"health", "pods"} /\ \E p \in Pods, phase \in Phases : Becomes([There EXCEPT !.pods[p] = phase])
       \/ shows \in OfMetrics /\ \E l \in Loads : Becomes([There EXCEPT !.load = l])
    /\ UNCHANGED <<shows, cached, shown>>

InPhase(w, phase) == {p \in Pods : w.pods[p] = phase}

ClusterStatus(w) ==
    IF w.ready /\ InPhase(w, "Failed") = {} THEN "healthy"
    ELSE IF ~w.ready \/ Cardinality(InPhase(w, "Failed")) > MaxFailed THEN "critical" ELSE "degraded"

RealHealth(w) == {ClusterStatus(w)}
RealNodes(w) == {IF w.ready THEN "READY" ELSE "NOT_READY"}
RealPods(w) == {[pod |-> p, phase |-> w.pods[p]] : p \in {q \in Pods : w.pods[q] # "gone"}}

\* A metric that is missing is zero.
Extract(load) == IF load = "missing" THEN "low" ELSE load
ServiceStatus(load) == CASE load = "full" -> "unhealthy" [] load = "high" -> "degraded" [] OTHER -> "healthy"
RealService(w) == {ServiceStatus(Extract(w.load))}
\* The list of services: "group by (service) (up)" is 1 for whatever there is, and what is missing
\* is taken to be there.
RealServices(w) == {"healthy"}
\* The points of a metric, if there are any.
Points(w) == {w.load} \ {"missing"}

Real(w) ==
    CASE shows = "health" -> RealHealth(w)
      [] shows = "nodes" -> RealNodes(w)
      [] shows = "pods" -> RealPods(w)
      [] shows = "service" -> RealService(w)
      [] shows = "services" -> RealServices(w)
      [] shows \in {"sparkline", "series"} -> Points(w)

\* The made up cluster is healthy with failed pods; the made up load is below any threshold.
MadeUpHealth == {"healthy"}
MadeUpNodes == {"READY"}
MadeUpPods == {[pod |-> PodCount + 1, phase |-> "Running"], [pod |-> PodCount + 2, phase |-> "Pending"],
               [pod |-> PodCount + 3, phase |-> "Failed"]}
MadeUpService == {ServiceStatus("low")}
MadeUpSparkline == {"made up"}
MadeUp ==
    CASE shows = "health" -> MadeUpHealth
      [] shows = "nodes" -> MadeUpNodes
      [] shows = "pods" -> MadeUpPods
      [] shows = "sparkline" -> MadeUpSparkline
      [] shows \in {"service", "services"} -> MadeUpService

TTL == CASE shows \in {"health", "nodes", "pods"} -> ClusterTTL
         [] shows = "service" -> ServiceTTL
         [] shows = "sparkline" -> SparklineTTL
         [] shows \in {"services", "series"} -> 1

\* _is_cache_valid, and there is something in it: an empty list is asked for again, unlike the
\* points of a metric.
Kept ==
    /\ cached.at # 0 /\ Now - cached.at < TTL
    /\ cached.value # {} \/ shows = "sparkline"

Reply(value, madeUp) == [value |-> value, madeUp |-> madeUp, at |-> Now, since |-> Now]
\* What the API or VictoriaMetrics answer, or what is made up instead; for a series, an error.
Fetched ==
    IF There.up THEN Reply(Real(There), FALSE)
    ELSE IF shows = "series" THEN Reply({"error"}, FALSE) ELSE Reply(MadeUp, TRUE)

Served == IF Kept THEN [cached EXCEPT !.at = Now] ELSE Fetched

\* The cluster's answers are kept whatever they are, those from VictoriaMetrics when they were had,
\* the list of services and the series never.
Keep(reply) ==
    IF Kept \/ shows \in {"services", "series"} \/ (shows \in OfMetrics /\ reply.madeUp) THEN cached ELSE reply

Show ==
    /\ shows # "pods"
    /\ shown' = <<Served>> /\ cached' = Keep(Served)
    /\ UNCHANGED <<shows, world>>

\* The filter first, then limit 1 from offset, in the API's order.
Page(pods, status, offset) ==
    LET filtered == {q \in pods : q.phase = status} IN
    {q \in filtered : Cardinality({r \in filtered : r.pod < q.pod}) = offset}

\* get_pods, for the running ones: the next page of one.
ShowPage ==
    /\ shows = "pods" /\ Len(shown) < Cardinality(Pods)
    /\ shown' = Append(shown, [Served EXCEPT !.value = Page(@, "Running", Len(shown))])
    /\ cached' = Keep(Served)
    /\ UNCHANGED <<shows, world>>

ViewNext == Changes \/ Show \/ ShowPage

----------------------------------------------------------------------------
(* Properties. *)

\* The ticks that a reply may be of.
Recent(reply) == {t \in 1..reply.at : reply.at - t < TTL}

\* What is shown, but for pods, was so within the time that answers are kept for; an error, then,
\* that nobody answered.
ShownWasSo == shows # "pods" => \A i \in DOMAIN shown : ~shown[i].madeUp =>
    \E t \in Recent(shown[i]) :
        shown[i].value = IF world[t].up THEN Real(world[t]) ELSE {"error"}

\* What is made up is shown only if there was no answer within that time; from VictoriaMetrics, only
\* if there is none now.
MadeUpHasACause == \A i \in DOMAIN shown : shown[i].madeUp =>
    \/ ~world[shown[i].at].up
    \/ shows \notin OfMetrics /\ \E t \in Recent(shown[i]) : ~world[t].up

\* A cluster or a service shown healthy was so; or nobody answered; or its metrics were missing.
\* The list of services shows every service healthy.
HealthyHasACause == shows # "pods" => \A i \in DOMAIN shown : shown[i].value = {"healthy"} =>
    \E t \in Recent(shown[i]) :
        \/ ~world[t].up \/ shows = "services"
        \/ shows = "health" /\ world[t].ready /\ \A p \in Pods : world[t].pods[p] # "Failed"
        \/ shows = "service" /\ world[t].load \in {"low", "missing"}

\* Two pages that were taken of one answer have no pod in common, and are no shorter than they
\* can be: with the first empty so is the second.
PagesAreApart == shows = "pods" => \A i, j \in DOMAIN shown :
    i < j /\ shown[i].since = shown[j].since /\ shown[i].madeUp = shown[j].madeUp =>
        /\ shown[i].value \cap shown[j].value = {}
        /\ shown[i].value = {} => shown[j].value = {}
==============================================================================
