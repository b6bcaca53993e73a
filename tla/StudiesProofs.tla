--------------------------- MODULE StudiesProofs ----------------------------
(* What MCStudies checks of its components on an instance, for every value of  *)
(* the constants: here of what is shown and of what stores hold, with the      *)
(* proofs of what is answered, and of ideas, in AnswersProofs.  Each component *)
(* has its specification, its invariant, which is inductive, and a lemma that  *)
(* the one keeps the other; the properties are parts of these invariants or    *)
(* follow from them.                                                           *)
EXTENDS MCStudies, AnswersProofs, ExplorationProofs
-----------------------------------------------------------------------------
(* Probes and scrapes.  The cached value is that of Redis once an update   *)
(* that asked since the last change has been stored; the orchestrator has  *)
(* no updater, and so neither a checked nor a healthy value.               *)

HealthSpec == HealthInit /\ [][HealthNext]_healthVars

HealthTyped ==
    /\ process \in [service : {"workers", "swarm", "orchestrator"},
                    phase : {"off", "serving", "draining", "ended"}, loop : {"runs", "blocked"},
                    thread : BOOLEAN, updater : BOOLEAN,
                    update : [up : BOOLEAN, since : BOOLEAN, asked : BOOLEAN]]
    /\ {cachedUp, redisUp, checked} \subseteq BOOLEAN
ChecksAreRecent ==
    /\ checked => cachedUp = redisUp
    /\ process.update.asked /\ process.update.since => process.update.up = redisUp
    /\ process.update.asked /\ ~process.update.since => ~checked
OnlyOrchestratorAsks ==
    /\ process.service = "orchestrator" =>
        ~process.thread /\ ~process.updater /\ ~process.update.asked /\ ~checked /\ ~cachedUp
    /\ process.service # "orchestrator" /\ process.phase = "serving" => process.thread

HealthInv == HealthTyped /\ ChecksAreRecent /\ OnlyOrchestratorAsks
             /\ CheckedIsTold /\ SilenceHasACause /\ OrchestratorIsSplit

LEMMA HealthStart == HealthInit => HealthInv
<1> SUFFICES ASSUME HealthInit
             PROVE  HealthInv
  OBVIOUS
<1>1. PICK s \in {"workers", "swarm", "orchestrator"} :
        process = [service |-> s, phase |-> "off", loop |-> "runs", thread |-> FALSE, updater |-> FALSE,
                   update |-> [up |-> FALSE, since |-> FALSE, asked |-> FALSE]]
  BY DEF HealthInit, MainOf, NotAsked
<1>2. HealthTyped
  BY <1>1 DEF HealthInit, HealthTyped
<1>3. ChecksAreRecent /\ OnlyOrchestratorAsks
  BY <1>1 DEF HealthInit, ChecksAreRecent, OnlyOrchestratorAsks
<1>4. CheckedIsTold /\ SilenceHasACause /\ OrchestratorIsSplit
  BY DEF HealthInit, NothingSaid, CheckedIsTold, SilenceHasACause, OrchestratorIsSplit
<1> QED
  BY <1>2, <1>3, <1>4 DEF HealthInv

LEMMA AnswerStands ==
    ASSUME CheckedIsTold, SilenceHasACause, OrchestratorIsSplit,
           answer' = answer, process'.service = process.service,
           HealthTyped', ChecksAreRecent', OnlyOrchestratorAsks'
    PROVE  HealthInv'
BY DEF CheckedIsTold, SilenceHasACause, OrchestratorIsSplit, StatusOf, HealthInv

LEMMA HealthStep == HealthInv /\ HealthNext => HealthInv'
<1> SUFFICES ASSUME HealthInv, HealthNext
             PROVE  HealthInv'
  OBVIOUS
<1>1. /\ HealthTyped /\ ChecksAreRecent /\ OnlyOrchestratorAsks
      /\ CheckedIsTold /\ SilenceHasACause /\ OrchestratorIsSplit
  BY DEF HealthInv
<1>2. CASE Start
  <2>1. /\ MainOf["workers"] = WorkersMain /\ MainOf["swarm"] = SwarmMain
        /\ MainOf["orchestrator"] = OrchestratorMain
        /\ process.service \in {"workers", "swarm", "orchestrator"}
    BY <1>1 DEF HealthTyped, MainOf
  <2>2. ASSUME NEW thread \in BOOLEAN, NEW updater \in BOOLEAN,
               process' = [process EXCEPT !.phase = "serving", !.thread = thread, !.updater = updater],
               process.service = "orchestrator" => ~thread /\ ~updater,
               process.service # "orchestrator" => thread
        PROVE  HealthTyped' /\ ChecksAreRecent' /\ OnlyOrchestratorAsks'
    BY <1>1, <1>2, <2>2 DEF Start, HealthTyped, ChecksAreRecent, OnlyOrchestratorAsks
  <2>4. HealthTyped' /\ ChecksAreRecent' /\ OnlyOrchestratorAsks'
    <3>1. CASE process.service = "orchestrator"
      <4>1. process' = [process EXCEPT !.phase = "serving", !.thread = FALSE, !.updater = FALSE]
        <5>1. MainOf[process.service].thread = FALSE /\ MainOf[process.service].updater = FALSE
          BY <2>1, <3>1 DEF OrchestratorMain
        <5> QED
          BY <1>2, <5>1, Zenon DEF Start
      <4> QED
        BY <2>2, <3>1, <4>1
    <3>2. CASE process.service # "orchestrator"
      <4>1. process' = [process EXCEPT !.phase = "serving", !.thread = TRUE, !.updater = TRUE]
        <5>1. MainOf[process.service].thread = TRUE /\ MainOf[process.service].updater = TRUE
          BY <2>1, <3>2 DEF WorkersMain, SwarmMain
        <5> QED
          BY <1>2, <5>1, Zenon DEF Start
      <4> QED
        BY <2>2, <3>2, <4>1
    <3> QED
      BY <3>1, <3>2
  <2>3. CheckedIsTold' /\ SilenceHasACause' /\ OrchestratorIsSplit'
    BY <1>1, <1>2 DEF Start, HealthTyped, CheckedIsTold, SilenceHasACause, OrchestratorIsSplit, StatusOf
  <2> QED
    BY <2>3, <2>4 DEF HealthInv
<1>3. CASE UpdateAsks
  <2>1. HealthTyped' /\ process'.service = process.service /\ answer' = answer
    BY <1>1, <1>3 DEF UpdateAsks, Ping, HealthTyped
  <2>2. ChecksAreRecent' /\ OnlyOrchestratorAsks'
    BY <1>1, <1>3 DEF UpdateAsks, Ping, HealthTyped, ChecksAreRecent, OnlyOrchestratorAsks
  <2> QED
    BY <1>1, <2>1, <2>2, AnswerStands
<1>4. CASE UpdateStores
  <2>1. HealthTyped' /\ process'.service = process.service /\ answer' = answer
    BY <1>1, <1>4 DEF UpdateStores, NotAsked, HealthTyped
  <2>2. ChecksAreRecent' /\ OnlyOrchestratorAsks'
    BY <1>1, <1>4 DEF UpdateStores, NotAsked, HealthTyped, ChecksAreRecent, OnlyOrchestratorAsks
  <2> QED
    BY <1>1, <2>1, <2>2, AnswerStands
<1>5. CASE Flips
  <2>1. HealthTyped' /\ process'.service = process.service /\ answer' = answer
    BY <1>1, <1>5 DEF Flips, HealthTyped
  <2>2. ChecksAreRecent' /\ OnlyOrchestratorAsks'
    BY <1>1, <1>5 DEF Flips, HealthTyped, ChecksAreRecent, OnlyOrchestratorAsks
  <2> QED
    BY <1>1, <2>1, <2>2, AnswerStands
<1>6. CASE Blocks
  <2>1. HealthTyped' /\ process'.service = process.service /\ answer' = answer
    BY <1>1, <1>6 DEF Blocks, HealthTyped
  <2>2. ChecksAreRecent' /\ OnlyOrchestratorAsks'
    BY <1>1, <1>6 DEF Blocks, HealthTyped, ChecksAreRecent, OnlyOrchestratorAsks
  <2> QED
    BY <1>1, <2>1, <2>2, AnswerStands
<1>7. CASE SignalWorkers
  <2>1. HealthTyped' /\ process'.service = process.service /\ answer' = answer
    BY <1>1, <1>7 DEF SignalWorkers, HealthTyped
  <2>2. ChecksAreRecent' /\ OnlyOrchestratorAsks'
    BY <1>1, <1>7 DEF SignalWorkers, HealthTyped, ChecksAreRecent, OnlyOrchestratorAsks
  <2> QED
    BY <1>1, <2>1, <2>2, AnswerStands
<1>8. CASE Ends
  <2>1. HealthTyped' /\ process'.service = process.service /\ answer' = answer
    BY <1>1, <1>8 DEF Ends, Loops, NotAsked, HealthTyped
  <2>2. ChecksAreRecent' /\ OnlyOrchestratorAsks'
    BY <1>1, <1>8 DEF Ends, Loops, NotAsked, HealthTyped, ChecksAreRecent, OnlyOrchestratorAsks
  <2> QED
    BY <1>1, <2>1, <2>2, AnswerStands
<1>9. ASSUME NEW q \in Requests, Request(q)
      PROVE  HealthInv'
  <2>1. HealthTyped' /\ ChecksAreRecent' /\ OnlyOrchestratorAsks' /\ process' = process
    BY <1>1, <1>9 DEF Request, HealthTyped, ChecksAreRecent, OnlyOrchestratorAsks
  <2>2. CASE ~Serves
    <3>1. answer' = [NothingSaid EXCEPT !.cause = WhyNot, !.request = q, !.redis = redisUp, !.checked = checked]
      BY <1>9, <2>2 DEF Request, NothingSaid
    <3>2. \/ WhyNot \in {"off", "draining", "ended"}
          \/ WhyNot = "blocked" /\ process.service = "orchestrator"
      BY <1>1, <2>2 DEF WhyNot, Serves, Loops, HealthTyped, OnlyOrchestratorAsks
    <3>3. CheckedIsTold' /\ SilenceHasACause' /\ OrchestratorIsSplit'
      BY <2>1, <3>1, <3>2 DEF NothingSaid, CheckedIsTold, SilenceHasACause, OrchestratorIsSplit
    <3> QED
      BY <2>1, <3>3 DEF HealthInv
  <2>3. CASE Serves
    <3>1. answer' = [Answered(q) EXCEPT !.request = q, !.redis = redisUp, !.checked = checked]
      BY <1>9, <2>3 DEF Request
    <3>2. /\ {cachedUp, redisUp, checked} \subseteq BOOLEAN /\ (checked => cachedUp = redisUp)
          /\ process.service = "orchestrator" => ~cachedUp
      BY <1>1 DEF HealthTyped, ChecksAreRecent, OnlyOrchestratorAsks
    <3>3. ASSUME NEW said \in {"healthy", "unhealthy"}, NEW num \in Nat,
                 Answered(q) = [NothingSaid EXCEPT !.said = said, !.code = num],
                 q \in {"ready", "metrics"} /\ checked => said = StatusOf(redisUp),
                 process.service = "orchestrator" => num = 200 /\ (q = "metrics" => said = "unhealthy")
          PROVE  HealthInv'
      <4>1. /\ answer'.request = q /\ answer'.said = said /\ answer'.code = num /\ answer'.cause = "none"
            /\ answer'.redis = redisUp /\ answer'.checked = checked
        <5>1. /\ DOMAIN NothingSaid = {"request", "said", "code", "redis", "checked", "cause"}
              /\ NothingSaid.cause = "none"
          BY DEF NothingSaid
        <5>2. /\ DOMAIN Answered(q) = {"request", "said", "code", "redis", "checked", "cause"}
              /\ Answered(q).said = said /\ Answered(q).code = num /\ Answered(q).cause = "none"
          BY <3>3, <5>1
        <5> QED
          BY <3>1, <5>2
      <4>2. CheckedIsTold' /\ SilenceHasACause' /\ OrchestratorIsSplit'
        BY <2>1, <3>3, <4>1 DEF CheckedIsTold, SilenceHasACause, OrchestratorIsSplit, StatusOf
      <4> QED
        BY <2>1, <4>2 DEF HealthInv
    <3>4. CASE q = "live"
      <4>1. Answered(q) = [NothingSaid EXCEPT !.said = "healthy", !.code = 200]
        BY <3>4 DEF Answered, Liveness
      <4> QED
        BY <3>3, <3>4, <4>1
    <3>5. CASE q = "metrics"
      <4>1. Answered(q) = [NothingSaid EXCEPT !.said = StatusOf(cachedUp), !.code = 200]
        BY <3>5 DEF Answered, Gauge
      <4>2. /\ checked => StatusOf(cachedUp) = StatusOf(redisUp)
            /\ process.service = "orchestrator" => StatusOf(cachedUp) = "unhealthy"
        BY <3>2 DEF StatusOf
      <4> QED
        BY <3>3, <3>5, <4>1, <4>2 DEF StatusOf
    <3>6. CASE q = "ready" /\ process.service = "orchestrator"
      <4>1. Answered(q) = [NothingSaid EXCEPT !.said = StatusOf(redisUp), !.code = 200]
        BY <3>6 DEF Answered, CheckedHealth, Ping
      <4> QED
        BY <3>3, <3>6, <4>1 DEF StatusOf
    <3>7. CASE q = "ready" /\ process.service # "orchestrator"
      <4>1. Answered(q) = [NothingSaid EXCEPT !.said = StatusOf(cachedUp), !.code = CodeOf(cachedUp)]
        BY <3>7 DEF Answered, CachedHealth
      <4>2. checked => StatusOf(cachedUp) = StatusOf(redisUp)
        BY <3>2
      <4>3. StatusOf(cachedUp) \in {"healthy", "unhealthy"} /\ CodeOf(cachedUp) \in Nat
        BY DEF StatusOf, CodeOf
      <4> QED
        BY <3>3, <3>7, <4>1, <4>2, <4>3
    <3> QED
      BY <3>4, <3>5, <3>6, <3>7 DEF Requests
  <2> QED
    BY <2>2, <2>3
<1> QED
  BY <1>2, <1>3, <1>4, <1>5, <1>6, <1>7, <1>8, <1>9 DEF HealthNext

LEMMA HealthAlways == HealthSpec => []HealthInv
<1>1. HealthInv /\ UNCHANGED healthVars => HealthInv'
  BY DEF HealthInv, healthVars, HealthTyped, ChecksAreRecent, OnlyOrchestratorAsks, CheckedIsTold,
         SilenceHasACause, OrchestratorIsSplit
<1> QED
  BY <1>1, HealthStart, HealthStep, PTL DEF HealthSpec

-----------------------------------------------------------------------------
(* Agents' status and logs.  An agent that had a status throughout a       *)
(* listing is still to be read, or found.                                  *)

TelemetrySpec == TelemetryInit /\ [][TelemetryNext]_telemetryVars

TelemetryTyped ==
    /\ active \subseteq TelemetryAgents /\ reported \in [TelemetryAgents -> Statuses]
    /\ listing \in [phase : {"none", "reading", "done"}, left : SUBSET TelemetryAgents,
                    found : SUBSET TelemetryAgents, by : {"api", "watcher"}, failed : BOOLEAN]
    /\ agentLogs \in Seq(Levels)
ThroughoutIsRead ==
    /\ \A a \in throughout : a \in active /\ reported[a] = "good"
    /\ listing.phase # "none" /\ ~listing.failed => throughout \subseteq listing.left \cup listing.found
    /\ listing.phase = "done" => listing.left = {}
    /\ listing.phase = "none" => throughout = {}
SometimesIsNow ==
    listing.phase = "reading" => \A a \in TelemetryAgents : reported[a] = "good" => a \in sometimes

TelemetryInv == TelemetryTyped /\ ThroughoutIsRead /\ SometimesIsNow /\ ListedWasThere /\ FewerHasACause

LEMMA TelemetryStart == TelemetryInit => TelemetryInv
BY DEF TelemetryInit, NoListing, TelemetryInv, TelemetryTyped, Statuses, ThroughoutIsRead, SometimesIsNow,
       ListedWasThere, FewerHasACause

LEMMA Listed ==
    ASSUME TelemetryInv, NEW by \in {"api", "watcher"}, BeginListing(by)
    PROVE  TelemetryInv'
<1>1. TelemetryTyped /\ FewerHasACause
  BY DEF TelemetryInv
<1> DEFINE phase == IF active = {} THEN "done" ELSE "reading"
<1>2. listing' = [phase |-> phase, left |-> active, found |-> {}, by |-> by, failed |-> FALSE]
  BY DEF BeginListing, NoListing
<1>6. phase \in {"none", "reading", "done"} /\ phase # "none" /\ (phase = "done" => active = {})
  OBVIOUS
<1> HIDE DEF phase
<1>3. TelemetryTyped'
  <2>1. active' = active /\ reported' = reported /\ agentLogs' = agentLogs
    BY Zenon DEF BeginListing
  <2> QED
    BY <1>1, <1>2, <1>6, <2>1 DEF TelemetryTyped
<1>4. ThroughoutIsRead' /\ SometimesIsNow' /\ ListedWasThere'
  <2>1. /\ listing'.phase = phase /\ listing'.left = active /\ listing'.found = {}
    BY <1>2
  <2>2. /\ active' = active /\ reported' = reported
        /\ throughout' = {a \in active : reported[a] = "good"}
        /\ sometimes' = {a \in TelemetryAgents : reported[a] = "good"}
    BY Zenon DEF BeginListing
  <2> QED
    BY <1>6, <2>1, <2>2 DEF ThroughoutIsRead, SometimesIsNow, ListedWasThere
<1>5. FewerHasACause'
  BY <1>1 DEF BeginListing, FewerHasACause
<1> QED
  BY <1>3, <1>4, <1>5 DEF TelemetryInv

LEMMA TelemetryStep == TelemetryInv /\ TelemetryNext => TelemetryInv'
<1> SUFFICES ASSUME TelemetryInv, TelemetryNext
             PROVE  TelemetryInv'
  OBVIOUS
<1>1. /\ TelemetryTyped /\ ThroughoutIsRead /\ SometimesIsNow /\ ListedWasThere /\ FewerHasACause
  BY DEF TelemetryInv
<1>2. ASSUME NEW a \in TelemetryAgents, Enlist(a)
      PROVE  TelemetryInv'
  <2>1. TelemetryTyped' /\ ThroughoutIsRead' /\ SometimesIsNow'
    BY <1>1, <1>2 DEF Enlist, TelemetryTyped, ThroughoutIsRead, SometimesIsNow
  <2>2. ListedWasThere' /\ FewerHasACause'
    BY <1>1, <1>2 DEF Enlist, ListedWasThere, FewerHasACause
  <2> QED
    BY <2>1, <2>2 DEF TelemetryInv
<1>3. ASSUME NEW a \in TelemetryAgents, ReadStatus(a)
      PROVE  TelemetryInv'
  <2>1. /\ listing.phase = "reading" /\ a \in listing.left
        /\ UNCHANGED <<active, reported, agentLogs, shownLogs, throughout, sometimes>>
        /\ listing' = [listing EXCEPT
              !.left = @ \ {a}, !.found = IF reported[a] = "good" THEN @ \cup {a} ELSE @,
              !.phase = IF listing.left \ {a} = {} THEN "done" ELSE @]
    BY <1>3 DEF ReadStatus, Parses, AfterBad
  <2>2. TelemetryTyped'
    BY <1>1, <2>1 DEF TelemetryTyped
  <2>3. ThroughoutIsRead' /\ SometimesIsNow' /\ ListedWasThere'
    BY <1>1, <2>1 DEF TelemetryTyped, ThroughoutIsRead, SometimesIsNow, ListedWasThere
  <2>4. FewerHasACause'
    BY <1>1, <2>1 DEF FewerHasACause
  <2> QED
    BY <2>2, <2>3, <2>4 DEF TelemetryInv
<1>4. ASSUME NEW a \in TelemetryAgents, NEW s \in Statuses, Report(a, s)
      PROVE  TelemetryInv'
  <2>1. TelemetryTyped'
    BY <1>1, <1>4 DEF Report, TelemetryTyped
  <2>2. ThroughoutIsRead'
    BY <1>1, <1>4 DEF Report, TelemetryTyped, ThroughoutIsRead
  <2>3. SometimesIsNow' /\ ListedWasThere'
    BY <1>1, <1>4 DEF Report, TelemetryTyped, SometimesIsNow, ListedWasThere
  <2>4. FewerHasACause'
    BY <1>1, <1>4 DEF Report, FewerHasACause
  <2> QED
    BY <2>1, <2>2, <2>3, <2>4 DEF TelemetryInv
<1>5. ASSUME NEW l \in Levels, Log(l)
      PROVE  TelemetryInv'
  BY <1>1, <1>5 DEF Log, TelemetryInv, TelemetryTyped, ThroughoutIsRead, SometimesIsNow, ListedWasThere,
                    FewerHasACause
<1>6. CASE ListingFails
  <2>1. TelemetryTyped' /\ ThroughoutIsRead' /\ SometimesIsNow' /\ ListedWasThere'
    BY <1>1, <1>6 DEF ListingFails, OnError, TelemetryTyped, ThroughoutIsRead, SometimesIsNow, ListedWasThere
  <2>2. FewerHasACause'
    BY <1>1, <1>6 DEF ListingFails, FewerHasACause
  <2> QED
    BY <2>1, <2>2 DEF TelemetryInv
<1>7. ASSUME NEW level \in {"any", "info", "error"}, ShowLogs(level)
      PROVE  TelemetryInv'
  <2>1. TelemetryTyped' /\ ThroughoutIsRead' /\ SometimesIsNow' /\ ListedWasThere'
    BY <1>1, <1>7 DEF ShowLogs, TelemetryTyped, ThroughoutIsRead, SometimesIsNow, ListedWasThere
  <2>2. Len(agentLogs) \in Nat /\ (Len(agentLogs) <= LogLimit => LogsOf(agentLogs, level) = Matching(agentLogs, level))
    <3>1. agentLogs \in Seq(Levels)
      BY <1>1 DEF TelemetryTyped
    <3>2. Len(agentLogs) <= LogLimit => NewestLogs(agentLogs) = SubSeq(agentLogs, 1, Len(agentLogs))
      BY <3>1, TelemetryAssumption DEF NewestLogs
    <3>3. SubSeq(agentLogs, 1, Len(agentLogs)) = agentLogs
      BY <3>1
    <3> QED
      BY <3>1, <3>2, <3>3 DEF LogsOf
  <2>3. FewerHasACause'
    <3> DEFINE newest == LogsOf(agentLogs, level)
               all == Matching(agentLogs, level)
    <3>1. shownLogs' = [level |-> level, logs |-> newest, behind |-> Len(all), of |-> Len(agentLogs)]
      BY <1>7 DEF ShowLogs
    <3> HIDE DEF newest, all
    <3>2. shownLogs'.logs = newest /\ shownLogs'.behind = Len(all) /\ shownLogs'.of = Len(agentLogs)
      BY <3>1
    <3>3. Len(agentLogs) <= LogLimit => newest = all
      BY <2>2 DEF newest, all
    <3>4. CASE newest = all
      BY <3>2, <3>4 DEF FewerHasACause
    <3>5. CASE Len(agentLogs) > LogLimit
      BY <3>2, <3>5 DEF FewerHasACause
    <3> QED
      BY <2>2, <3>3, <3>4, <3>5, TelemetryAssumption
  <2> QED
    BY <2>1, <2>3 DEF TelemetryInv
<1>8. CASE Connect \/ Disconnect
  BY <1>1, <1>8 DEF Connect, Disconnect, TelemetryInv, TelemetryTyped, ThroughoutIsRead, SometimesIsNow,
                    ListedWasThere, FewerHasACause
<1>9. CASE BeginListing("api") \/ Subscribe
  BY <1>9, Listed DEF Subscribe
<1> QED
  BY <1>2, <1>3, <1>4, <1>5, <1>6, <1>7, <1>8, <1>9 DEF TelemetryNext

LEMMA TelemetryAlways == TelemetrySpec => []TelemetryInv
<1>1. TelemetryInv /\ UNCHANGED telemetryVars => TelemetryInv'
  BY DEF TelemetryInv, telemetryVars, TelemetryTyped, ThroughoutIsRead, SometimesIsNow, ListedWasThere,
         FewerHasACause
<1> QED
  BY <1>1, TelemetryStart, TelemetryStep, PTL DEF TelemetrySpec
-----------------------------------------------------------------------------
(* The cluster's dashboards: pages.  An element's rank is the number of    *)
(* those before it; where there is a rank there is each lower one.         *)

Below(F, q) == {r \in F : r.pod < q.pod}
Numbered(F) == /\ IsFiniteSet(F) /\ \A q \in F : q.pod \in Nat
               /\ \A q, r \in F : q.pod = r.pod => q = r

LEMMA RankBefore ==
    ASSUME NEW F, Numbered(F), NEW k \in Nat, NEW q \in F, Cardinality(Below(F, q)) = k + 1
    PROVE  \E r \in F : Cardinality(Below(F, r)) = k
<1>1. Below(F, q) \subseteq F /\ IsFiniteSet(Below(F, q))
  BY FS_Subset DEF Below, Numbered
<1>2. Below(F, q) # {}
  BY FS_EmptySet
<1> DEFINE D == {q.pod - r.pod : r \in Below(F, q)}
<1>3. D \subseteq Nat /\ D # {}
  BY <1>2 DEF Below, Numbered
<1>4. PICK d \in D : \A e \in D : d <= e
  BY <1>3, Least, Zenon
<1>5. PICK r \in Below(F, q) : \A o \in Below(F, q) : q.pod - r.pod <= q.pod - o.pod
  BY <1>4
<1>6. Below(F, r) = Below(F, q) \ {r}
  <2>1. ASSUME NEW o \in F
        PROVE  o.pod < r.pod <=> o.pod < q.pod /\ o # r
    <3>1. o.pod \in Nat /\ r.pod \in Nat /\ q.pod \in Nat /\ r.pod < q.pod /\ (o.pod = r.pod => o = r)
      BY DEF Below, Numbered
    <3>2. o.pod < q.pod => q.pod - r.pod <= q.pod - o.pod
      BY <1>5 DEF Below
    <3> QED
      BY <3>1, <3>2
  <2> QED
    BY <2>1 DEF Below
<1>7. Cardinality(Below(F, r)) = k
  <2> DEFINE B == Below(F, q)
  <2>1. IsFiniteSet(B) /\ r \in B /\ Cardinality(B) = k + 1
    BY <1>1
  <2> HIDE DEF B
  <2>2. Cardinality(B \ {r}) = Cardinality(B) - 1
    BY <2>1, FS_RemoveElement
  <2>3. Cardinality(B \ {r}) = k
    BY <2>1, <2>2
  <2> QED
    BY <1>6, <2>3 DEF B
<1> QED
  BY <1>7 DEF Below

LEMMA RanksDown ==
    ASSUME NEW F, Numbered(F), NEW k \in Nat, NEW l \in Nat, k <= l,
           \E q \in F : Cardinality(Below(F, q)) = l
    PROVE  \E q \in F : Cardinality(Below(F, q)) = k
<1> DEFINE HasRank(n) == \E q \in F : Cardinality(Below(F, q)) = n
           S == {n \in Nat : HasRank(k + n) => HasRank(k)}
<1>1. 0 \in S
  OBVIOUS
<1>2. \A n \in Nat : n \in S => n + 1 \in S
  <2> SUFFICES ASSUME NEW n \in S, HasRank(k + (n + 1))
               PROVE  HasRank(k)
    OBVIOUS
  <2>1. k + n \in Nat /\ k + (n + 1) = (k + n) + 1
    OBVIOUS
  <2>2. HasRank(k + n)
    BY <2>1, RankBefore
  <2> QED
    BY <2>2
<1>3. l - k \in S
  <2>1. l - k \in Nat
    OBVIOUS
  <2> HIDE DEF S
  <2> QED
    BY <1>1, <1>2, <2>1, AllNumbers
<1>4. k + (l - k) = l
  OBVIOUS
<1> QED
  BY <1>3, <1>4

LEMMA PagesDiffer ==
    ASSUME NEW pods, Numbered(pods), NEW sort, NEW k \in Nat, NEW l \in Nat, k < l
    PROVE  /\ Page(pods, sort, k) \cap Page(pods, sort, l) = {}
           /\ Page(pods, sort, k) = {} => Page(pods, sort, l) = {}
<1> DEFINE F == {q \in pods : q.phase = sort}
<1>1. Numbered(F)
  BY FS_Subset DEF Numbered
<1>2. \A n : Page(pods, sort, n) = {q \in F : Cardinality(Below(F, q)) = n}
  BY DEF Page, Below
<1> HIDE DEF F
<1>3. Page(pods, sort, l) # {} => Page(pods, sort, k) # {}
  BY <1>1, <1>2, RanksDown
<1> QED
  BY <1>2, <1>3
LEMMA PodsNumbered ==
    /\ \A w : Numbered(RealPods(w))
    /\ Numbered(MadeUpPods)
<1>1. ASSUME NEW w
      PROVE  Numbered(RealPods(w))
  <2> DEFINE P == RealPods(w)
             f == [q \in P |-> q.pod]
  <2>1. /\ \A q \in P : q.pod \in 1..PodCount /\ q = [pod |-> q.pod, phase |-> w.pods[q.pod]]
    BY DEF RealPods, Pods
  <2> HIDE DEF P
  <2>2. \A q, r \in P : q.pod = r.pod => q = r
    BY <2>1
  <2>3. f \in Injection(P, 1..PodCount)
    BY <2>1, <2>2 DEF Injection, IsInjective
  <2>4. IsFiniteSet(1..PodCount) /\ \A n \in 1..PodCount : n \in Nat
    <3>1. 1 \in Int /\ PodCount \in Int /\ PodCount \in Nat
      BY ViewAssumption
    <3> QED
      BY <3>1, FS_Interval
  <2>5. IsFiniteSet(P)
    BY <2>3, <2>4, FS_Injection
  <2> QED
    BY <2>1, <2>2, <2>4, <2>5 DEF Numbered, P
<1>2. Numbered(MadeUpPods)
  <2> DEFINE a == [pod |-> PodCount + 1, phase |-> "Running"]
             b == [pod |-> PodCount + 2, phase |-> "Pending"]
             c == [pod |-> PodCount + 3, phase |-> "Failed"]
  <2>1. MadeUpPods = (({} \cup {a}) \cup {b}) \cup {c}
    BY DEF MadeUpPods
  <2>2. a.pod = PodCount + 1 /\ b.pod = PodCount + 2 /\ c.pod = PodCount + 3
    OBVIOUS
  <2> HIDE DEF a, b, c
  <2>3. IsFiniteSet(({} \cup {a}) \cup {b})
    BY FS_EmptySet, FS_AddElement
  <2>4. IsFiniteSet(MadeUpPods)
    BY <2>1, <2>3, FS_AddElement
  <2> QED
    BY <2>1, <2>2, <2>4, ViewAssumption DEF Numbered
<1> QED
  BY <1>1, <1>2

-----------------------------------------------------------------------------
(* What is told of the cluster is of a tick, which is not too long ago.    *)

ViewSpec == ViewInit /\ [][ViewNext]_viewVars

Worlds == [ready : BOOLEAN, pods : [Pods -> Phases], load : Loads, up : BOOLEAN]
ViewTyped == shows \in Kinds /\ world \in Seq(Worlds) /\ Now # 0

\* A value was fetched, or made up, at a tick; and is told at a later one.
ToldAs(value, madeUp, at, since) ==
    /\ madeUp \in BOOLEAN /\ since \in 1..Now /\ at \in since..Now /\ at - since < TTL
    /\ madeUp => /\ ~world[since].up /\ value = MadeUp /\ shows # "series"
                 /\ shows \in OfMetrics => at = since
    /\ ~madeUp => value = IF world[since].up THEN Real(world[since]) ELSE {"error"}
    /\ ~madeUp /\ ~world[since].up => shows = "series"

CachedTold ==
    /\ DOMAIN cached = {"value", "madeUp", "at", "since"}
    /\ cached.at # 0 => /\ cached.at = cached.since /\ cached.at \in Nat
                        /\ ToldAs(cached.value, cached.madeUp, cached.at, cached.since)
                        /\ cached.madeUp => shows \notin OfMetrics
ShownTold ==
    /\ \E S : shown \in Seq(S)
    /\ \A i \in DOMAIN shown : \E value :
        /\ ToldAs(value, shown[i].madeUp, shown[i].at, shown[i].since)
        /\ shown[i].value = IF shows = "pods" THEN Page(value, "Running", i - 1) ELSE value

ViewInv == ViewTyped /\ CachedTold /\ ShownTold

LEMMA ViewStart == ViewInit => ViewInv
<1> SUFFICES ASSUME ViewInit
             PROVE  ViewInv
  OBVIOUS
<1> DEFINE w == [ready |-> TRUE, pods |-> [p \in Pods |-> "Running"], load |-> "low", up |-> TRUE]
<1>1. w \in Worlds /\ world = <<w>>
  BY DEF ViewInit, Worlds, Phases, Loads
<1> HIDE DEF w
<1>2. ViewTyped
  <2>1. world \in Seq(Worlds) /\ Len(world) = 1
    BY <1>1
  <2> QED
    BY <2>1 DEF ViewInit, ViewTyped, Now
<1>3. CachedTold
  BY DEF ViewInit, CachedTold, NotShown
<1>4. ShownTold
  <2>1. shown \in Seq({}) /\ DOMAIN shown = {}
    BY DEF ViewInit
  <2> QED
    BY <2>1 DEF ShownTold
<1> QED
  BY <1>2, <1>3, <1>4 DEF ViewInv

\* Time does not change what was told.
LEMMA ToldStays ==
    ASSUME ViewTyped, ViewTyped', shows' = shows, Now <= Now', \A t \in 1..Now : world'[t] = world[t],
           NEW value, NEW madeUp, NEW at, NEW since, ToldAs(value, madeUp, at, since)
    PROVE  ToldAs(value, madeUp, at, since)'
<1>1. Now \in Nat /\ Now' \in Nat
  BY DEF ViewTyped, Now
<1>2. TTL' = TTL /\ MadeUp' = MadeUp
  BY DEF TTL, MadeUp
<1>3. since \in 1..Now /\ since \in 1..Now' /\ at \in since..Now'
  BY <1>1 DEF ToldAs
<1>4. world'[since] = world[since]
  BY <1>3
<1>5. Real(world[since])' = Real(world[since])
  BY <1>4 DEF Real
<1> QED
  BY <1>2, <1>3, <1>4, <1>5 DEF ToldAs
LEMMA Positive == ViewTyped => TTL \in Nat \ {0}
BY ViewAssumption DEF ViewTyped, TTL, Kinds

LEMMA ServedTold ==
    ASSUME ViewTyped, CachedTold
    PROVE  /\ DOMAIN Served = {"value", "madeUp", "at", "since"} /\ Served.at = Now
           /\ ToldAs(Served.value, Served.madeUp, Served.at, Served.since)
           /\ ~Kept => Served.since = Now
<1>1. Now \in Nat /\ Now # 0 /\ There = world[Now] /\ Now \in 1..Now
  BY DEF ViewTyped, Now, There
<1>2. CASE Kept
  <2>1. Served = [cached EXCEPT !.at = Now]
    BY <1>2 DEF Served
  <2>2. /\ DOMAIN Served = {"value", "madeUp", "at", "since"} /\ Served.at = Now
        /\ Served.value = cached.value /\ Served.madeUp = cached.madeUp /\ Served.since = cached.since
    BY <2>1 DEF CachedTold
  <2>3. cached.at # 0 /\ Now - cached.at < TTL
    BY <1>2 DEF Kept
  <2>4. ToldAs(cached.value, cached.madeUp, cached.at, cached.since) /\ cached.at = cached.since
        /\ (cached.madeUp => shows \notin OfMetrics)
    BY <2>3 DEF CachedTold
  <2>5. ToldAs(cached.value, cached.madeUp, Now, cached.since)
    BY <1>1, <2>3, <2>4 DEF ToldAs
  <2> QED
    BY <1>2, <2>2, <2>5
<1>3. ASSUME ~Kept
      PROVE  /\ DOMAIN Served = {"value", "madeUp", "at", "since"} /\ Served.at = Now /\ Served.since = Now
             /\ ToldAs(Served.value, Served.madeUp, Now, Now)
  <2>1. Served = Fetched
    BY <1>3 DEF Served
  <2>2. Now - Now < TTL
    BY <1>1, Positive
  <2>3. ASSUME NEW value, NEW madeUp \in BOOLEAN, Served = Reply(value, madeUp)
        PROVE  /\ DOMAIN Served = {"value", "madeUp", "at", "since"} /\ Served.at = Now /\ Served.since = Now
               /\ Served.value = value /\ Served.madeUp = madeUp
    BY <2>3 DEF Reply
  <2>4. CASE There.up
    <3>1. Served = Reply(Real(There), FALSE)
      BY <2>1, <2>4 DEF Fetched
    <3>2. ToldAs(Real(There), FALSE, Now, Now)
      BY <1>1, <2>2, <2>4 DEF ToldAs
    <3> QED
      BY <2>3, <3>1, <3>2
  <2>5. CASE ~There.up /\ shows = "series"
    <3>1. Served = Reply({"error"}, FALSE)
      BY <2>1, <2>5 DEF Fetched
    <3>2. ToldAs({"error"}, FALSE, Now, Now)
      BY <1>1, <2>2, <2>5 DEF ToldAs
    <3> QED
      BY <2>3, <3>1, <3>2
  <2>6. CASE ~There.up /\ shows # "series"
    <3>1. Served = Reply(MadeUp, TRUE)
      BY <2>1, <2>6 DEF Fetched
    <3>2. ToldAs(MadeUp, TRUE, Now, Now)
      BY <1>1, <2>2, <2>6 DEF ToldAs
    <3> QED
      BY <2>3, <3>1, <3>2
  <2> QED
    BY <2>4, <2>5, <2>6
<1> QED
  BY <1>2, <1>3

LEMMA KeptTold ==
    ASSUME ViewTyped, CachedTold, UNCHANGED <<shows, world>>, cached' = Keep(Served)
    PROVE  CachedTold'
<1>2. ASSUME NEW value, NEW madeUp, NEW at, NEW since, ToldAs(value, madeUp, at, since)
      PROVE  ToldAs(value, madeUp, at, since)'
  <2>1. ViewTyped' /\ Now' = Now /\ Now \in Nat /\ Now <= Now'
    BY DEF ViewTyped, Now
  <2> QED
    BY <1>2, <2>1, ToldStays
<1>3. CASE cached' = cached
  BY <1>2, <1>3 DEF CachedTold, OfMetrics
<1>4. CASE cached' # cached
  <2>1. ~Kept /\ cached' = Served /\ (Served.madeUp => shows \notin OfMetrics)
    BY <1>4 DEF Keep
  <2>2. Now \in Nat
    BY DEF ViewTyped, Now
  <2> QED
    BY <1>2, <2>1, <2>2, ServedTold DEF CachedTold, OfMetrics
<1> QED
  BY <1>3, <1>4
LEMMA ViewStep == ViewInv /\ ViewNext => ViewInv'
<1> SUFFICES ASSUME ViewInv, ViewNext
             PROVE  ViewInv'
  OBVIOUS
<1>1. ViewTyped /\ CachedTold /\ ShownTold /\ Now \in Nat
  BY DEF ViewInv, ViewTyped, Now
<1>2. CASE Changes
  <2>1. \E w \in Worlds : Becomes(w)
    <3>1. There \in Worlds
      BY <1>1 DEF ViewTyped, There, Now
    <3>2. CASE \E up \in BOOLEAN : Becomes([There EXCEPT !.up = up])
      <4> PICK up \in BOOLEAN : Becomes([There EXCEPT !.up = up])
        BY <3>2
      <4>1. [There EXCEPT !.up = up] \in Worlds
        BY <3>1 DEF Worlds
      <4> QED
        BY <4>1
    <3>3. CASE \E ready \in BOOLEAN : Becomes([There EXCEPT !.ready = ready])
      <4> PICK ready \in BOOLEAN : Becomes([There EXCEPT !.ready = ready])
        BY <3>3
      <4>1. [There EXCEPT !.ready = ready] \in Worlds
        BY <3>1 DEF Worlds
      <4> QED
        BY <4>1
    <3>4. CASE \E p \in Pods, phase \in Phases : Becomes([There EXCEPT !.pods[p] = phase])
      <4> PICK p \in Pods, phase \in Phases : Becomes([There EXCEPT !.pods[p] = phase])
        BY <3>4
      <4>1. [There EXCEPT !.pods[p] = phase] \in Worlds
        BY <3>1 DEF Worlds
      <4> QED
        BY <4>1
    <3>5. CASE \E l \in Loads : Becomes([There EXCEPT !.load = l])
      <4> PICK l \in Loads : Becomes([There EXCEPT !.load = l])
        BY <3>5
      <4>1. [There EXCEPT !.load = l] \in Worlds
        BY <3>1 DEF Worlds
      <4> QED
        BY <4>1
    <3> QED
      BY <1>2, <3>2, <3>3, <3>4, <3>5 DEF Changes
  <2>2. /\ world' \in Seq(Worlds) /\ Now' = Now + 1 /\ \A t \in 1..Now : world'[t] = world[t]
    BY <1>1, <2>1 DEF ViewTyped, Now, Becomes
  <2>3. UNCHANGED <<shows, cached, shown>>
    BY <1>2 DEF Changes
  <2>4. ViewTyped' /\ Now <= Now'
    BY <1>1, <2>2, <2>3 DEF ViewTyped
  <2>5. \A value, madeUp, at, since : ToldAs(value, madeUp, at, since) => ToldAs(value, madeUp, at, since)'
    BY <1>1, <2>2, <2>3, <2>4, ToldStays
  <2>6. CachedTold'
    BY <1>1, <2>3, <2>5 DEF CachedTold, OfMetrics
  <2>7. ShownTold'
    BY <1>1, <2>3, <2>5 DEF ShownTold, Page
  <2> QED
    BY <2>4, <2>6, <2>7 DEF ViewInv
<1>3. ASSUME UNCHANGED <<shows, world>>, cached' = Keep(Served),
             \/ shows # "pods" /\ shown' = <<Served>>
             \/ shows = "pods" /\ shown' = Append(shown, [Served EXCEPT !.value = Page(@, "Running", Len(shown))])
      PROVE  ViewInv'
  <2>1. ViewTyped' /\ Now' = Now
    BY <1>1, <1>3 DEF ViewTyped, Now
  <2>2. CachedTold'
    BY <1>1, <1>3, KeptTold
  <2>3. \A value, madeUp, at, since : ToldAs(value, madeUp, at, since) => ToldAs(value, madeUp, at, since)'
    BY <1>1, <1>3, <2>1, ToldStays
  <2>4. PICK r : /\ r = Served /\ DOMAIN r = {"value", "madeUp", "at", "since"}
                 /\ ToldAs(r.value, r.madeUp, r.at, r.since)'
    BY <1>1, <2>3, ServedTold
  <2>5. ASSUME NEW x, NEW value, ToldAs(value, x.madeUp, x.at, x.since)', NEW i,
               x.value = IF shows = "pods" THEN Page(value, "Running", i - 1) ELSE value
        PROVE  \E v : /\ ToldAs(v, x.madeUp, x.at, x.since)'
                     /\ x.value = IF shows' = "pods" THEN Page(v, "Running", i - 1) ELSE v
    BY <1>3, <2>5
  <2>6. CASE shows # "pods" /\ shown' = <<Served>>
    <3>1. shown' \in Seq({r}) /\ DOMAIN shown' = {1} /\ shown'[1] = r
      BY <2>4, <2>6
    <3>2. ShownTold'
      BY <2>4, <2>5, <2>6, <3>1 DEF ShownTold
    <3> QED
      BY <2>1, <2>2, <3>2 DEF ViewInv
  <2>7. CASE shows = "pods" /\ shown' = Append(shown, [Served EXCEPT !.value = Page(@, "Running", Len(shown))])
    <3> PICK x : x = [r EXCEPT !.value = Page(r.value, "Running", Len(shown))]
      OBVIOUS
    <3>1. x.value = Page(r.value, "Running", Len(shown)) /\ x.madeUp = r.madeUp /\ x.at = r.at /\ x.since = r.since
      BY <2>4
    <3>2. shown' = Append(shown, x)
      BY <2>4, <2>7
    <3>3. PICK S : shown \in Seq(S)
      BY <1>1 DEF ShownTold
    <3>4. /\ shown' \in Seq(S \cup {x}) /\ Len(shown) \in Nat
          /\ DOMAIN shown = 1..Len(shown) /\ DOMAIN shown' = 1..(Len(shown) + 1)
          /\ shown'[Len(shown) + 1] = x /\ \A i \in 1..Len(shown) : shown'[i] = shown[i]
      <4>1. shown \in Seq(S \cup {x}) /\ x \in S \cup {x}
        BY <3>3
      <4> QED
        BY <3>2, <4>1
    <3>5. ASSUME NEW i \in 1..Len(shown), NEW y, y = shown[i]
          PROVE  \E v : /\ ToldAs(v, y.madeUp, y.at, y.since)'
                       /\ y.value = IF shows' = "pods" THEN Page(v, "Running", i - 1) ELSE v
      <4>1. PICK value : /\ ToldAs(value, y.madeUp, y.at, y.since)
                         /\ y.value = IF shows = "pods" THEN Page(value, "Running", i - 1) ELSE value
        BY <1>1, <3>4, <3>5 DEF ShownTold
      <4> QED
        BY <2>3, <2>5, <4>1
    <3>6. ASSUME NEW i, i = Len(shown) + 1
          PROVE  \E v : /\ ToldAs(v, x.madeUp, x.at, x.since)'
                       /\ x.value = IF shows' = "pods" THEN Page(v, "Running", i - 1) ELSE v
      <4>1. i - 1 = Len(shown)
        BY <3>4, <3>6
      <4> QED
        BY <1>3, <2>4, <2>7, <3>1, <4>1
    <3>7. ShownTold'
      <4>1. \A i \in DOMAIN shown' : i \in 1..Len(shown) \/ i = Len(shown) + 1
        BY <3>4
      <4>2. \E T : shown' \in Seq(T)
        BY <3>4
      <4>3. ASSUME NEW i \in DOMAIN shown', NEW y, y = shown'[i]
            PROVE  \E v : /\ ToldAs(v, y.madeUp, y.at, y.since)'
                         /\ y.value = IF shows' = "pods" THEN Page(v, "Running", i - 1) ELSE v
        BY <3>4, <3>5, <3>6, <4>1, <4>3
      <4> QED
        BY <4>2, <4>3 DEF ShownTold
    <3> QED
      BY <2>1, <2>2, <3>7 DEF ViewInv
  <2> QED
    BY <1>3, <2>6, <2>7
<1>4. CASE Show
  BY <1>3, <1>4 DEF Show
<1>5. CASE ShowPage
  BY <1>3, <1>5 DEF ShowPage
<1> QED
  BY <1>2, <1>4, <1>5 DEF ViewNext

LEMMA ViewAlways == ViewSpec => []ViewInv
<1>1. ViewInv /\ UNCHANGED viewVars => ViewInv'
  <2> SUFFICES ASSUME ViewInv, UNCHANGED viewVars
               PROVE  ViewInv'
    OBVIOUS
  <2>1. UNCHANGED <<shows, world, cached, shown>>
    BY DEF viewVars
  <2>2. ViewTyped /\ ViewTyped' /\ Now <= Now'
    BY <2>1 DEF ViewInv, ViewTyped, Now
  <2>3. \A value, madeUp, at, since : ToldAs(value, madeUp, at, since) => ToldAs(value, madeUp, at, since)'
    BY <2>1, <2>2, ToldStays
  <2>4. CachedTold'
    BY <2>1, <2>3 DEF ViewInv, CachedTold, OfMetrics
  <2>5. ShownTold'
    BY <2>1, <2>3 DEF ViewInv, ShownTold, Page
  <2> QED
    BY <2>2, <2>4, <2>5 DEF ViewInv
<1> QED
  BY <1>1, ViewStart, ViewStep, PTL DEF ViewSpec
LEMMA ViewProperties ==
    ASSUME ViewInv
    PROVE  ShownWasSo /\ MadeUpHasACause /\ HealthyHasACause /\ PagesAreApart
<1>1. /\ shows \in Kinds /\ world \in Seq(Worlds) /\ Now \in Nat
      /\ \A t \in 1..Now : world[t] \in Worlds
  BY DEF ViewInv, ViewTyped, Now
<1>2. PICK S : shown \in Seq(S)
  BY DEF ViewInv, ShownTold
<1>3. ASSUME NEW i \in DOMAIN shown
      PROVE  \E value : /\ ToldAs(value, shown[i].madeUp, shown[i].at, shown[i].since)
                        /\ shown[i].value = IF shows = "pods" THEN Page(value, "Running", i - 1) ELSE value
  BY DEF ViewInv, ShownTold
<1>4. ASSUME NEW value, NEW madeUp, NEW at, NEW since, ToldAs(value, madeUp, at, since)
      PROVE  since \in 1..at /\ at - since < TTL /\ at \in Nat
  BY <1>1, <1>4 DEF ToldAs
<1>5. ShownWasSo
  <2> SUFFICES ASSUME shows # "pods", NEW i \in DOMAIN shown, ~shown[i].madeUp
               PROVE  \E t \in Recent(shown[i]) :
                        shown[i].value = IF world[t].up THEN Real(world[t]) ELSE {"error"}
    BY DEF ShownWasSo
  <2>1. ToldAs(shown[i].value, shown[i].madeUp, shown[i].at, shown[i].since)
    BY <1>3
  <2>2. shown[i].since \in Recent(shown[i])
    BY <1>4, <2>1 DEF Recent
  <2> QED
    BY <2>1, <2>2 DEF ToldAs
<1>6. MadeUpHasACause
  <2> SUFFICES ASSUME NEW i \in DOMAIN shown, shown[i].madeUp
               PROVE  \/ ~world[shown[i].at].up
                      \/ shows \notin OfMetrics /\ \E t \in Recent(shown[i]) : ~world[t].up
    BY DEF MadeUpHasACause
  <2>1. PICK value : ToldAs(value, shown[i].madeUp, shown[i].at, shown[i].since)
    BY <1>3
  <2>2. shown[i].since \in Recent(shown[i])
    BY <1>4, <2>1 DEF Recent
  <2> QED
    BY <2>1, <2>2 DEF ToldAs
<1>7. HealthyHasACause
  <2> SUFFICES ASSUME shows # "pods", NEW i \in DOMAIN shown, shown[i].value = {"healthy"}
               PROVE  \E t \in Recent(shown[i]) :
                        \/ ~world[t].up \/ shows = "services"
                        \/ shows = "health" /\ world[t].ready /\ \A p \in Pods : world[t].pods[p] # "Failed"
                        \/ shows = "service" /\ world[t].load \in {"low", "missing"}
    BY DEF HealthyHasACause
  <2>1. ToldAs({"healthy"}, shown[i].madeUp, shown[i].at, shown[i].since)
    BY <1>3
  <2> DEFINE t == shown[i].since
  <2>2. t \in Recent(shown[i]) /\ t \in 1..Now
    BY <1>4, <2>1 DEF Recent, ToldAs
  <2>3. world[t] \in Worlds
    BY <1>1, <2>2
  <2>4. CASE shown[i].madeUp \/ ~world[t].up
    BY <2>1, <2>2, <2>4 DEF ToldAs
  <2>5. CASE ~shown[i].madeUp /\ world[t].up
    <3>1. Real(world[t]) = {"healthy"}
      BY <2>1, <2>5 DEF ToldAs
    <3>2. CASE shows = "health"
      <4>1. ClusterStatus(world[t]) = "healthy"
        BY <3>1, <3>2 DEF Real, RealHealth
      <4>2. world[t].ready /\ InPhase(world[t], "Failed") = {}
        BY <4>1 DEF ClusterStatus
      <4> QED
        BY <2>2, <3>2, <4>2 DEF InPhase
    <3>3. CASE shows = "service"
      <4>1. ServiceStatus(Extract(world[t].load)) = "healthy"
        BY <3>1, <3>3 DEF Real, RealService
      <4>2. world[t].load \in {"low", "missing"}
        BY <2>3, <4>1 DEF ServiceStatus, Extract, Worlds, Loads
      <4> QED
        BY <2>2, <3>3, <4>2
    <3>4. CASE shows = "services"
      BY <2>2, <3>4
    <3>5. CASE shows = "nodes"
      BY <3>1, <3>5 DEF Real, RealNodes
    <3>6. CASE shows \in {"sparkline", "series"}
      BY <2>3, <3>1, <3>6 DEF Real, Points, Worlds, Loads
    <3> QED
      BY <1>1, <3>2, <3>3, <3>4, <3>5, <3>6 DEF Kinds
  <2> QED
    BY <2>1, <2>4, <2>5 DEF ToldAs
<1>8. PagesAreApart
  <2> SUFFICES ASSUME shows = "pods", NEW i \in DOMAIN shown, NEW j \in DOMAIN shown, i < j,
                      shown[i].since = shown[j].since, shown[i].madeUp = shown[j].madeUp
               PROVE  /\ shown[i].value \cap shown[j].value = {}
                      /\ shown[i].value = {} => shown[j].value = {}
    BY DEF PagesAreApart
  <2>1. PICK v : ToldAs(v, shown[i].madeUp, shown[i].at, shown[i].since) /\ shown[i].value = Page(v, "Running", i - 1)
    BY <1>3
  <2>2. PICK u : ToldAs(u, shown[j].madeUp, shown[j].at, shown[j].since) /\ shown[j].value = Page(u, "Running", j - 1)
    BY <1>3
  <2>3. v = u /\ v = IF shown[i].madeUp THEN MadeUp ELSE Real(world[shown[i].since])
    BY <2>1, <2>2 DEF ToldAs
  <2>4. Numbered(v)
    BY <2>3, PodsNumbered DEF Real, MadeUp
  <2>5. i - 1 \in Nat /\ j - 1 \in Nat /\ i - 1 < j - 1
    BY <1>2
  <2> QED
    BY <2>1, <2>2, <2>3, <2>4, <2>5, PagesDiffer
<1> QED
  BY <1>5, <1>6, <1>7, <1>8

\* What probes, scrapes and dashboards are told was so, or the cause is known: a checked value is
\* that of Redis, a view of the cluster is of a tick within its time to live, its pages share no
\* pod, and a listing of agents has all that were there throughout.
THEOREM ViewsAlwaysTrue == HealthSpec /\ TelemetrySpec /\ ViewSpec => []ViewsAreTrue
<1>1. HealthInv /\ TelemetryInv /\ ViewInv => ViewsAreTrue
  <2>1. HealthInv => CheckedIsTold /\ SilenceHasACause /\ OrchestratorIsSplit
    BY DEF HealthInv
  <2>2. TelemetryInv => ListedThroughout /\ ListedWasThere /\ FewerHasACause
    BY DEF TelemetryInv, ThroughoutIsRead, ListedThroughout
  <2> QED
    BY <2>1, <2>2, ViewProperties DEF ViewsAreTrue
<1> QED
  BY <1>1, HealthAlways, TelemetryAlways, ViewAlways, PTL

-----------------------------------------------------------------------------
(* Keys and configurations of models.  A call that holds what it read of a  *)
(* key read its verdict; of a key that is gone nobody holds anything,       *)
(* unless one that did has written it again.                                *)

CredSpec == CredInit /\ [][CredNext]_credVars

OneCall == [at : {"new", "held", "done"}, key : Keys \cup {NoKey}, conf : Configs,
            does : {"none", "retrieve", "test", "discover", "update", "client"},
            read : {"absent", "valid", "invalid"}]
OfKey(d) == call[d].at = "held" /\ call[d].does \in {"retrieve", "test", "discover"}

CredTyped ==
    /\ CredTypeOK /\ call \in [ConfigCalls -> OneCall] /\ accepts \in [Keys -> BOOLEAN]
    /\ deletedKeys \subseteq Keys /\ rewritten \subseteq Keys /\ judged \in [Keys -> {"valid", "invalid"}]
    /\ updated \in Configs
HeldWasThere == \A d \in ConfigCalls : OfKey(d) =>
    call[d].key \in Keys /\ call[d].read # "absent"
    /\ (record[call[d].key] # "absent" \/ call[d].key \in deletedKeys)
GoneIsNotHeld == \A k \in deletedKeys \ rewritten : Holding(k) = {}
HeldAsJudged == \A k \in Keys \ rewritten : \A d \in Holding(k) : call[d].read = judged[k]
UntestedIsValid == \A k \in Keys \ deletedKeys : record[k] = "absent" => judged[k] = "valid"
HeldIsConfig == overlapped \/ \A d \in Configuring : call[d].conf = config

CredInv == CredTyped /\ HeldWasThere /\ GoneIsNotHeld /\ HeldAsJudged /\ UntestedIsValid /\ HeldIsConfig
    /\ DeletedIsGone /\ ValidityWasJudged /\ UpdatesAreKept /\ ClientHadKey /\ ModelsWereAccepted

LEMMA CredStart == CredInit => CredInv
  <1> SUFFICES ASSUME CredInit PROVE CredInv
    OBVIOUS
  <1>1. CredTyped
    BY SMT DEF CredInit, CredTyped, CredTypeOK, OneCall, Idle, NoConfig, NoKey, Configs
  <1>2. HeldWasThere /\ GoneIsNotHeld /\ HeldAsJudged /\ UntestedIsValid /\ HeldIsConfig
    BY SMT DEF CredInit, HeldWasThere, GoneIsNotHeld, HeldAsJudged, UntestedIsValid, HeldIsConfig, OfKey, Holding,
      Configuring, Idle
  <1> QED
    BY <1>1, <1>2, SMT DEF CredInit, CredInv, DeletedIsGone, ValidityWasJudged, UpdatesAreKept, ClientHadKey, ModelsWereAccepted

LEMMA CredStep == CredInv /\ CredNext => CredInv'
  <1> SUFFICES ASSUME CredInv, CredNext PROVE CredInv'
    OBVIOUS
  <1> USE DEF CredInv
  <1>1. ASSUME NEW k \in Keys, AddKey(k) PROVE CredInv'
    <2>1. /\ record' = [record EXCEPT ![k] = "valid"] /\ record[k] = "absent" /\ k \notin deletedKeys
          /\ UNCHANGED <<modelsOf, client, call, accepts, deletedKeys, rewritten, judged, config, updated, overlapped>>
      BY <1>1 DEF AddKey, credHistory, configVars
    <2>2. CredTyped' /\ HeldWasThere'
      BY <2>1 DEF CredTyped, CredTypeOK, HeldWasThere, OfKey
    <2>3. GoneIsNotHeld' /\ HeldAsJudged' /\ UntestedIsValid' /\ HeldIsConfig'
      BY <2>1 DEF CredTyped, CredTypeOK, GoneIsNotHeld, HeldAsJudged, UntestedIsValid, HeldIsConfig, Holding, Configuring
    <2> QED
      BY <2>1, <2>2, <2>3 DEF CredTyped, CredTypeOK, UntestedIsValid, DeletedIsGone, ValidityWasJudged, UpdatesAreKept, ClientHadKey, ModelsWereAccepted
  <1>2. ASSUME NEW k \in Keys, DeleteKey(k) PROVE CredInv'
    <2>1. /\ record' = [record EXCEPT ![k] = "absent"] /\ deletedKeys' = deletedKeys \cup {k}
          /\ rewritten' = IF Holding(k) # {} THEN rewritten \cup {k} ELSE rewritten
          /\ UNCHANGED <<modelsOf, client, call, accepts, judged, config, updated, overlapped>>
      BY <1>2 DEF DeleteKey, configVars
    <2>2. CredTyped' /\ HeldWasThere'
      BY <2>1 DEF CredTyped, CredTypeOK, HeldWasThere, OfKey
    <2>3. \A j : Holding(j)' = Holding(j)
      BY <2>1 DEF Holding
    <2>4. GoneIsNotHeld' /\ HeldAsJudged' /\ UntestedIsValid'
      BY <2>1, <2>3 DEF CredTyped, CredTypeOK, GoneIsNotHeld, HeldAsJudged, UntestedIsValid
    <2>5. HeldIsConfig'
      BY <2>1 DEF HeldIsConfig, Configuring
    <2> QED
      BY <2>1, <2>2, <2>4, <2>5 DEF CredTyped, CredTypeOK, DeletedIsGone, ValidityWasJudged, UpdatesAreKept, ClientHadKey, ModelsWereAccepted
  <1>3. ASSUME NEW k \in Keys, ModelsExpire(k) PROVE CredInv'
    <2>1. /\ modelsOf' = [modelsOf EXCEPT ![k] = "none"]
          /\ UNCHANGED <<record, client, call, accepts, deletedKeys, rewritten, judged, config, updated, overlapped>>
      BY <1>3 DEF ModelsExpire, credHistory, configVars
    <2>2. CredTyped' /\ HeldWasThere'
      BY <2>1 DEF CredTyped, CredTypeOK, HeldWasThere, OfKey
    <2>3. GoneIsNotHeld' /\ HeldAsJudged' /\ UntestedIsValid' /\ HeldIsConfig'
      BY <2>1 DEF GoneIsNotHeld, HeldAsJudged, UntestedIsValid, HeldIsConfig, Holding, Configuring
    <2> QED
      BY <2>1, <2>2, <2>3 DEF CredTyped, CredTypeOK, DeletedIsGone, ValidityWasJudged, UpdatesAreKept, ClientHadKey, ModelsWereAccepted
  <1>4. ASSUME Restarts PROVE CredInv'
    <2>1. /\ client' = NoConfig
          /\ UNCHANGED <<record, modelsOf, call, accepts, deletedKeys, rewritten, judged, config, updated, overlapped>>
      BY <1>4 DEF Restarts, credHistory, configVars
    <2>2. CredTyped' /\ HeldWasThere'
      BY <2>1 DEF CredTyped, CredTypeOK, HeldWasThere, OfKey, Configs, NoConfig
    <2>3. GoneIsNotHeld' /\ HeldAsJudged' /\ UntestedIsValid' /\ HeldIsConfig'
      BY <2>1 DEF GoneIsNotHeld, HeldAsJudged, UntestedIsValid, HeldIsConfig, Holding, Configuring
    <2> QED
      BY <2>1, <2>2, <2>3 DEF CredTyped, CredTypeOK, DeletedIsGone, ValidityWasJudged, UpdatesAreKept, ClientHadKey, ModelsWereAccepted
  <1>7. ASSUME NEW c \in ConfigCalls, Done(c) PROVE
          /\ call'[c].at = "done" /\ call'[c] \in OneCall /\ call' = [call EXCEPT ![c] = call'[c]]
          /\ call' \in [ConfigCalls -> OneCall]
          /\ \A j : Holding(j)' = Holding(j) \ {c}
          /\ Configuring' = Configuring \ {c}
          /\ \A d \in ConfigCalls : d # c => call'[d] = call[d] /\ (OfKey(d)' <=> OfKey(d))
          /\ ~OfKey(c)'
    <2>1. call'[c].at = "done" /\ call'[c] \in OneCall /\ call' = [call EXCEPT ![c] = call'[c]]
      BY <1>7 DEF Done, CredTyped, OneCall
    <2> QED
      BY <2>1 DEF CredTyped, Holding, Configuring, OfKey
  <1>5. ASSUME NEW c \in ConfigCalls, NEW k \in Keys, NEW what \in {"retrieve", "test", "discover"}, ReadKey(c, k, what)
        PROVE CredInv'
    <2>1. /\ UNCHANGED <<record, modelsOf, client, accepts, deletedKeys, rewritten, judged, config, updated, overlapped>>
          /\ Find(c, k, what)
      BY <1>5 DEF ReadKey, credHistory, configVars
    <2>2. /\ call'[c] \in OneCall /\ call' = [call EXCEPT ![c] = call'[c]]
          /\ call'[c].does \in {"retrieve", "test", "discover"} \/ call'[c].at = "done"
          /\ OfKey(c)' => call'[c].key = k /\ record[k] # "absent" /\ call'[c].read = record[k]
      <3>1. CASE Done(c)
        BY <1>7, <3>1 DEF OfKey
      <3>2. CASE record[k] # "absent"
                 /\ call' = [call EXCEPT ![c] = [Idle EXCEPT !.at = "held", !.does = what, !.key = k, !.read = record[k]]]
        <4>1. call'[c] = [at |-> "held", does |-> what, key |-> k, read |-> record[k], conf |-> NoConfig]
          BY <3>2 DEF Idle, CredTyped
        <4>2. call'[c] \in OneCall
          BY <4>1, <3>2 DEF OneCall, CredTyped, CredTypeOK, NoConfig, Configs
        <4> QED
          BY <4>1, <4>2, <3>2 DEF OfKey, CredTyped
      <3> QED
        BY <2>1, <3>1, <3>2 DEF Find
    <2>3. /\ call'[c].does \in {"retrieve", "test", "discover"} \/ call'[c].at = "done"
          /\ OfKey(c)' => call'[c].key = k /\ record[k] # "absent" /\ call'[c].read = record[k]
      BY <2>2
    <2>4. CredTyped' /\ HeldWasThere'
      BY <2>1, <2>2, <2>3 DEF CredTyped, CredTypeOK, HeldWasThere, OfKey
    <2>5. \A j : Holding(j)' \subseteq Holding(j) \cup {c} /\ (c \in Holding(j)' => OfKey(c)' /\ call'[c].key = j)
      BY <2>2 DEF Holding, CredTyped, OfKey
    <2>6. GoneIsNotHeld'
      BY <2>1, <2>3, <2>5 DEF GoneIsNotHeld, DeletedIsGone
    <2>7. HeldAsJudged' /\ UntestedIsValid'
      <3>1. \A d \in ConfigCalls \ {c} : call'[d] = call[d]
        BY <2>2 DEF CredTyped
      <3>2. ASSUME NEW j \in Keys \ rewritten, NEW d \in Holding(j)' PROVE call'[d].read = judged[j]
        <4>1. CASE d = c
          BY <4>1, <3>2, <2>3, <2>5 DEF ValidityWasJudged
        <4>2. CASE d # c
          BY <4>2, <3>1, <3>2, <2>5 DEF HeldAsJudged, Holding
        <4> QED
          BY <4>1, <4>2
      <3> QED
        BY <2>1, <3>2 DEF HeldAsJudged, UntestedIsValid
    <2>8. HeldIsConfig'
      <3>1. Configuring' \subseteq Configuring /\ c \notin Configuring'
        BY <2>2, <2>3 DEF Configuring, CredTyped
      <3> QED
        BY <2>1, <2>2, <3>1 DEF HeldIsConfig, CredTyped, Configuring
    <2> QED
      BY <2>1, <2>4, <2>6, <2>7, <2>8 DEF CredTyped, CredTypeOK, DeletedIsGone, ValidityWasJudged, UpdatesAreKept, ClientHadKey, ModelsWereAccepted
  <1>6. ASSUME NEW c \in ConfigCalls, NEW what \in {"update", "client"}, ReadConfig(c, what) PROVE CredInv'
    <2>1. /\ UNCHANGED <<record, modelsOf, client, accepts, deletedKeys, rewritten, judged, config, updated, overlapped>>
          /\ call' = [call EXCEPT ![c] = [Idle EXCEPT !.at = "held", !.does = what, !.conf = config]]
      BY <1>6 DEF ReadConfig, credHistory, configVars
    <2>2. call'[c] \in OneCall /\ call' = [call EXCEPT ![c] = call'[c]] /\ call'[c].does = what /\ call'[c].conf = config
      BY <2>1 DEF CredTyped, CredTypeOK, OneCall, Idle, NoConfig, NoKey, Configs
    <2>4. CredTyped' /\ HeldWasThere'
      BY <2>1, <2>2 DEF CredTyped, CredTypeOK, HeldWasThere, OfKey
    <2>5. \A j : Holding(j)' \subseteq Holding(j) /\ c \notin Holding(j)'
      BY <2>2 DEF Holding, CredTyped
    <2>6. GoneIsNotHeld' /\ UntestedIsValid'
      BY <2>1, <2>5 DEF GoneIsNotHeld, UntestedIsValid
    <2>7. HeldAsJudged'
      <3>1. \A d \in ConfigCalls \ {c} : call'[d] = call[d]
        BY <2>2 DEF CredTyped
      <3> QED
        BY <2>1, <3>1, <2>5 DEF HeldAsJudged, Holding
    <2>8. HeldIsConfig'
      BY <2>1, <2>2 DEF HeldIsConfig, CredTyped, Configuring
    <2> QED
      BY <2>1, <2>4, <2>6, <2>7, <2>8 DEF CredTyped, CredTypeOK, DeletedIsGone, ValidityWasJudged, UpdatesAreKept, ClientHadKey, ModelsWereAccepted
  <1>8. ASSUME NEW c \in ConfigCalls, TouchKey(c) PROVE CredInv'
    <2> DEFINE k == call[c].key
    <2>1. /\ record' = [record EXCEPT ![k] = call[c].read] /\ Done(c) /\ c \in Holding(k) /\ OfKey(c)
          /\ UNCHANGED <<modelsOf, client, accepts, deletedKeys, rewritten, judged, config, updated, overlapped>>
      BY <1>8 DEF TouchKey, credHistory, configVars, Holding, OfKey
    <2>2. k \in Keys /\ call[c].read \in {"valid", "invalid"}
      BY <2>1 DEF HeldWasThere, CredTyped, OneCall
    <2> HIDE DEF k
    <2>3. CredTyped' /\ HeldWasThere'
      BY <1>7, <2>1, <2>2 DEF CredTyped, CredTypeOK, HeldWasThere
    <2>4. GoneIsNotHeld' /\ HeldAsJudged' /\ UntestedIsValid' /\ HeldIsConfig'
      BY <1>7, <2>1, <2>2 DEF CredTyped, CredTypeOK, GoneIsNotHeld, HeldAsJudged, UntestedIsValid, HeldIsConfig, Holding, Configuring
    <2>5. k \in deletedKeys => k \in rewritten
      BY <2>1 DEF GoneIsNotHeld
    <2>6. k \notin rewritten => call[c].read = judged[k]
      BY <2>1, <2>2 DEF HeldAsJudged
    <2> QED
      BY <2>1, <2>2, <2>3, <2>4, <2>5, <2>6 DEF CredTyped, CredTypeOK, DeletedIsGone, ValidityWasJudged, UpdatesAreKept, ClientHadKey, ModelsWereAccepted
  <1>9. ASSUME NEW c \in ConfigCalls, TestKey(c) PROVE CredInv'
    <2>0. PICK k : k = call[c].key
      OBVIOUS
    <2>1. /\ Done(c) /\ c \in Holding(k) /\ OfKey(c)
          /\ rewritten' = IF Holding(k) # {c} THEN rewritten \cup {k} ELSE rewritten
          /\ UNCHANGED <<modelsOf, client, accepts, deletedKeys, config, updated, overlapped>>
      BY <1>9, <2>0 DEF TestKey, configVars, Holding, OfKey
    <2>2. PICK verdict \in {"valid", "invalid"} :
            record' = [record EXCEPT ![k] = verdict] /\ judged' = [judged EXCEPT ![k] = verdict]
      BY <1>9, <2>0 DEF TestKey, WriteVerdict
    <2>3. k \in Keys
      BY <2>0, <2>1 DEF HeldWasThere
    <2>4. CredTyped' /\ HeldWasThere'
      BY <1>7, <2>1, <2>2, <2>3 DEF CredTyped, CredTypeOK, HeldWasThere
    <2>5. k \in deletedKeys => k \in rewritten
      BY <2>1 DEF GoneIsNotHeld
    <2>6. GoneIsNotHeld' /\ UntestedIsValid' /\ HeldIsConfig'
      BY <1>7, <2>1, <2>2, <2>3, <2>5 DEF CredTyped, CredTypeOK, GoneIsNotHeld, UntestedIsValid, HeldIsConfig, Configuring
    <2>7. HeldAsJudged'
      <3>1. \A j \in Keys \ {k} : \A d \in Holding(j)' : d \in Holding(j) /\ call'[d].read = call[d].read
        BY <1>7, <2>1 DEF Holding
      <3>2. k \notin rewritten' => Holding(k)' = {}
        BY <1>7, <2>1, <2>3
      <3>3. rewritten \subseteq rewritten' /\ \A j \in Keys \ {k} : judged'[j] = judged[j]
        BY <2>1, <2>2 DEF CredTyped
      <3> QED
        BY <3>1, <3>2, <3>3 DEF HeldAsJudged
    <2> QED
      BY <2>1, <2>2, <2>3, <2>4, <2>5, <2>6, <2>7 DEF CredTyped, CredTypeOK, DeletedIsGone, ValidityWasJudged, UpdatesAreKept, ClientHadKey, ModelsWereAccepted
  <1>10. ASSUME NEW c \in ConfigCalls, Done(c), UNCHANGED <<record, deletedKeys, rewritten, judged>>
         PROVE HeldWasThere' /\ GoneIsNotHeld' /\ HeldAsJudged' /\ UntestedIsValid' /\ DeletedIsGone' /\ ValidityWasJudged'
    <2>1. HeldWasThere' /\ GoneIsNotHeld' /\ UntestedIsValid'
      BY <1>7, <1>10 DEF HeldWasThere, GoneIsNotHeld, UntestedIsValid
    <2>2. HeldAsJudged'
      <3>1. \A j : \A d \in Holding(j)' : d \in Holding(j) /\ call'[d] = call[d]
        BY <1>7, <1>10 DEF Holding
      <3> QED
        BY <3>1, <1>10 DEF HeldAsJudged
    <2> QED
      BY <2>1, <2>2, <1>10 DEF DeletedIsGone, ValidityWasJudged
  <1>11. ASSUME NEW c \in ConfigCalls, DiscoverModels(c) PROVE CredInv'
    <2> DEFINE k == call[c].key
    <2>1. /\ Done(c) /\ OfKey(c)
          /\ UNCHANGED <<record, client, accepts, deletedKeys, rewritten, judged, config, updated, overlapped>>
      BY <1>11 DEF DiscoverModels, credHistory, configVars, OfKey
    <2>2. PICK list \in Discovered(c) : modelsOf' = [modelsOf EXCEPT ![k] = list]
      BY <1>11 DEF DiscoverModels
    <2>3. k \in Keys /\ (record[k] # "absent" \/ k \in deletedKeys)
      BY <2>1 DEF HeldWasThere
    <2>4. list \in {"empty", "some"} /\ (list = "some" => accepts[k])
      BY <2>2 DEF Discovered
    <2> HIDE DEF k
    <2>5. CredTyped'
      BY <1>7, <2>1, <2>2, <2>3, <2>4 DEF CredTyped, CredTypeOK
    <2>6. HeldIsConfig'
      BY <1>7, <2>1 DEF HeldIsConfig, Configuring
    <2> QED
      BY <1>10, <2>1, <2>2, <2>3, <2>4, <2>5, <2>6 DEF CredTyped, CredTypeOK, UpdatesAreKept, ClientHadKey, ModelsWereAccepted
  <1>12. ASSUME NEW c \in ConfigCalls, GetClient(c) PROVE CredInv'
    <2>1. /\ Done(c)
          /\ client' = IF KeyFound(c) THEN call[c].conf ELSE client
          /\ UNCHANGED <<record, modelsOf, accepts, deletedKeys, rewritten, judged, config, updated, overlapped>>
      BY <1>12 DEF GetClient, credHistory, configVars
    <2>2. \/ client' = client
          \/ client' \in Configs /\ client'.key \in Keys /\ record[client'.key] # "absent"
      <3>1. CASE KeyFound(c)
        <4>1. client' = call[c].conf /\ call[c].conf \in Configs
          BY <3>1, <2>1 DEF CredTyped, OneCall
        <4> QED
          BY <3>1, <4>1 DEF KeyFound
      <3>2. CASE ~KeyFound(c)
        BY <3>2, <2>1
      <3> QED
        BY <3>1, <3>2
    <2>3. CredTyped'
      BY <1>7, <2>1, <2>2 DEF CredTyped, CredTypeOK
    <2>4. HeldIsConfig'
      BY <1>7, <2>1 DEF HeldIsConfig, Configuring
    <2> QED
      BY <1>10, <2>1, <2>2, <2>3, <2>4 DEF UpdatesAreKept, ClientHadKey, ModelsWereAccepted
  <1>13. ASSUME NEW c \in ConfigCalls, NEW conf \in Configs, ImportConfig(c, conf) PROVE CredInv'
    <2>1. /\ Done(c) /\ config' = conf /\ updated' = conf /\ overlapped' = (overlapped \/ Configuring # {})
          /\ UNCHANGED <<record, modelsOf, client, accepts, deletedKeys, rewritten, judged>>
      BY <1>13 DEF ImportConfig, credHistory
    <2>2. CredTyped'
      BY <1>7, <2>1 DEF CredTyped, CredTypeOK
    <2>3. HeldIsConfig' /\ UpdatesAreKept'
      BY <1>7, <2>1 DEF HeldIsConfig, UpdatesAreKept
    <2> QED
      BY <1>10, <2>1, <2>2, <2>3 DEF ClientHadKey, ModelsWereAccepted
  <1>14. ASSUME NEW c \in ConfigCalls, NEW key \in Keys \cup {"same"}, NEW model \in Models \cup {"same"},
                WriteConfig(c, key, model) PROVE CredInv'
    <2>1. /\ Done(c) /\ c \in Configuring
          /\ config' = Merged(call[c].conf, key, model) /\ updated' = Merged(updated, key, model)
          /\ overlapped' = (overlapped \/ Configuring # {c})
          /\ UNCHANGED <<record, modelsOf, client, accepts, deletedKeys, rewritten, judged>>
      BY <1>14 DEF WriteConfig, credHistory, Merged, Configuring
    <2>2. \A x \in Configs : Merged(x, key, model) \in Configs
      BY DEF Merged, Configs
    <2>3. CredTyped'
      BY <1>7, <2>1, <2>2 DEF CredTyped, CredTypeOK, OneCall
    <2>4. HeldIsConfig' /\ UpdatesAreKept'
      BY <1>7, <2>1 DEF HeldIsConfig, UpdatesAreKept
    <2> QED
      BY <1>10, <2>1, <2>3, <2>4 DEF ClientHadKey, ModelsWereAccepted
  <1> QED
    BY <1>1, <1>2, <1>3, <1>4, <1>5, <1>6, <1>8, <1>9, <1>11, <1>12, <1>13, <1>14 DEF CredNext

LEMMA CredAlways == CredSpec => []CredInv
<1>1. CredInv /\ UNCHANGED credVars => CredInv'
  BY DEF CredInv, CredTyped, CredTypeOK, HeldWasThere, OfKey, GoneIsNotHeld, HeldAsJudged, UntestedIsValid, HeldIsConfig,
    Holding, Configuring, DeletedIsGone, ValidityWasJudged, UpdatesAreKept, ClientHadKey, ModelsWereAccepted, credVars
<1> QED
  BY <1>1, CredStart, CredStep, PTL DEF CredSpec

-----------------------------------------------------------------------------
(* Credentials of integrations.  Between the asking and the writing of a   *)
(* test the verdict agrees with what the credential is; after it the        *)
(* record does, or a test that ran meanwhile has overwritten it.            *)

IntegrationSpec == CredentialInit /\ [][CredentialNext]_credentialVars

Networks == {"up", "down", "limited"}
OneUse == [at : {"new", "tested", "message", "retrieved", "posting", "done"}, valid : BOOLEAN,
           network : Networks, worked : BOOLEAN]

IntegrationTyped ==
    /\ secretKept \in [there : BOOLEAN, kind : CredentialKinds, formed : BOOLEAN, valid : BOOLEAN]
    /\ {working, removedOnce, heldThen, changedSince, overlapping} \subseteq BOOLEAN
    /\ network \in Networks /\ using \in [CredentialCalls -> OneUse]
    /\ lastTest \in [verdict : {"none", "valid", "invalid"}, network : Networks]
GoneUnlessHeld == removedOnce /\ ~heldThen => ~secretKept.there /\ \A d \in CredentialCalls : ~Holds(d)
NotStoredYet == ~secretKept.there /\ ~removedOnce =>
    secretKept.valid /\ lastTest.verdict = "none" /\ \A d \in CredentialCalls : ~Holds(d)
WorksIfFormed == working => secretKept.formed
TestedRight == \A d \in CredentialCalls : using[d].at = "tested" =>
    /\ working => using[d].worked
    /\ using[d].worked /\ IsKnown /\ using[d].network = "up" => using[d].valid
    /\ using[d].valid /\ IsAsked => using[d].worked
RetrievedIsKept == \A d \in CredentialCalls : using[d].at = "retrieved" =>
    overlapping \/ using[d].valid = secretKept.valid
ValidAsTested ==
    /\ ~secretKept.valid /\ working => ~IsKnown \/ lastTest.network # "up" \/ overlapping
    /\ secretKept.valid /\ ~working => lastTest.verdict = "none" \/ ~IsAsked \/ changedSince \/ overlapping

IntegrationInv == IntegrationTyped /\ GoneUnlessHeld /\ NotStoredYet /\ WorksIfFormed /\ TestedRight
    /\ RetrievedIsKept /\ ValidAsTested

LEMMA IntegrationStart == CredentialInit => IntegrationInv
  <1> SUFFICES ASSUME CredentialInit PROVE IntegrationInv
    OBVIOUS
  <1>1. /\ secretKept \in [there : BOOLEAN, kind : CredentialKinds, formed : BOOLEAN, valid : BOOLEAN]
        /\ ~secretKept.there /\ secretKept.valid /\ \A d \in CredentialCalls : using[d] = NoUse
        /\ using \in [CredentialCalls -> OneUse] /\ lastTest = NoTest
    BY DEF CredentialInit, OneUse, NoUse, Networks
  <1>2. /\ working \in BOOLEAN /\ removedOnce = FALSE /\ heldThen = FALSE /\ changedSince = FALSE
        /\ overlapping = FALSE /\ network \in Networks /\ (working => secretKept.formed)
    BY DEF CredentialInit, Networks
  <1>3. lastTest \in [verdict : {"none", "valid", "invalid"}, network : Networks] /\ lastTest.verdict = "none"
    BY <1>1 DEF NoTest, Networks
  <1>4. IntegrationTyped
    BY <1>1, <1>2, <1>3 DEF IntegrationTyped
  <1>5. \A d \in CredentialCalls : using[d].at = "new"
    BY <1>1 DEF NoUse
  <1>6. GoneUnlessHeld /\ NotStoredYet /\ WorksIfFormed /\ TestedRight /\ RetrievedIsKept
    BY <1>1, <1>2, <1>3, <1>5 DEF GoneUnlessHeld, NotStoredYet, WorksIfFormed, TestedRight, RetrievedIsKept, Holds
  <1> QED
    BY <1>1, <1>3, <1>4, <1>6 DEF IntegrationInv, ValidAsTested

\* A verdict is about what the credential is.
LEMMA VerdictIsRight ==
    ASSUME IntegrationTyped, WorksIfFormed, NEW net \in Networks
    PROVE  /\ Verdict(net) \in BOOLEAN
           /\ working /\ IsKnown /\ net = "up" => Verdict(net)
           /\ Verdict(net) /\ IsAsked => working
<1>1. /\ working \in BOOLEAN /\ secretKept.formed \in BOOLEAN /\ (working => secretKept.formed)
      /\ secretKept.kind[1] \in {"slack", "teams", "github"}
  BY IntegrationAssumption DEF IntegrationTyped, WorksIfFormed
<1>2. CASE secretKept.kind[1] = "slack"
  <2>1. Verdict(net) = SlackVerdict(net)
    BY <1>2 DEF Verdict
  <2> QED
    BY <1>1, <1>2, <2>1 DEF SlackVerdict, ProviderAccepts, IsKnown, IsAsked, AskedOfSlack, AskedOfGithub, FormOfSlack,
      FormOfTeams, FormOfGithub
<1>3. CASE secretKept.kind[1] = "teams"
  <2>1. Verdict(net) = TeamsVerdict
    BY <1>3 DEF Verdict
  <2> QED
    BY <1>1, <1>3, <2>1 DEF TeamsVerdict, IsKnown, IsAsked, AskedOfSlack, AskedOfGithub, FormOfSlack,
      FormOfTeams, FormOfGithub
<1>4. CASE secretKept.kind[1] = "github"
  <2>1. Verdict(net) = GithubVerdict(net)
    BY <1>4 DEF Verdict
  <2> QED
    BY <1>1, <1>4, <2>1 DEF GithubVerdict, ProviderAccepts, IsKnown, IsAsked, AskedOfSlack, AskedOfGithub, FormOfSlack,
      FormOfTeams, FormOfGithub
<1> QED
  BY <1>1, <1>2, <1>3, <1>4

LEMMA IntegrationStep == IntegrationInv /\ CredentialNext => IntegrationInv'
  <1> SUFFICES ASSUME IntegrationInv, CredentialNext PROVE IntegrationInv'
    OBVIOUS
  <1> USE DEF IntegrationInv
  <1>0. /\ secretKept.there \in BOOLEAN /\ secretKept.valid \in BOOLEAN /\ secretKept.formed \in BOOLEAN
        /\ working \in BOOLEAN /\ overlapping \in BOOLEAN /\ removedOnce \in BOOLEAN /\ heldThen \in BOOLEAN
    BY DEF IntegrationTyped
  \* What is there of a record whose kind stays.
  <1>1. ASSUME NEW there \in BOOLEAN, NEW valid \in BOOLEAN,
               secretKept' = [secretKept EXCEPT !.there = there, !.valid = valid]
        PROVE  /\ secretKept' \in [there : BOOLEAN, kind : CredentialKinds, formed : BOOLEAN, valid : BOOLEAN]
               /\ secretKept'.there = there /\ secretKept'.valid = valid /\ secretKept'.formed = secretKept.formed
               /\ (IsKnown' <=> IsKnown) /\ (IsAsked' <=> IsAsked)
    BY <1>1 DEF IntegrationTyped, IsKnown, IsAsked
  <1>2. ASSUME UNCHANGED secretKept PROVE (IsKnown' <=> IsKnown) /\ (IsAsked' <=> IsAsked)
    BY <1>2 DEF IsKnown, IsAsked
  <1>3. ASSUME UNCHANGED using PROVE \A d \in CredentialCalls : Holds(d)' <=> Holds(d)
    BY <1>3 DEF Holds
  <1>4. ASSUME Store PROVE IntegrationInv'
    <2>1. /\ secretKept' = [secretKept EXCEPT !.there = TRUE, !.valid = TRUE] /\ ~secretKept.there /\ ~removedOnce
          /\ UNCHANGED <<working, network, using, removedOnce, heldThen, lastTest, changedSince, overlapping>>
      BY <1>4 DEF Store
    <2>2. \A d \in CredentialCalls : using[d].at \notin {"tested", "retrieved"}
      BY <2>1 DEF NotStoredYet, Holds
    <2> QED
      BY <1>1, <2>1, <2>2 DEF IntegrationTyped, GoneUnlessHeld, NotStoredYet, WorksIfFormed, TestedRight,
        RetrievedIsKept, ValidAsTested
  <1>5. ASSUME Delete PROVE IntegrationInv'
    <2>1. /\ secretKept' = [secretKept EXCEPT !.there = FALSE, !.valid = secretKept.valid]
          /\ removedOnce' = TRUE /\ heldThen' = (heldThen \/ \E c \in CredentialCalls : Holds(c))
          /\ UNCHANGED <<working, network, using, lastTest, changedSince, overlapping>>
      BY <1>5 DEF Delete, Removed, IntegrationTyped
    <2>2. /\ secretKept' \in [there : BOOLEAN, kind : CredentialKinds, formed : BOOLEAN, valid : BOOLEAN]
          /\ secretKept'.there = FALSE /\ secretKept'.valid = secretKept.valid /\ secretKept'.formed = secretKept.formed
          /\ (IsKnown' <=> IsKnown) /\ (IsAsked' <=> IsAsked)
      BY <1>0, <1>1, <2>1
    <2>3. IntegrationTyped' /\ NotStoredYet'
      BY <2>1, <2>2 DEF IntegrationTyped, NotStoredYet
    <2>4. GoneUnlessHeld'
      BY <1>3, <2>1, <2>2 DEF GoneUnlessHeld
    <2> QED
      BY <2>1, <2>2, <2>3, <2>4 DEF WorksIfFormed, TestedRight, RetrievedIsKept, ValidAsTested
  <1>6. ASSUME Revoke PROVE IntegrationInv'
    <2>1. /\ working' = FALSE /\ changedSince' = TRUE
          /\ UNCHANGED <<secretKept, network, using, removedOnce, heldThen, lastTest, overlapping>>
      BY <1>6 DEF Revoke
    <2> QED
      BY <1>2, <1>3, <2>1 DEF IntegrationTyped, GoneUnlessHeld, NotStoredYet, WorksIfFormed, TestedRight,
        RetrievedIsKept, ValidAsTested
  <1>7. ASSUME NEW net \in Networks, NetworkChanges(net) PROVE IntegrationInv'
    <2>1. network' = net /\ UNCHANGED <<secretKept, working, using, removedOnce, heldThen, lastTest, changedSince, overlapping>>
      BY <1>7 DEF NetworkChanges
    <2> QED
      BY <1>2, <1>3, <2>1 DEF IntegrationTyped, GoneUnlessHeld, NotStoredYet, WorksIfFormed, TestedRight,
        RetrievedIsKept, ValidAsTested
  \* One call moves, and it does not write.
  <1>8. ASSUME NEW c \in CredentialCalls, NEW u \in OneUse, using' = [using EXCEPT ![c] = u],
               UNCHANGED <<secretKept, working, network, removedOnce, heldThen, lastTest, changedSince, overlapping>>,
               u.at \in {"tested", "retrieved"} => secretKept.there,
               u.at = "tested" => /\ working => u.worked
                                  /\ u.worked /\ IsKnown /\ u.network = "up" => u.valid
                                  /\ u.valid /\ IsAsked => u.worked,
               u.at = "retrieved" => u.valid = secretKept.valid
        PROVE  IntegrationInv'
    <2>1. using'[c] = u /\ \A d \in CredentialCalls \ {c} : using'[d] = using[d]
      BY <1>8 DEF IntegrationTyped
    <2>2. \A d \in CredentialCalls : Holds(d)' => Holds(d) \/ secretKept.there
      BY <1>8, <2>1 DEF Holds
    <2>3. IntegrationTyped' /\ GoneUnlessHeld' /\ NotStoredYet' /\ WorksIfFormed'
      BY <1>8, <2>2 DEF IntegrationTyped, GoneUnlessHeld, NotStoredYet, WorksIfFormed
    <2>4. TestedRight' /\ RetrievedIsKept'
      BY <1>2, <1>8, <2>1 DEF TestedRight, RetrievedIsKept
    <2> QED
      BY <1>2, <1>8, <2>3, <2>4 DEF ValidAsTested
  <1>9. ASSUME NEW c \in CredentialCalls, Test(c) PROVE IntegrationInv'
    <2>1. CASE secretKept.there
      <3> DEFINE u == [at |-> "tested", valid |-> Verdict(network), network |-> network, worked |-> working]
      <3>1. network \in Networks
        BY DEF IntegrationTyped
      <3>2. /\ Verdict(network) \in BOOLEAN
            /\ working /\ IsKnown /\ network = "up" => Verdict(network)
            /\ Verdict(network) /\ IsAsked => working
        BY <3>1, VerdictIsRight
      <3>3. u \in OneUse /\ u.at = "tested" /\ u.network = network
        BY <1>0, <3>1, <3>2 DEF OneUse
      <3>4. (u.worked <=> working) /\ (u.valid <=> Verdict(network))
        BY ZenonT(30)
      <3>5. using' = [using EXCEPT ![c] = u]
            /\ UNCHANGED <<secretKept, working, network, removedOnce, heldThen, lastTest, changedSince, overlapping>>
        BY <1>9, <2>1 DEF Test
      <3> HIDE DEF u
      <3>6. PICK w : w = u
        OBVIOUS
      <3> QED
        BY <1>8, <2>1, <3>2, <3>3, <3>4, <3>5, <3>6
    <2>2. CASE ~secretKept.there
      <3> DEFINE u == [using[c] EXCEPT !.at = "done"]
      <3>1. u \in OneUse /\ u.at = "done"
        BY DEF IntegrationTyped, OneUse
      <3>2. using' = [using EXCEPT ![c] = u]
            /\ UNCHANGED <<secretKept, working, network, removedOnce, heldThen, lastTest, changedSince, overlapping>>
        BY <1>9, <2>2 DEF Test, IntegrationTyped
      <3> HIDE DEF u
      <3>3. PICK w : w = u
        OBVIOUS
      <3> QED
        BY <1>8, <3>1, <3>2, <3>3
    <2> QED
      BY <2>1, <2>2
  <1>10. ASSUME NEW c \in CredentialCalls, NEW where \in {"message", "posting", "done"}, Moves(c, where),
                UNCHANGED <<secretKept, working, network, removedOnce, heldThen, lastTest, changedSince, overlapping>>
         PROVE IntegrationInv'
    <2>1. PICK u : u = [using[c] EXCEPT !.at = where]
      OBVIOUS
    <2>2. u \in OneUse /\ u.at = where
      BY <2>1 DEF IntegrationTyped, OneUse
    <2>3. using' = [using EXCEPT ![c] = u]
      BY <1>10, <2>1 DEF Moves, IntegrationTyped
    <2> QED
      BY <1>8, <1>10, <2>2, <2>3
  <1>11. ASSUME NEW c \in CredentialCalls, ReadMetadata(c) \/ PostMessage(c) PROVE IntegrationInv'
    BY <1>10, <1>11 DEF ReadMetadata, PostMessage
  <1>12. ASSUME NEW c \in CredentialCalls, RetrieveToken(c) PROVE IntegrationInv'
    <2>1. PICK u : u = [using[c] EXCEPT !.at = IF secretKept.there THEN "retrieved" ELSE "done", !.valid = secretKept.valid]
      OBVIOUS
    <2>2. /\ u \in OneUse /\ u.valid = secretKept.valid /\ u.at \in {"retrieved", "done"}
          /\ u.at = "retrieved" => secretKept.there
      BY <1>0, <2>1 DEF IntegrationTyped, OneUse
    <2>3. using' = [using EXCEPT ![c] = u]
          /\ UNCHANGED <<secretKept, working, network, removedOnce, heldThen, lastTest, changedSince, overlapping>>
      BY <1>12, <2>1 DEF RetrieveToken, IntegrationTyped
    <2> QED
      BY <1>8, <2>2, <2>3
  \* One call writes the record back.
  <1>13. ASSUME NEW c \in CredentialCalls, NEW valid \in BOOLEAN, NEW where \in {"posting", "done"}, Moves(c, where),
                Holds(c), secretKept' = [secretKept EXCEPT !.there = TRUE, !.valid = valid],
                overlapping' = (overlapping \/ OthersHold(c)), UNCHANGED <<working, network, removedOnce, heldThen>>
         PROVE  /\ GoneUnlessHeld' /\ NotStoredYet' /\ WorksIfFormed' /\ TestedRight' /\ RetrievedIsKept'
                /\ using' \in [CredentialCalls -> OneUse] /\ overlapping' \in BOOLEAN
    <2>1. /\ using' \in [CredentialCalls -> OneUse] /\ using'[c].at = where
          /\ \A d \in CredentialCalls \ {c} : using'[d] = using[d]
      BY <1>13 DEF IntegrationTyped, OneUse, Moves
    <2>2. /\ secretKept'.there = TRUE /\ secretKept'.formed = secretKept.formed
          /\ (IsKnown' <=> IsKnown) /\ (IsAsked' <=> IsAsked)
      BY <1>1, <1>13
    <2>3. GoneUnlessHeld' /\ NotStoredYet' /\ WorksIfFormed'
      BY <1>13, <2>2 DEF GoneUnlessHeld, NotStoredYet, WorksIfFormed
    <2>4. TestedRight'
      BY <1>13, <2>1, <2>2 DEF TestedRight
    <2>5. overlapping' \in BOOLEAN
      BY <1>0, <1>13 DEF OthersHold
    <2>6. RetrievedIsKept'
      BY <1>13, <2>1 DEF RetrievedIsKept, OthersHold, Holds
    <2> QED
      BY <2>1, <2>3, <2>4, <2>5, <2>6
  <1>14. ASSUME NEW c \in CredentialCalls, WriteTested(c) PROVE IntegrationInv'
    <2>1. using[c].valid \in BOOLEAN /\ using[c].worked \in BOOLEAN /\ using[c].network \in Networks
      BY DEF IntegrationTyped, OneUse
    <2>2. /\ using[c].at = "tested" /\ Moves(c, "done") /\ Holds(c)
          /\ secretKept' = [secretKept EXCEPT !.there = TRUE, !.valid = using[c].valid]
          /\ lastTest' = [verdict |-> IF using[c].valid THEN "valid" ELSE "invalid", network |-> using[c].network]
          /\ changedSince' = (using[c].worked # working) /\ overlapping' = (overlapping \/ OthersHold(c))
          /\ UNCHANGED <<working, network, removedOnce, heldThen>>
      BY <1>14 DEF WriteTested, Holds
    <2>3. /\ GoneUnlessHeld' /\ NotStoredYet' /\ WorksIfFormed' /\ TestedRight' /\ RetrievedIsKept'
          /\ using' \in [CredentialCalls -> OneUse] /\ overlapping' \in BOOLEAN
      BY <1>13, <2>1, <2>2
    <2>4. /\ secretKept' \in [there : BOOLEAN, kind : CredentialKinds, formed : BOOLEAN, valid : BOOLEAN]
          /\ secretKept'.valid = using[c].valid /\ (IsKnown' <=> IsKnown) /\ (IsAsked' <=> IsAsked)
      BY <1>1, <2>1, <2>2
    <2>5. lastTest' \in [verdict : {"none", "valid", "invalid"}, network : Networks] /\ lastTest'.network = using[c].network
      BY <2>1, <2>2
    <2>6. IntegrationTyped'
      BY <2>2, <2>3, <2>4, <2>5 DEF IntegrationTyped
    <2>7. ValidAsTested'
      BY <1>0, <2>1, <2>2, <2>4, <2>5 DEF ValidAsTested, TestedRight
    <2> QED
      BY <2>3, <2>6, <2>7
  <1>15. ASSUME NEW c \in CredentialCalls, TouchToken(c) PROVE IntegrationInv'
    <2>1. using[c].valid \in BOOLEAN
      BY DEF IntegrationTyped, OneUse
    <2>2. /\ using[c].at = "retrieved" /\ Moves(c, "posting") /\ Holds(c)
          /\ secretKept' = [secretKept EXCEPT !.there = TRUE, !.valid = using[c].valid]
          /\ overlapping' = (overlapping \/ OthersHold(c))
          /\ UNCHANGED <<working, network, removedOnce, heldThen, lastTest, changedSince>>
      BY <1>15 DEF TouchToken, Holds
    <2>3. /\ GoneUnlessHeld' /\ NotStoredYet' /\ WorksIfFormed' /\ TestedRight' /\ RetrievedIsKept'
          /\ using' \in [CredentialCalls -> OneUse] /\ overlapping' \in BOOLEAN
      BY <1>13, <2>1, <2>2
    <2>4. /\ secretKept' \in [there : BOOLEAN, kind : CredentialKinds, formed : BOOLEAN, valid : BOOLEAN]
          /\ secretKept'.valid = using[c].valid /\ (IsKnown' <=> IsKnown) /\ (IsAsked' <=> IsAsked)
      BY <1>1, <2>1, <2>2
    <2>5. overlapping \/ using[c].valid = secretKept.valid
      BY <2>2 DEF RetrievedIsKept
    <2>6. IntegrationTyped'
      BY <2>2, <2>3, <2>4 DEF IntegrationTyped
    <2>7. ValidAsTested'
      BY <1>0, <2>1, <2>2, <2>4, <2>5 DEF ValidAsTested
    <2> QED
      BY <2>3, <2>6, <2>7
  <1> QED
    BY <1>4, <1>5, <1>6, <1>7, <1>9, <1>11, <1>12, <1>14, <1>15 DEF CredentialNext, Networks

LEMMA IntegrationAlways == IntegrationSpec => []IntegrationInv
<1>1. IntegrationInv /\ UNCHANGED credentialVars => IntegrationInv'
  BY DEF IntegrationInv, IntegrationTyped, GoneUnlessHeld, NotStoredYet, WorksIfFormed, TestedRight,
    RetrievedIsKept, ValidAsTested, Holds, IsKnown, IsAsked, credentialVars
<1> QED
  BY <1>1, IntegrationStart, IntegrationStep, PTL DEF IntegrationSpec

LEMMA IntegrationProperties == IntegrationInv => BackWasHeld /\ InvalidHasACause /\ ValidHasACause
  BY DEF IntegrationInv, GoneUnlessHeld, ValidAsTested, BackWasHeld, InvalidHasACause, ValidHasACause

-----------------------------------------------------------------------------
(* Secrets of an environment.  A path of Secret Manager was written for a  *)
(* secret that has this path; only the environment prod, whose paths have   *)
(* no prefix, can share one with another.                                   *)


SecretsTyped ==
    /\ gcp \in [Paths -> SecretValues \cup {"absent", "empty"}] /\ setBy \in [Paths -> Secrets \cup {None}]
WrittenThere == \A p \in Paths : gcp[p] # "absent" => setBy[p] \in Secrets /\ PathOf(setBy[p]) = p
EmptyIsHalf == \A p \in Paths : gcp[p] = "empty" => p \in half
AnswersHold == AnswersAreCurrent /\ AnsweredIsOwn /\ ListedCanBeRead /\ DetailsAreTrue

SecretsInv == SecretsTyped /\ WrittenThere /\ EmptyIsHalf /\ AnswersHold

LEMMA SecretsStart == SecretsInit => SecretsInv
  BY DEF SecretsInit, SecretsInv, SecretsTyped, WrittenThere, EmptyIsHalf, AnswersHold, AnswersAreCurrent, AnsweredIsOwn,
    ListedCanBeRead, DetailsAreTrue, ReadAnswer, NothingTold, None

LEMMA PathsOf == \A s \in Secrets : PathOf(s) \in Paths
  BY DEF Paths

\* Where the paths of two secrets begin.
LEMMA PathBegins ==
    ASSUME NEW s \in Secrets
    PROVE  /\ s.env = "prod" => PathOf(s) = s.name
           /\ s.env # "prod" =>
                /\ Len(PathOf(s)) = Len(s.name) + 1 /\ PathOf(s)[1] = s.env
                /\ \A i \in 1..Len(s.name) : PathOf(s)[i + 1] = s.name[i]
           /\ PathOf(s) \in Seq(NameParts) /\ Len(PathOf(s)) > 0 /\ s.name \in Seq(NameParts) /\ Len(s.name) > 0
<1>1. s.name \in Seq(NameParts) /\ Len(s.name) > 0
  BY SecretsAssumption
<1>2. s.env \in NameParts
  BY DEF NameParts
<1>3. CASE s.env = "prod"
  BY <1>1, <1>3 DEF PathOf, Path
<1>4. CASE s.env # "prod"
  <2>1. PathOf(s) = <<s.env>> \o s.name
    BY <1>4 DEF PathOf, Path
  <2>2. <<s.env>> \in Seq(NameParts) /\ Len(<<s.env>>) = 1 /\ <<s.env>>[1] = s.env
    BY <1>2
  <2> QED
    BY <1>1, <1>4, <2>1, <2>2, ConcatProperties
<1> QED
  BY <1>3, <1>4

\* Only a secret of prod shares its path with another, and its name has two parts.
LEMMA PathsDiffer ==
    ASSUME NEW s \in Secrets, NEW t \in Secrets, PathOf(s) = PathOf(t), s # t
    PROVE  \E r \in {s, t} : r.env = "prod" /\ Len(r.name) > 1
<1>1. s.name # t.name \/ s.env # t.env
  BY SecretsAssumption
<1>2. CASE s.env = "prod" /\ t.env = "prod"
  BY <1>1, <1>2, PathBegins
<1>3. CASE s.env # "prod" /\ t.env # "prod"
  <2>1. s.env = t.env /\ Len(s.name) = Len(t.name)
    BY <1>3, PathBegins, LenProperties
  <2>2. \A i \in 1..Len(s.name) : s.name[i] = t.name[i]
    BY <1>3, <2>1, PathBegins
  <2>3. s.name = t.name
    BY <2>1, <2>2, PathBegins, SeqEqual
  <2> QED
    BY <1>1, <2>1, <2>3
<1>4. CASE s.env = "prod" /\ t.env # "prod"
  BY <1>4, PathBegins, LenProperties
<1>5. CASE s.env # "prod" /\ t.env = "prod"
  BY <1>5, PathBegins, LenProperties
<1> QED
  BY <1>2, <1>3, <1>4, <1>5

LEMMA ListedAreOf ==
    ASSUME SecretsTyped, WrittenThere, EmptyIsHalf, NEW env, NEW p \in ListedPaths(env)
    PROVE  /\ IsValue(gcp[p]) \/ p \in half
           /\ setBy[p].env # env => setBy[p].env \notin KnownPrefixes
<1>1. p \in Paths /\ gcp[p] # "absent"
  BY DEF ListedPaths
<1>2. IsValue(gcp[p]) \/ p \in half
  BY <1>1 DEF SecretsTyped, EmptyIsHalf, IsValue
<1>3. setBy[p] \in Secrets /\ PathOf(setBy[p]) = p
  BY <1>1 DEF WrittenThere
<1>4. p \in Seq(NameParts) /\ Len(p) > 0 /\ Head(p) = p[1]
  BY <1>3, PathBegins
<1>5. setBy[p].env # "prod" => Head(p) = setBy[p].env
  BY <1>3, <1>4, PathBegins
<1> QED
  BY <1>2, <1>5, SecretsAssumption DEF ListedPaths

LEMMA SecretsStep == SecretsInv /\ SecretsNext => SecretsInv'
  <1> SUFFICES ASSUME SecretsInv, SecretsNext PROVE SecretsInv'
    OBVIOUS
  <1>0. SecretsTyped /\ WrittenThere /\ EmptyIsHalf
    BY DEF SecretsInv
  <1>1. told' = NothingTold => AnswersHold'
    BY DEF AnswersHold, AnswersAreCurrent, AnsweredIsOwn, ListedCanBeRead, DetailsAreTrue, ReadAnswer, NothingTold
  <1>2. UNCHANGED <<gcp, setBy, half>> => SecretsTyped' /\ WrittenThere' /\ EmptyIsHalf'
    BY <1>0 DEF SecretsTyped, WrittenThere, EmptyIsHalf
  <1>3. ASSUME Health PROVE SecretsInv'
    <2>1. AnswersHold'
      BY <1>3 DEF Health, Connected, AnswersHold, AnswersAreCurrent, AnsweredIsOwn, ListedCanBeRead, DetailsAreTrue,
        ReadAnswer, NothingTold
    <2> QED
      BY <1>2, <1>3, <2>1 DEF Health, SecretsInv
  <1>4. ASSUME NEW env, ListSecrets(env) PROVE SecretsInv'
    <2>1. /\ told'.by = "list" /\ told'.secret = env /\ told'.listed \subseteq ListedPaths(env)
          /\ UNCHANGED <<gcp, setBy, half>>
      BY <1>4 DEF ListSecrets, NothingTold
    <2>2. \A p \in told'.listed : /\ IsValue(gcp[p]) \/ p \in half
                                  /\ setBy[p].env # env => setBy[p].env \notin KnownPrefixes
      BY <1>0, <2>1, ListedAreOf
    <2>3. AnswersHold'
      BY <2>1, <2>2 DEF AnswersHold, AnswersAreCurrent, AnsweredIsOwn, ListedCanBeRead, DetailsAreTrue, ReadAnswer, IsValue
    <2> QED
      BY <1>2, <2>1, <2>3 DEF SecretsInv
  <1>5. ASSUME NEW b \in Backends, GoAway(b) \/ ComeBack(b) PROVE SecretsInv'
    BY <1>1, <1>2, <1>5 DEF GoAway, ComeBack, SecretsInv
  <1>6. ASSUME NEW s \in Secrets, NEW v \in SecretValues, SetSecret(s, v) PROVE SecretsInv'
    <2>1. /\ gcp' = [gcp EXCEPT ![PathOf(s)] = v] /\ setBy' = [setBy EXCEPT ![PathOf(s)] = s]
          /\ half' = half \ {PathOf(s)} /\ told' = NothingTold
      BY <1>6 DEF SetSecret
    <2>2. v \notin {"absent", "empty"}
      BY SecretsAssumption
    <2> QED
      BY <1>0, <1>1, <2>1, <2>2, PathsOf DEF SecretsInv, SecretsTyped, WrittenThere, EmptyIsHalf
  <1>7. ASSUME NEW s \in Secrets, SetFailsHalfway(s) PROVE SecretsInv'
    <2>1. /\ gcp' = [gcp EXCEPT ![PathOf(s)] = "empty"] /\ setBy' = [setBy EXCEPT ![PathOf(s)] = s]
          /\ half' = half \cup {PathOf(s)} /\ told' = NothingTold
      BY <1>7 DEF SetFailsHalfway
    <2> QED
      BY <1>0, <1>1, <2>1, PathsOf DEF SecretsInv, SecretsTyped, WrittenThere, EmptyIsHalf
  <1>8. ASSUME NEW s \in Secrets, DeleteSecret(s) PROVE SecretsInv'
    <2>1. /\ gcp' = [gcp EXCEPT ![PathOf(s)] = "absent"] /\ setBy' = setBy
          /\ half' = half \ {PathOf(s)} /\ told' = NothingTold
      BY <1>8 DEF DeleteSecret
    <2> QED
      BY <1>0, <1>1, <2>1, PathsOf DEF SecretsInv, SecretsTyped, WrittenThere, EmptyIsHalf
  <1>9. ASSUME NEW s \in Secrets, NEW by \in {"client", "worker"}, GetSecret(s, by) PROVE SecretsInv'
    <2> DEFINE got == GcpGets(s)
    <2>1. /\ UNCHANGED <<gcp, reachable, setBy, half>>
          /\ told' = ToldOf(by, s, IF by = "worker" /\ got = None /\ InEnvironment(s) THEN "variable" ELSE got)
          /\ got # "raised"
      <3>1. got # "raised"
        BY SecretsAssumption DEF GcpGets, IsValue, None
      <3> QED
        BY <1>9, <3>1 DEF GetSecret
    <2>2. /\ told'.by = by /\ told'.secret = s /\ (IsValue(told'.value) => told'.value = got /\ IsValue(got))
          /\ IsValue(got) => told'.value = got
      BY <2>1, SecretsAssumption DEF ToldOf, NothingTold, IsValue, None
    <2>3. IsValue(got) => got = gcp[PathOf(s)] /\ "gcp" \in reachable
      BY SecretsAssumption DEF GcpGets, IsValue, None
    <2>4. "gcp" \in reachable /\ IsValue(gcp[PathOf(s)]) => got = gcp[PathOf(s)]
      BY DEF GcpGets
    <2>5. ASSUME IsValue(told'.value), setBy[PathOf(s)] # s
          PROVE  \E r \in {setBy[PathOf(s)], s} : r.env = "prod" /\ Len(r.name) > 1
      <3>1. gcp[PathOf(s)] # "absent"
        BY <2>2, <2>3, <2>5, SecretsAssumption DEF IsValue
      <3>2. setBy[PathOf(s)] \in Secrets /\ PathOf(setBy[PathOf(s)]) = PathOf(s)
        BY <1>0, <3>1, PathsOf DEF WrittenThere
      <3> QED
        BY <2>5, <3>2, PathsDiffer
    <2> HIDE DEF got
    <2>6. AnswersAreCurrent' /\ AnsweredIsOwn'
      BY <2>1, <2>2, <2>3, <2>4, <2>5 DEF AnswersAreCurrent, AnsweredIsOwn, ReadAnswer, IsValue
    <2>7. ListedCanBeRead' /\ DetailsAreTrue'
      BY <2>2 DEF ListedCanBeRead, DetailsAreTrue
    <2> QED
      BY <1>2, <2>1, <2>6, <2>7 DEF SecretsInv, AnswersHold
  <1> QED
    BY <1>3, <1>4, <1>5, <1>6, <1>7, <1>8, <1>9 DEF SecretsNext

LEMMA SecretsAlways == SecretsSpec => []SecretsInv
<1>1. SecretsInv /\ UNCHANGED secretVars => SecretsInv'
  BY DEF SecretsInv, SecretsTyped, WrittenThere, EmptyIsHalf, AnswersHold, AnswersAreCurrent, AnsweredIsOwn,
    ListedCanBeRead, DetailsAreTrue, ReadAnswer, IsValue, FromCopy, secretVars
<1> QED
  BY <1>1, SecretsStart, SecretsStep, PTL DEF SecretsSpec

-----------------------------------------------------------------------------
(* Correlations of ideas.  In a type of which no two calls overlapped and  *)
(* none failed, at most one call is under way for an edge or its reverse,   *)
(* and the sets are as far from the answered calls as it has come.          *)

GraphSpec == GraphInit /\ [][GraphNext]_graphVars

OneGraphCall == [does : {"none", "add", "remove"}, edge : Edges \cup {<<>>}, next : 0..4, found : BOOLEAN,
                 answer : {"none", "ok", "missing", "failed"}]
GraphTyped ==
    /\ GraphTypeOK /\ correlations \in [Edges -> GraphCalls \cup {"none"}] /\ graphCall \in [GraphCalls -> OneGraphCall]
    /\ \A c \in GraphCalls : graphCall[c].does # "none" => graphCall[c].edge \in Edges

Pending(e) == {c \in GraphCalls : Under(c) /\ graphCall[c].edge[3] = e[3]}
Related(e) == correlations[e] # "none" \/ correlations[Back(e)] # "none"
Reached(c, e) ==
    \/ graphCall[c].next >= 2 /\ e = graphCall[c].edge
    \/ graphCall[c].next >= 3 /\ e = Back(graphCall[c].edge)
AsFar(c, e) ==
    /\ graphCall[c].does = "add" => (e \in neighbours <=> Related(e) \/ Reached(c, e))
    /\ graphCall[c].does = "remove" => (e \in neighbours <=> Related(e) /\ ~Reached(c, e))
    /\ properties[e] = IF graphCall[c].does = "remove" /\ graphCall[c].next = 4 /\ e = graphCall[c].edge THEN "none"
                       ELSE correlations[e]
AsMade(e) == properties[e] = correlations[e] /\ (e \in neighbours <=> Related(e))
OneAtATime == \A e \in Edges : e[3] \notin raced => \A c, d \in Pending(e) : c = d
MadeAsFar == \A e \in Edges : e[3] \notin raced =>
    /\ Pending(e) = {} => AsMade(e)
    /\ \A c \in Pending(e) : AsFar(c, e)

GraphInv == GraphTyped /\ OneAtATime /\ MadeAsFar

LEMMA Backs == \A e \in Edges : /\ Back(e) \in Edges /\ Back(e)[3] = e[3] /\ Back(Back(e)) = e /\ Back(e) # e
                                /\ e[3] \in EdgeTypes /\ Back(e)[1] = e[2] /\ Back(e)[2] = e[1]
  BY DEF Edges, Back

LEMMA GraphStart == GraphInit => GraphInv
  <1> SUFFICES ASSUME GraphInit PROVE GraphInv
    OBVIOUS
  <1>1. GraphTyped
    BY DEF GraphInit, GraphTyped, GraphTypeOK, OneGraphCall, NotCalled
  <1>2. \A e : Pending(e) = {}
    BY DEF GraphInit, Pending, Under, NotCalled
  <1> QED
    BY <1>1, <1>2, Backs DEF GraphInit, GraphInv, OneAtATime, MadeAsFar, AsMade, Related

\* A step of one call, in the edges of its type.
LEMMA CallMoves ==
    ASSUME GraphInv, NEW c \in GraphCalls, Under(c), NEW g \in OneGraphCall, graphCall' = [graphCall EXCEPT ![c] = g],
           g.edge = graphCall[c].edge, g.does = graphCall[c].does, raced \subseteq raced', GraphTypeOK',
           correlations' \in [Edges -> GraphCalls \cup {"none"}],
           \A e \in Edges : e[3] # g.edge[3] =>
                (e \in neighbours' <=> e \in neighbours) /\ properties'[e] = properties[e] /\ correlations'[e] = correlations[e],
           \A e \in Edges : e[3] = g.edge[3] /\ e[3] \notin raced' /\ AsFar(c, e) =>
                (g.answer = "none" => AsFar(c, e)') /\ (g.answer # "none" => AsMade(e)')
    PROVE  GraphInv'
<1>1. /\ graphCall'[c] = g /\ \A d \in GraphCalls \ {c} : graphCall'[d] = graphCall[d]
      /\ GraphTyped'
  BY DEF GraphInv, GraphTyped
<1>2. g.does # "none" /\ (Under(c)' <=> g.answer = "none")
  BY <1>1 DEF Under
<1>3. \A e \in Edges : Pending(e)' \subseteq Pending(e) /\ Pending(e) \ {c} \subseteq Pending(e)'
  BY <1>1 DEF Pending, Under
<1>4. OneAtATime'
  BY <1>3 DEF OneAtATime, GraphInv
<1>5. ASSUME NEW e \in Edges, e[3] \notin raced' PROVE (Pending(e)' = {} => AsMade(e)') /\ \A d \in Pending(e)' : AsFar(d, e)'
  <2>1. CASE e[3] = g.edge[3]
    <3>1. c \in Pending(e) /\ e[3] \notin raced
      BY <1>5, <2>1 DEF Pending
    <3>2. Pending(e) = {c}
      BY <3>1 DEF GraphInv, OneAtATime
    <3>3. AsFar(c, e)
      BY <3>1 DEF GraphInv, MadeAsFar
    <3>4. c \in Pending(e)' <=> g.answer = "none"
      BY <1>1, <1>2, <2>1 DEF Pending
    <3> QED
      BY <1>3, <1>5, <2>1, <3>2, <3>3, <3>4
  <2>2. CASE e[3] # g.edge[3]
    <3>1. Pending(e)' = Pending(e) /\ c \notin Pending(e)
      BY <1>1, <1>2, <2>2 DEF Pending, Under
    <3>2. Related(e)' <=> Related(e)
      BY <2>2, Backs DEF Related
    <3>3. (e \in neighbours' <=> e \in neighbours) /\ properties'[e] = properties[e] /\ correlations'[e] = correlations[e]
      BY <2>2
    <3>4. AsMade(e) => AsMade(e)'
      BY <3>2, <3>3 DEF AsMade
    <3>5. ASSUME NEW d \in Pending(e), AsFar(d, e) PROVE AsFar(d, e)'
      <4>1. graphCall'[d] = graphCall[d]
        BY <1>1, <3>1 DEF Pending
      <4> QED
        BY <3>2, <3>3, <3>5, <4>1 DEF AsFar, Reached
    <3> QED
      BY <1>5, <3>1, <3>4, <3>5 DEF GraphInv, MadeAsFar
  <2> QED
    BY <2>1, <2>2
<1> QED
  BY <1>1, <1>4, <1>5 DEF GraphInv, MadeAsFar

LEMMA GraphStep == GraphInv /\ GraphNext => GraphInv'
  <1> SUFFICES ASSUME GraphInv, NEW c \in GraphCalls,
                      \/ \E what \in {"add", "remove"}, e \in Edges : BeginCall(c, what, e)
                      \/ AddForward(c) \/ AddBackward(c) \/ SetProperties(c)
                      \/ RemoveForward(c) \/ RemoveBackward(c) \/ DropForward(c) \/ DropBackward(c)
                      \/ CallFails(c)
               PROVE  GraphInv'
    BY DEF GraphNext
  <1>0. /\ graphCall[c] \in OneGraphCall /\ neighbours \subseteq Edges /\ GraphTypeOK
        /\ properties \in [Edges -> GraphCalls \cup {"none"}] /\ correlations \in [Edges -> GraphCalls \cup {"none"}]
        /\ Under(c) => graphCall[c].edge \in Edges
    BY DEF GraphInv, GraphTyped, GraphTypeOK, Under
  <1>1. ASSUME NEW what \in {"add", "remove"}, NEW x \in Edges, BeginCall(c, what, x) PROVE GraphInv'
    <2>1. PICK g : g = [NotCalled EXCEPT !.does = what, !.edge = x, !.next = 1]
      OBVIOUS
    <2>2. g \in OneGraphCall /\ g.does = what /\ g.edge = x /\ g.next = 1 /\ g.answer = "none"
      <3>1. g = [does |-> what, edge |-> x, next |-> 1, found |-> FALSE, answer |-> "none"]
        BY <2>1 DEF NotCalled
      <3> QED
        BY <3>1 DEF OneGraphCall
    <2>3. /\ graphCall' = [graphCall EXCEPT ![c] = g] /\ graphCall[c].does = "none"
          /\ raced' = IF \E d \in GraphCalls : Under(d) /\ graphCall[d].edge[3] = x[3] THEN raced \cup {x[3]} ELSE raced
          /\ UNCHANGED <<neighbours, properties, correlations>>
      BY <1>1, <2>1 DEF BeginCall
    <2>4. graphCall'[c] = g /\ \A d \in GraphCalls \ {c} : graphCall'[d] = graphCall[d]
      BY <2>3 DEF GraphInv, GraphTyped
    <2>5. GraphTyped'
      BY <2>2, <2>3, <2>4, Backs DEF GraphInv, GraphTyped, GraphTypeOK
    <2>6. \A e \in Edges : Pending(e)' = IF e[3] = x[3] THEN Pending(e) \cup {c} ELSE Pending(e)
      BY <2>2, <2>3, <2>4 DEF Pending, Under
    <2>7. \A e \in Edges : e[3] = x[3] /\ e[3] \notin raced' => Pending(e) = {}
      BY <2>3 DEF Pending
    <2>8. raced \subseteq raced'
      BY <2>3
    <2>9. OneAtATime'
      BY <2>6, <2>7, <2>8 DEF GraphInv, OneAtATime
    <2>10. \A e \in Edges : (AsMade(e)' <=> AsMade(e)) /\ (Related(e)' <=> Related(e))
      BY <2>3 DEF AsMade, Related
    <2>11. \A e \in Edges : \A d \in GraphCalls \ {c} : AsFar(d, e) => AsFar(d, e)'
      BY <2>3, <2>4, <2>10 DEF AsFar, Reached
    <2>12. \A e \in Edges : AsMade(e) => AsFar(c, e)'
      BY <2>2, <2>3, <2>4, <2>10 DEF AsMade, AsFar, Reached
    <2>13. c \notin Pending(x) /\ \A e \in Edges : c \notin Pending(e)
      BY <2>3 DEF Pending, Under
    <2>14. ASSUME NEW e \in Edges, e[3] \notin raced'
           PROVE  (Pending(e)' = {} => AsMade(e)') /\ \A d \in Pending(e)' : AsFar(d, e)'
      <3>1. \A d \in Pending(e) : AsFar(d, e) /\ d \in GraphCalls \ {c}
        BY <2>8, <2>13, <2>14 DEF GraphInv, MadeAsFar, Pending
      <3>2. Pending(e) = {} => AsMade(e)
        BY <2>8, <2>14 DEF GraphInv, MadeAsFar
      <3> QED
        BY <2>6, <2>7, <2>10, <2>11, <2>12, <2>14, <3>1, <3>2
    <2> QED
      BY <2>5, <2>9, <2>14 DEF GraphInv, MadeAsFar
  <1> DEFINE x == graphCall[c].edge
             Next2(n) == [graphCall[c] EXCEPT !.next = n]
             Answered2(w) == [graphCall[c] EXCEPT !.answer = w]
  <1>2. \A n \in 0..4 : Next2(n) \in OneGraphCall /\ Next2(n).edge = x /\ Next2(n).does = graphCall[c].does
                        /\ Next2(n).next = n /\ Next2(n).answer = graphCall[c].answer
    BY <1>0 DEF OneGraphCall
  <1>3. \A w \in {"ok", "missing", "failed"} : Answered2(w) \in OneGraphCall /\ Answered2(w).edge = x
                        /\ Answered2(w).does = graphCall[c].does /\ Answered2(w).answer = w
    BY <1>0 DEF OneGraphCall
  <1> HIDE DEF x, Next2, Answered2
  <1>4. graphCall[c].next \in 0..4 /\ \A g \in OneGraphCall : graphCall' = [graphCall EXCEPT ![c] = g] => graphCall'[c] = g
    BY <1>0 DEF GraphInv, GraphTyped, OneGraphCall
  <1>5. ASSUME AddForward(c) PROVE GraphInv'
    <2>1. PICK g : g = Next2(2)
      OBVIOUS
    <2>2. PICK e0 : e0 = x
      OBVIOUS
    <2>3. /\ Under(c) /\ graphCall[c].does = "add" /\ graphCall[c].next = 1 /\ graphCall' = [graphCall EXCEPT ![c] = g]
          /\ neighbours' = neighbours \cup {e0} /\ UNCHANGED <<properties, correlations, raced>> /\ e0 \in Edges
      BY <1>0, <1>5, <2>1, <2>2 DEF x, Next2, Answered2, AddForward, At, StepOn, GraphInv, GraphTyped
    <2>4. g \in OneGraphCall /\ g.edge = e0 /\ g.does = "add" /\ g.next = 2 /\ g.answer = "none" /\ graphCall'[c] = g
      <3>1. g \in OneGraphCall /\ g.edge = x /\ g.does = graphCall[c].does /\ g.answer = graphCall[c].answer
            /\ g.next = 2
        BY <1>2, <2>1
      <3> QED
        BY <1>4, <2>2, <2>3, <3>1 DEF Under
    <2>5. \A e \in Edges : Related(e)' <=> Related(e)
      BY <2>3 DEF Related
    <2>6. \A e \in Edges : AsFar(c, e) => AsFar(c, e)'
      BY <2>2, <2>3, <2>4, <2>5 DEF AsFar, Reached, x
    <2>7. /\ GraphTypeOK' /\ correlations' \in [Edges -> GraphCalls \cup {"none"}] /\ raced \subseteq raced'
          /\ \A e \in Edges : e[3] # e0[3] =>
               (e \in neighbours' <=> e \in neighbours) /\ properties'[e] = properties[e] /\ correlations'[e] = correlations[e]
      BY <1>0, <2>3, Backs DEF GraphTypeOK
    <2>8. g.edge = graphCall[c].edge /\ g.does = graphCall[c].does /\ g \in OneGraphCall /\ Under(c)
      BY <2>2, <2>3, <2>4 DEF x
    <2> QED
      BY <2>3, <2>4, <2>6, <2>7, <2>8, CallMoves
  <1>6. ASSUME AddBackward(c) PROVE GraphInv'
    <2>1. PICK g : g = Next2(3)
      OBVIOUS
    <2>2. PICK e0 : e0 = x
      OBVIOUS
    <2>3. /\ Under(c) /\ graphCall[c].does = "add" /\ graphCall[c].next = 2 /\ graphCall' = [graphCall EXCEPT ![c] = g]
          /\ neighbours' = neighbours \cup {Back(e0)} /\ UNCHANGED <<properties, correlations, raced>> /\ e0 \in Edges
      BY <1>0, <1>6, <2>1, <2>2 DEF x, Next2, Answered2, AddBackward, AddBack, At, StepOn, GraphInv, GraphTyped
    <2>4. g \in OneGraphCall /\ g.edge = e0 /\ g.does = "add" /\ g.next = 3 /\ g.answer = "none" /\ graphCall'[c] = g
      <3>1. g \in OneGraphCall /\ g.edge = x /\ g.does = graphCall[c].does /\ g.answer = graphCall[c].answer
            /\ g.next = 3
        BY <1>2, <2>1
      <3> QED
        BY <1>4, <2>2, <2>3, <3>1 DEF Under
    <2>5. \A e \in Edges : Related(e)' <=> Related(e)
      BY <2>3 DEF Related
    <2>6. \A e \in Edges : AsFar(c, e) => AsFar(c, e)'
      BY <2>2, <2>3, <2>4, <2>5 DEF AsFar, Reached, x
    <2>7. /\ GraphTypeOK' /\ correlations' \in [Edges -> GraphCalls \cup {"none"}] /\ raced \subseteq raced'
          /\ \A e \in Edges : e[3] # e0[3] =>
               (e \in neighbours' <=> e \in neighbours) /\ properties'[e] = properties[e] /\ correlations'[e] = correlations[e]
      BY <1>0, <2>3, Backs DEF GraphTypeOK
    <2>8. g.edge = graphCall[c].edge /\ g.does = graphCall[c].does /\ g \in OneGraphCall /\ Under(c)
      BY <2>2, <2>3, <2>4 DEF x
    <2> QED
      BY <2>3, <2>4, <2>6, <2>7, <2>8, CallMoves
  <1>7. ASSUME SetProperties(c) PROVE GraphInv'
    <2>1. PICK g : g = Answered2("ok")
      OBVIOUS
    <2>2. PICK e0 : e0 = x
      OBVIOUS
    <2>3. /\ Under(c) /\ graphCall[c].does = "add" /\ graphCall[c].next = 3 /\ graphCall' = [graphCall EXCEPT ![c] = g]
          /\ properties' = [properties EXCEPT ![e0] = c] /\ correlations' = [correlations EXCEPT ![e0] = c]
          /\ UNCHANGED <<neighbours, raced>> /\ e0 \in Edges
      BY <1>0, <1>7, <2>1, <2>2 DEF x, Next2, Answered2, SetProperties, At, Answer, GraphInv, GraphTyped
    <2>4. g \in OneGraphCall /\ g.edge = e0 /\ g.does = "add" /\ g.answer = "ok"
      BY <1>3, <2>1, <2>2, <2>3 DEF x
    <2>5. \A e \in Edges : Related(e)' <=> Related(e) \/ e = e0 \/ e = Back(e0)
      BY <1>0, <2>3, Backs, GraphAssumption DEF Related
    <2>6. \A e \in Edges : AsFar(c, e) => AsMade(e)'
      BY <1>0, <2>2, <2>3, <2>5 DEF AsFar, AsMade, Reached, x
    <2>7. /\ GraphTypeOK' /\ correlations' \in [Edges -> GraphCalls \cup {"none"}] /\ raced \subseteq raced'
          /\ \A e \in Edges : e[3] # e0[3] =>
               (e \in neighbours' <=> e \in neighbours) /\ properties'[e] = properties[e] /\ correlations'[e] = correlations[e]
      BY <1>0, <2>3, Backs DEF GraphTypeOK
    <2>8. g.edge = graphCall[c].edge /\ g.does = graphCall[c].does /\ g \in OneGraphCall /\ Under(c)
      BY <2>2, <2>3, <2>4 DEF x
    <2> QED
      BY <2>3, <2>4, <2>6, <2>7, <2>8, CallMoves
  <1>8. ASSUME RemoveForward(c) PROVE GraphInv'
    <2>1. PICK g : g = [graphCall[c] EXCEPT !.next = 2, !.found = WasThere(graphCall[c].edge)]
      OBVIOUS
    <2>2. PICK e0 : e0 = x
      OBVIOUS
    <2>3. /\ Under(c) /\ graphCall[c].does = "remove" /\ graphCall[c].next = 1 /\ graphCall' = [graphCall EXCEPT ![c] = g]
          /\ neighbours' = neighbours \ {e0} /\ UNCHANGED <<properties, correlations, raced>> /\ e0 \in Edges
      BY <1>0, <1>8, <2>1, <2>2 DEF x, Next2, Answered2, RemoveForward, At, GraphInv, GraphTyped
    <2>4. g \in OneGraphCall /\ g.edge = e0 /\ g.does = "remove" /\ g.next = 2 /\ g.answer = "none" /\ graphCall'[c] = g
      <3>1. WasThere(graphCall[c].edge) \in BOOLEAN
        BY DEF WasThere
      <3>2. g \in OneGraphCall /\ g.edge = e0 /\ g.does = "remove" /\ g.next = 2 /\ g.answer = "none"
        <4>1. g \in OneGraphCall /\ g.edge = graphCall[c].edge /\ g.does = graphCall[c].does /\ g.next = 2
              /\ g.answer = graphCall[c].answer
          <5>1. ASSUME NEW f \in BOOLEAN
                PROVE  LET h == [graphCall[c] EXCEPT !.next = 2, !.found = f] IN
                       /\ h \in OneGraphCall /\ h.edge = graphCall[c].edge /\ h.does = graphCall[c].does /\ h.next = 2
                       /\ h.answer = graphCall[c].answer
            <6>1. ASSUME NEW h \in OneGraphCall
                  PROVE  LET k == [h EXCEPT !.found = f] IN
                         k \in OneGraphCall /\ k.edge = h.edge /\ k.does = h.does /\ k.next = h.next /\ k.answer = h.answer
              BY DEF OneGraphCall
            <6>2. [graphCall[c] EXCEPT !.next = 2, !.found = f] = [Next2(2) EXCEPT !.found = f]
              BY DEF Next2
            <6> QED
              BY <1>2, <6>1, <6>2 DEF x
          <5>2. PICK f \in BOOLEAN : f = WasThere(graphCall[c].edge)
            BY <3>1
          <5> QED
            BY <2>1, <5>1, <5>2
        <4> QED
          BY <2>2, <2>3, <4>1 DEF Under, x
      <3> QED
        BY <1>4, <2>3, <3>2
    <2>5. \A e \in Edges : Related(e)' <=> Related(e)
      BY <2>3 DEF Related
    <2>6. \A e \in Edges : AsFar(c, e) => AsFar(c, e)'
      BY <1>4, <2>2, <2>3, <2>4, <2>5 DEF AsFar, Reached, x
    <2>7. /\ GraphTypeOK' /\ correlations' \in [Edges -> GraphCalls \cup {"none"}] /\ raced \subseteq raced'
          /\ \A e \in Edges : e[3] # e0[3] =>
               (e \in neighbours' <=> e \in neighbours) /\ properties'[e] = properties[e] /\ correlations'[e] = correlations[e]
      BY <1>0, <2>3, Backs DEF GraphTypeOK
    <2>8. g.edge = graphCall[c].edge /\ g.does = graphCall[c].does /\ g \in OneGraphCall /\ Under(c)
      BY <2>2, <2>3, <2>4 DEF x
    <2> QED
      BY <2>3, <2>4, <2>6, <2>7, <2>8, CallMoves
  <1>9. ASSUME RemoveBackward(c) PROVE GraphInv'
    <2>1. PICK g : g = Next2(3)
      OBVIOUS
    <2>2. PICK e0 : e0 = x
      OBVIOUS
    <2>3. /\ Under(c) /\ graphCall[c].does = "remove" /\ graphCall[c].next = 2 /\ graphCall' = [graphCall EXCEPT ![c] = g]
          /\ neighbours' = neighbours \ {Back(e0)} /\ UNCHANGED <<properties, correlations, raced>> /\ e0 \in Edges
      BY <1>0, <1>9, <2>1, <2>2 DEF x, Next2, Answered2, RemoveBackward, At, StepOn, GraphInv, GraphTyped
    <2>4. g \in OneGraphCall /\ g.edge = e0 /\ g.does = "remove" /\ g.next = 3 /\ g.answer = "none" /\ graphCall'[c] = g
      <3>1. g \in OneGraphCall /\ g.edge = x /\ g.does = graphCall[c].does /\ g.answer = graphCall[c].answer
            /\ g.next = 3
        BY <1>2, <2>1
      <3> QED
        BY <1>4, <2>2, <2>3, <3>1 DEF Under
    <2>5. \A e \in Edges : Related(e)' <=> Related(e)
      BY <2>3 DEF Related
    <2>6. \A e \in Edges : AsFar(c, e) => AsFar(c, e)'
      BY <2>2, <2>3, <2>4, <2>5 DEF AsFar, Reached, x
    <2>7. /\ GraphTypeOK' /\ correlations' \in [Edges -> GraphCalls \cup {"none"}] /\ raced \subseteq raced'
          /\ \A e \in Edges : e[3] # e0[3] =>
               (e \in neighbours' <=> e \in neighbours) /\ properties'[e] = properties[e] /\ correlations'[e] = correlations[e]
      BY <1>0, <2>3, Backs DEF GraphTypeOK
    <2>8. g.edge = graphCall[c].edge /\ g.does = graphCall[c].does /\ g \in OneGraphCall /\ Under(c)
      BY <2>2, <2>3, <2>4 DEF x
    <2> QED
      BY <2>3, <2>4, <2>6, <2>7, <2>8, CallMoves
  <1>10. ASSUME DropForward(c) PROVE GraphInv'
    <2>1. PICK g : g = Next2(4)
      OBVIOUS
    <2>2. PICK e0 : e0 = x
      OBVIOUS
    <2>3. /\ Under(c) /\ graphCall[c].does = "remove" /\ graphCall[c].next = 3 /\ graphCall' = [graphCall EXCEPT ![c] = g]
          /\ properties' = [properties EXCEPT ![e0] = "none"] /\ UNCHANGED <<neighbours, correlations, raced>> /\ e0 \in Edges
      BY <1>0, <1>10, <2>1, <2>2 DEF x, Next2, Answered2, DropForward, At, StepOn, GraphInv, GraphTyped
    <2>4. g \in OneGraphCall /\ g.edge = e0 /\ g.does = "remove" /\ g.next = 4 /\ g.answer = "none" /\ graphCall'[c] = g
      <3>1. g \in OneGraphCall /\ g.edge = x /\ g.does = graphCall[c].does /\ g.answer = graphCall[c].answer
            /\ g.next = 4
        BY <1>2, <2>1
      <3> QED
        BY <1>4, <2>2, <2>3, <3>1 DEF Under
    <2>5. \A e \in Edges : Related(e)' <=> Related(e)
      BY <2>3 DEF Related
    <2>6. \A e \in Edges : AsFar(c, e) => AsFar(c, e)'
      BY <1>0, <2>2, <2>3, <2>4, <2>5 DEF AsFar, Reached, x
    <2>7. /\ GraphTypeOK' /\ correlations' \in [Edges -> GraphCalls \cup {"none"}] /\ raced \subseteq raced'
          /\ \A e \in Edges : e[3] # e0[3] =>
               (e \in neighbours' <=> e \in neighbours) /\ properties'[e] = properties[e] /\ correlations'[e] = correlations[e]
      BY <1>0, <2>3, Backs DEF GraphTypeOK
    <2>8. g.edge = graphCall[c].edge /\ g.does = graphCall[c].does /\ g \in OneGraphCall /\ Under(c)
      BY <2>2, <2>3, <2>4 DEF x
    <2> QED
      BY <2>3, <2>4, <2>6, <2>7, <2>8, CallMoves
  <1>11. ASSUME DropBackward(c) PROVE GraphInv'
    <2>1. PICK g : g = Answered2(IF graphCall[c].found THEN "ok" ELSE "missing")
      OBVIOUS
    <2>2. PICK e0 : e0 = x
      OBVIOUS
    <2>3. /\ Under(c) /\ graphCall[c].does = "remove" /\ graphCall[c].next = 4 /\ graphCall' = [graphCall EXCEPT ![c] = g]
          /\ properties' = [properties EXCEPT ![Back(e0)] = "none"]
          /\ correlations' = [correlations EXCEPT ![e0] = "none", ![Back(e0)] = "none"]
          /\ UNCHANGED <<neighbours, raced>> /\ e0 \in Edges
      BY <1>0, <1>11, <2>1, <2>2 DEF x, Next2, Answered2, DropBackward, DropBack, At, Answer, GraphInv, GraphTyped
    <2>4. g \in OneGraphCall /\ g.edge = e0 /\ g.does = "remove" /\ g.answer # "none"
      BY <1>3, <2>1, <2>2, <2>3 DEF x
    <2>5. \A e \in Edges : Related(e)' <=> Related(e) /\ e # e0 /\ e # Back(e0)
      BY <1>0, <2>3, Backs DEF Related
    <2>6. \A e \in Edges : AsFar(c, e) => AsMade(e)'
      BY <1>0, <2>2, <2>3, <2>5, Backs DEF AsFar, AsMade, Reached, x
    <2>7. /\ GraphTypeOK' /\ correlations' \in [Edges -> GraphCalls \cup {"none"}] /\ raced \subseteq raced'
          /\ \A e \in Edges : e[3] # e0[3] =>
               (e \in neighbours' <=> e \in neighbours) /\ properties'[e] = properties[e] /\ correlations'[e] = correlations[e]
      BY <1>0, <2>3, Backs DEF GraphTypeOK
    <2>8. g.edge = graphCall[c].edge /\ g.does = graphCall[c].does /\ g \in OneGraphCall /\ Under(c)
      BY <2>2, <2>3, <2>4 DEF x
    <2> QED
      BY <2>3, <2>4, <2>6, <2>7, <2>8, CallMoves
  <1>12. ASSUME CallFails(c) PROVE GraphInv'
    <2>1. PICK g : g = Answered2("failed")
      OBVIOUS
    <2>2. PICK e0 : e0 = x
      OBVIOUS
    <2>3. /\ Under(c) /\ graphCall' = [graphCall EXCEPT ![c] = g] /\ raced' = raced \cup {e0[3]}
          /\ UNCHANGED <<neighbours, properties, correlations>> /\ e0 \in Edges
      BY <1>0, <1>12, <2>1, <2>2 DEF x, Next2, Answered2, CallFails, Answer, GraphInv, GraphTyped
    <2>4. g \in OneGraphCall /\ g.edge = e0 /\ g.does = graphCall[c].does /\ g.answer = "failed"
      BY <1>3, <2>1, <2>2, <2>3 DEF x
    <2>6. \A e \in Edges : e[3] # e0[3] \/ e[3] \in raced'
      BY <2>3
    <2>7. /\ GraphTypeOK' /\ correlations' \in [Edges -> GraphCalls \cup {"none"}] /\ raced \subseteq raced'
          /\ \A e \in Edges : e[3] # e0[3] =>
               (e \in neighbours' <=> e \in neighbours) /\ properties'[e] = properties[e] /\ correlations'[e] = correlations[e]
      BY <1>0, <2>3, Backs DEF GraphTypeOK
    <2>8. g.edge = graphCall[c].edge /\ g.does = graphCall[c].does /\ g \in OneGraphCall /\ Under(c)
      BY <2>2, <2>3, <2>4 DEF x
    <2> QED
      BY <2>3, <2>4, <2>6, <2>7, <2>8, CallMoves
  <1> QED
    BY <1>1, <1>5, <1>6, <1>7, <1>8, <1>9, <1>10, <1>11, <1>12

LEMMA GraphAlways == GraphSpec => []GraphInv
<1>1. GraphInv /\ UNCHANGED graphVars => GraphInv'
  BY DEF GraphInv, GraphTyped, GraphTypeOK, OneAtATime, MadeAsFar, AsMade, AsFar, Pending, Related, Reached, Under, graphVars
<1> QED
  BY <1>1, GraphStart, GraphStep, PTL DEF GraphSpec

LEMMA GraphProperties == GraphInv => GraphTypeOK /\ StoreIsGraph /\ ListedWithBoth
<1> SUFFICES ASSUME GraphInv PROVE StoreIsGraph /\ ListedWithBoth
  BY DEF GraphInv, GraphTyped
<1>1. \A e \in Settled : e \in Edges /\ AsMade(e) /\ Back(e) \in Settled
  BY Backs DEF Settled, GraphInv, MadeAsFar, Pending
<1>2. StoreIsGraph
  BY <1>1 DEF StoreIsGraph, AsMade, Related
<1>3. ASSUME NEW e \in Settled, correlations[e] # "none"
      PROVE  e \in EdgesOf(e[1]) /\ (e \in EdgesOf(e[2]) \/ \E d \in EdgesOf(e[2]) : d[1] = e[2] /\ d[2] = e[1])
  <2> DEFINE Of(f, t) == {d \in Edges : d[1] = f /\ d[2] = t /\ properties[d] # "none"}
  <2>1. e \in Edges /\ properties[e] # "none" /\ e \in neighbours /\ Back(e) \in neighbours
    BY <1>1, <1>3, Backs DEF AsMade, Related
  <2>2. e[2] \in NextTo(e[1]) /\ e[1] \in NextTo(e[2])
    BY <2>1, Backs DEF NextTo
  <2>3. e \in Of(e[1], e[2])
    BY <2>1
  <2>4. \A a, b : TypesFrom(a, b) = IF Of(a, b) # {} THEN Of(a, b) ELSE Of(b, a)
    BY DEF TypesFrom
  <2>5. e \in TypesFrom(e[1], e[2])
    BY <2>3, <2>4
  <2>6. e \in EdgesOf(e[1])
    BY <2>2, <2>5 DEF EdgesOf
  <2>7. \A d \in TypesFrom(e[2], e[1]) : d \in EdgesOf(e[2])
    BY <2>2 DEF EdgesOf
  <2>8. CASE Of(e[2], e[1]) = {}
    BY <2>3, <2>4, <2>6, <2>7, <2>8
  <2>9. CASE Of(e[2], e[1]) # {}
    <3>1. PICK d \in Of(e[2], e[1]) : TRUE
      BY <2>9
    <3> QED
      BY <2>4, <2>6, <2>7, <2>9, <3>1
  <2> QED
    BY <2>8, <2>9
<1> QED
  BY <1>2, <1>3 DEF ListedWithBoth

-----------------------------------------------------------------------------
(* The knowledge store.  A document in an index, and one that is answered,  *)
(* was indexed for its tenant; an index that a client remembers was made     *)
(* with its mapping, or was removed.                                         *)

StoreSpec == KnowledgeInit /\ [][KnowledgeNext]_knowledgeVars

OneIndex == [there : BOOLEAN, mapped : BOOLEAN, doc : StoreCalls \cup {NoRevision}]
OneRequest == [at : {"new", "check", "create", "use", "done"}, does : {"none", "index", "get", "delete", "search"},
               client : StoreClients \cup {"none"}, tenant : Tenants \cup {"none"},
               answer : StoreCalls \cup {"none", "done", "failed"}]
KnowledgeTyped ==
    /\ indices \in [Tenants -> OneIndex] /\ remembered \in [StoreClients -> SUBSET Tenants]
    /\ request \in [StoreCalls -> OneRequest] /\ wiped \subseteq Tenants
    /\ \A c \in StoreCalls : request[c].at # "new" => request[c].client \in StoreClients /\ request[c].tenant \in Tenants
    /\ \A c \in StoreCalls : request[c].answer # "none" => request[c].at = "done"
IndexedFor(d, i) == request[d].at # "new" /\ request[d].does = "index" /\ request[d].tenant = i
DocsAreOfTenants == \A i \in Tenants : \A d \in StoreCalls : indices[i].doc = d => IndexedFor(d, i)
AnswersAreOfTenants == \A c, d \in StoreCalls : request[c].answer = d => IndexedFor(d, request[c].tenant)
MadeOrWiped(i) == (indices[i].there /\ indices[i].mapped) \/ i \in wiped
IndicesAreMade ==
    /\ \A i \in Tenants : indices[i].there => MadeOrWiped(i)
    /\ \A k \in StoreClients : \A i \in remembered[k] : MadeOrWiped(i)
    /\ \A c \in StoreCalls : request[c].at = "use" => MadeOrWiped(request[c].tenant)

KnowledgeInv == KnowledgeTyped /\ DocsAreOfTenants /\ AnswersAreOfTenants /\ IndicesAreMade /\ FailuresHaveACause

LEMMA KnowledgeStart == KnowledgeInit => KnowledgeInv
  <1> SUFFICES ASSUME KnowledgeInit PROVE KnowledgeInv
    OBVIOUS
  <1>1. /\ NoIndex \in OneIndex /\ NoIndex.there = FALSE /\ NoIndex.doc = "none"
        /\ NoRequest \in OneRequest /\ NoRequest.at = "new" /\ NoRequest.answer = "none"
    BY DEF NoIndex, OneIndex, NoRequest, OneRequest, NoRevision
  <1>2. KnowledgeTyped
    BY <1>1 DEF KnowledgeInit, KnowledgeTyped
  <1> QED
    BY <1>1, <1>2, StoreAssumption DEF KnowledgeInit, KnowledgeInv, DocsAreOfTenants, AnswersAreOfTenants, IndicesAreMade,
      FailuresHaveACause

\* A call that is under way takes a step: what is to be known of it and of the indices.
LEMMA RequestMoves ==
    ASSUME KnowledgeInv, NEW c \in StoreCalls, request[c].at # "new", NEW r \in OneRequest,
           request' = [request EXCEPT ![c] = r], r.at # "new", r.does = request[c].does, r.client = request[c].client,
           r.tenant = request[c].tenant, r.answer # "none" => r.at = "done",
           indices' \in [Tenants -> OneIndex], remembered' \in [StoreClients -> SUBSET Tenants], wiped' = wiped,
           outages \subseteq outages', losers \subseteq losers',
           \A i \in Tenants : \/ indices'[i].doc \in {indices[i].doc, "none"}
                              \/ indices'[i].doc = c /\ i = r.tenant /\ r.does = "index",
           \A d \in StoreCalls : r.answer = d => indices[r.tenant].doc = d,
           \A i \in Tenants : MadeOrWiped(i) => MadeOrWiped(i)',
           \A i \in Tenants : indices'[i].there => MadeOrWiped(i)',
           \A k \in StoreClients : \A i \in remembered'[k] : i \in remembered[k] \/ MadeOrWiped(i)',
           r.at = "use" => MadeOrWiped(r.tenant)',
           r.answer = "failed" => \/ request[c].answer = "failed" \/ c \in outages' \cup losers'
                                  \/ r.does = "search" /\ r.tenant \in wiped
    PROVE  KnowledgeInv'
<1>1. request'[c] = r /\ \A d \in StoreCalls \ {c} : request'[d] = request[d]
  BY DEF KnowledgeInv, KnowledgeTyped
<1>2. r.client \in StoreClients /\ r.tenant \in Tenants
  BY DEF KnowledgeInv, KnowledgeTyped
<1>3. KnowledgeTyped'
  BY <1>1, <1>2 DEF KnowledgeInv, KnowledgeTyped
<1>4. \A d \in StoreCalls : \A i : IndexedFor(d, i)' <=> IndexedFor(d, i)
  BY <1>1 DEF IndexedFor
<1>5. DocsAreOfTenants'
  BY <1>1, <1>4, StoreAssumption DEF KnowledgeInv, DocsAreOfTenants, IndexedFor
<1>6. AnswersAreOfTenants'
  BY <1>1, <1>2, <1>4 DEF KnowledgeInv, AnswersAreOfTenants, DocsAreOfTenants
<1>7. IndicesAreMade'
  <2>1. \A k \in StoreClients : \A i \in remembered[k] : i \in Tenants /\ MadeOrWiped(i)
    BY DEF KnowledgeInv, KnowledgeTyped, IndicesAreMade
  <2>2. \A k \in StoreClients : \A i \in remembered'[k] : MadeOrWiped(i)'
    BY <2>1
  <2>3. \A d \in StoreCalls : request'[d].at = "use" => MadeOrWiped(request[d].tenant)'
    BY <1>1 DEF KnowledgeInv, KnowledgeTyped, IndicesAreMade
  <2> QED
    BY <2>2, <2>3 DEF IndicesAreMade
<1>8. FailuresHaveACause'
  BY <1>1 DEF KnowledgeInv, FailuresHaveACause, IndexOf, IndexName
<1> QED
  BY <1>3, <1>5, <1>6, <1>7, <1>8 DEF KnowledgeInv

LEMMA KnowledgeStep == KnowledgeInv /\ KnowledgeNext => KnowledgeInv'
  <1> SUFFICES ASSUME KnowledgeInv, KnowledgeNext PROVE KnowledgeInv'
    OBVIOUS
  <1>0. KnowledgeTyped /\ IndicesAreMade
    BY DEF KnowledgeInv
  <1>1. ASSUME NEW i \in Tenants, RemoveIndex(i) PROVE KnowledgeInv'
    <2>1. /\ indices' = [indices EXCEPT ![i] = NoIndex] /\ wiped' = {i} /\ wiped = {}
          /\ UNCHANGED <<remembered, request, outages, losers>>
      BY <1>1 DEF RemoveIndex
    <2>2. NoIndex \in OneIndex /\ NoIndex.doc = "none"
      BY DEF NoIndex, OneIndex, NoRevision
    <2>3. KnowledgeTyped'
      BY <1>0, <2>1, <2>2 DEF KnowledgeTyped
    <2>4. \A j \in Tenants : MadeOrWiped(j) => MadeOrWiped(j)'
      BY <1>0, <2>1 DEF MadeOrWiped, KnowledgeTyped
    <2>5. IndicesAreMade'
      <3>1. \A j \in Tenants : j = i \/ indices'[j] = indices[j]
        BY <1>0, <2>1 DEF KnowledgeTyped
      <3>2. \A j \in Tenants : indices'[j].there => MadeOrWiped(j)'
        BY <1>0, <2>1, <2>4, <3>1 DEF IndicesAreMade, MadeOrWiped
      <3>3. \A k \in StoreClients : \A j \in remembered'[k] : MadeOrWiped(j)'
        BY <1>0, <2>1, <2>4 DEF IndicesAreMade, KnowledgeTyped
      <3>4. \A c \in StoreCalls : request'[c].at = "use" => MadeOrWiped(request[c].tenant)'
        BY <1>0, <2>1, <2>4 DEF IndicesAreMade, KnowledgeTyped
      <3> QED
        BY <3>2, <3>3, <3>4 DEF IndicesAreMade
    <2>6. DocsAreOfTenants' /\ AnswersAreOfTenants'
      BY <1>0, <2>1, <2>2, StoreAssumption DEF KnowledgeInv, KnowledgeTyped, DocsAreOfTenants, AnswersAreOfTenants, IndexedFor
    <2>7. FailuresHaveACause'
      BY <2>1 DEF KnowledgeInv, FailuresHaveACause, IndexOf, IndexName
    <2> QED
      BY <2>3, <2>5, <2>6, <2>7 DEF KnowledgeInv
  <1>2. ASSUME NEW c \in StoreCalls, NEW what \in {"index", "get", "delete", "search"}, NEW from \in StoreClients,
               NEW tenant \in Tenants, BeginRequest(c, what, from, tenant) PROVE KnowledgeInv'
    <2>1. PICK r : r = [at |-> "check", does |-> what, client |-> from, tenant |-> tenant, answer |-> "none"]
      OBVIOUS
    <2>2. r \in OneRequest /\ r.at = "check" /\ r.client = from /\ r.tenant = tenant /\ r.answer = "none"
      BY <2>1 DEF OneRequest
    <2>3. request' = [request EXCEPT ![c] = r] /\ request[c].at = "new" /\ UNCHANGED <<indices, remembered, wiped, outages, losers>>
      BY <1>2, <2>1 DEF BeginRequest
    <2>4. request'[c] = r /\ \A d \in StoreCalls \ {c} : request'[d] = request[d]
      BY <1>0, <2>3 DEF KnowledgeTyped
    <2>5. KnowledgeTyped'
      BY <1>0, <2>2, <2>3, <2>4 DEF KnowledgeTyped
    <2>6. \A d \in StoreCalls : \A i : IndexedFor(d, i) => IndexedFor(d, i)'
      BY <2>3, <2>4 DEF IndexedFor
    <2>7. DocsAreOfTenants' /\ AnswersAreOfTenants'
      BY <1>0, <2>2, <2>3, <2>4, <2>6, StoreAssumption DEF KnowledgeInv, DocsAreOfTenants, AnswersAreOfTenants
    <2>8. IndicesAreMade'
      BY <1>0, <2>2, <2>3, <2>4 DEF IndicesAreMade, MadeOrWiped
    <2>9. FailuresHaveACause'
      BY <2>2, <2>3, <2>4 DEF KnowledgeInv, FailuresHaveACause, IndexOf, IndexName
    <2> QED
      BY <2>5, <2>7, <2>8, <2>9 DEF KnowledgeInv
  <1>3. ASSUME NEW c \in StoreCalls PROVE
          /\ request[c].at # "new" => request[c].client \in StoreClients /\ request[c].tenant \in Tenants
          /\ request[c] \in OneRequest
          /\ request[c].at # "done" => request[c].answer = "none"
    BY <1>0 DEF KnowledgeTyped
  \* Where a call goes, and what it answers.
  <1>4. ASSUME NEW c \in StoreCalls, NEW where \in {"create", "use"}, RequestAt(c, where), request[c].at \in {"check", "create"}
        PROVE  \E r \in OneRequest : /\ request' = [request EXCEPT ![c] = r] /\ r.at = where /\ r.does = request[c].does
                                     /\ r.client = request[c].client /\ r.tenant = request[c].tenant /\ r.answer = "none"
    <2>1. PICK r : r = [request[c] EXCEPT !.at = where]
      OBVIOUS
    <2>2. /\ r \in OneRequest /\ r.at = where /\ r.does = request[c].does
          /\ r.client = request[c].client /\ r.tenant = request[c].tenant /\ r.answer = request[c].answer
      BY <1>3, <2>1 DEF OneRequest
    <2>3. request' = [request EXCEPT ![c] = r]
      BY <1>4, <2>1 DEF RequestAt, KnowledgeTyped
    <2> QED
      BY <1>3, <1>4, <2>2, <2>3
  <1>5. ASSUME NEW c \in StoreCalls, NEW reply \in StoreCalls \cup {"none", "done", "failed"}, AnswerRequest(c, reply)
        PROVE  \E r \in OneRequest : /\ request' = [request EXCEPT ![c] = r] /\ r.at = "done" /\ r.does = request[c].does
                                     /\ r.client = request[c].client /\ r.tenant = request[c].tenant /\ r.answer = reply
    <2>1. PICK r : r = [request[c] EXCEPT !.at = "done", !.answer = reply]
      OBVIOUS
    <2>2. /\ r \in OneRequest /\ r.at = "done" /\ r.does = request[c].does
          /\ r.client = request[c].client /\ r.tenant = request[c].tenant /\ r.answer = reply
      BY <1>3, <2>1 DEF OneRequest
    <2>3. request' = [request EXCEPT ![c] = r]
      BY <1>5, <2>1 DEF AnswerRequest, KnowledgeTyped
    <2> QED
      BY <2>2, <2>3
  <1>6. UNCHANGED <<indices, wiped>> =>
            /\ \A i \in Tenants : (MadeOrWiped(i)' <=> MadeOrWiped(i)) /\ (indices'[i].there => MadeOrWiped(i)')
            /\ \A i \in Tenants : indices'[i].doc = indices[i].doc
            /\ indices' \in [Tenants -> OneIndex]
    BY <1>0 DEF MadeOrWiped, IndicesAreMade, KnowledgeTyped
  <1>7. ASSUME NEW c \in StoreCalls, CheckIndex(c) PROVE KnowledgeInv'
    <2>1. request[c].at = "check" /\ UNCHANGED <<indices, wiped, outages, losers>>
      BY <1>7 DEF CheckIndex
    <2>2. /\ remembered' \in [StoreClients -> SUBSET Tenants]
          /\ \A k \in StoreClients : \A i \in remembered'[k] : i \in remembered[k] \/ (indices[i].there /\ i \in Tenants)
          /\ \E where \in {"create", "use"} : /\ RequestAt(c, where)
                                              /\ where = "use" => MadeOrWiped(request[c].tenant)
      <3>1. CASE IndexOf(c) \in KnownTo(c)
        BY <1>0, <1>3, <1>7, <2>1, <3>1 DEF CheckIndex, KnowledgeTyped, IndicesAreMade, IndexOf, IndexName, KnownTo
      <3>2. CASE IndexOf(c) \notin KnownTo(c) /\ indices[IndexOf(c)].there
        <4>1. RequestAt(c, "use") /\ remembered' = [remembered EXCEPT ![request[c].client] = @ \cup {request[c].tenant}]
          BY <1>7, <3>2 DEF CheckIndex, Remember, IndexOf, IndexName
        <4>2. request[c].client \in StoreClients /\ request[c].tenant \in Tenants /\ indices[request[c].tenant].there
          BY <1>3, <2>1, <3>2 DEF IndexOf, IndexName
        <4> QED
          BY <1>0, <4>1, <4>2 DEF KnowledgeTyped, IndicesAreMade
      <3>3. CASE IndexOf(c) \notin KnownTo(c) /\ ~indices[IndexOf(c)].there
        BY <1>0, <1>7, <3>3 DEF CheckIndex, KnowledgeTyped
      <3> QED
        BY <3>1, <3>2, <3>3
    <2>3. PICK where \in {"create", "use"} : RequestAt(c, where) /\ (where = "use" => MadeOrWiped(request[c].tenant))
      BY <2>2
    <2>4. PICK r \in OneRequest : /\ request' = [request EXCEPT ![c] = r] /\ r.at = where /\ r.does = request[c].does
                                  /\ r.client = request[c].client /\ r.tenant = request[c].tenant /\ r.answer = "none"
      BY <1>4, <2>1, <2>3
    <2>5. \A k \in StoreClients : \A i \in remembered'[k] : i \in remembered[k] \/ MadeOrWiped(i)'
      BY <1>0, <1>6, <2>1, <2>2 DEF IndicesAreMade
    <2>6. r.at = "use" => MadeOrWiped(r.tenant)'
      BY <1>3, <1>6, <2>1, <2>3, <2>4
    <2> QED
      BY <1>6, <2>1, <2>2, <2>4, <2>5, <2>6, RequestMoves, StoreAssumption
  <1>8. ASSUME NEW c \in StoreCalls, CreateIndex(c) PROVE KnowledgeInv'
    <2>0. request[c].at = "create" /\ UNCHANGED <<wiped, outages>> /\ request[c].client \in StoreClients
          /\ request[c].tenant \in Tenants /\ request[c].answer = "none"
      BY <1>3, <1>8 DEF CreateIndex
    <2>1. CASE indices[IndexOf(c)].there
      <3>1. AnswerRequest(c, "failed") /\ losers' = losers \cup {c} /\ UNCHANGED <<indices, remembered>>
        BY <1>8, <2>1 DEF CreateIndex
      <3>2. PICK r \in OneRequest : /\ request' = [request EXCEPT ![c] = r] /\ r.at = "done" /\ r.does = request[c].does
                                    /\ r.client = request[c].client /\ r.tenant = request[c].tenant /\ r.answer = "failed"
        BY <1>5, <3>1
      <3>3. remembered' \in [StoreClients -> SUBSET Tenants]
        BY <1>0, <3>1 DEF KnowledgeTyped
      <3> QED
        BY <1>6, <2>0, <3>1, <3>2, <3>3, RequestMoves, StoreAssumption
    <2>2. CASE ~indices[IndexOf(c)].there
      <3>1. PICK i \in Tenants : i = request[c].tenant
        BY <2>0
      <3>2. /\ RequestAt(c, "use") /\ indices' = [indices EXCEPT ![i].there = TRUE, ![i].mapped = TRUE] /\ losers' = losers
            /\ remembered' = [remembered EXCEPT ![request[c].client] = @ \cup {i}]
        BY <1>8, <2>2, <3>1 DEF CreateIndex, Created, Remember, IndexOf, IndexName
      <3>3. PICK r \in OneRequest : /\ request' = [request EXCEPT ![c] = r] /\ r.at = "use" /\ r.does = request[c].does
                                    /\ r.client = request[c].client /\ r.tenant = request[c].tenant /\ r.answer = "none"
        BY <1>4, <2>0, <3>2
      <3>4. /\ indices' \in [Tenants -> OneIndex] /\ indices'[i].there /\ indices'[i].mapped /\ indices'[i].doc = indices[i].doc
            /\ \A j \in Tenants \ {i} : indices'[j] = indices[j]
        BY <1>0, <3>2 DEF KnowledgeTyped, OneIndex
      <3>5. MadeOrWiped(i)' /\ \A j \in Tenants : MadeOrWiped(j) => MadeOrWiped(j)'
        BY <2>0, <3>4 DEF MadeOrWiped
      <3>6. \A j \in Tenants : indices'[j].there => MadeOrWiped(j)'
        BY <1>0, <3>4, <3>5 DEF IndicesAreMade
      <3>7. /\ remembered' \in [StoreClients -> SUBSET Tenants]
            /\ \A k \in StoreClients : \A j \in remembered'[k] : j \in remembered[k] \/ j = i
        BY <1>0, <3>2 DEF KnowledgeTyped
      <3>8. /\ \A j \in Tenants : indices'[j].doc = indices[j].doc
            /\ \A k \in StoreClients : \A j \in remembered'[k] : j \in remembered[k] \/ MadeOrWiped(j)'
            /\ MadeOrWiped(r.tenant)'
        BY <3>1, <3>3, <3>4, <3>5, <3>7
      <3>9. /\ request[c].at # "new" /\ r.at # "new" /\ outages \subseteq outages' /\ losers \subseteq losers' /\ wiped' = wiped
            /\ r.answer # "none" => r.at = "done"
            /\ \A j \in Tenants : \/ indices'[j].doc \in {indices[j].doc, "none"}
                                  \/ indices'[j].doc = c /\ j = r.tenant /\ r.does = "index"
            /\ \A d \in StoreCalls : r.answer = d => indices[r.tenant].doc = d
            /\ r.answer = "failed" => \/ request[c].answer = "failed" \/ c \in outages' \cup losers'
                                      \/ r.does = "search" /\ r.tenant \in wiped
        BY <2>0, <3>2, <3>3, <3>8, StoreAssumption
      <3> QED
        BY <3>3, <3>4, <3>5, <3>6, <3>7, <3>8, <3>9, RequestMoves
    <2> QED
      BY <2>1, <2>2
  \* A call that is answered, and what it does to the document.
  <1>9. ASSUME NEW c \in StoreCalls, request[c].at \in {"check", "create", "use"}, NEW reply \in StoreCalls \cup {"none", "done", "failed"},
               AnswerRequest(c, reply), UNCHANGED <<remembered, wiped, losers>>, outages \subseteq outages',
               \A d \in StoreCalls : reply = d => indices[request[c].tenant].doc = d,
               reply = "failed" => c \in outages' \/ (request[c].does = "search" /\ request[c].tenant \in wiped),
               \/ indices' = indices
               \/ /\ request[c].at = "use" /\ request[c].does = "index"
                  /\ indices' = [indices EXCEPT ![request[c].tenant].there = TRUE, ![request[c].tenant].doc = c]
               \/ indices' = [indices EXCEPT ![request[c].tenant].doc = "none"]
        PROVE  KnowledgeInv'
    <2>1. PICK r \in OneRequest : /\ request' = [request EXCEPT ![c] = r] /\ r.at = "done" /\ r.does = request[c].does
                                  /\ r.client = request[c].client /\ r.tenant = request[c].tenant /\ r.answer = reply
      BY <1>5, <1>9
    <2>2. PICK i \in Tenants : i = request[c].tenant
      BY <1>3, <1>9
    <2>3. /\ indices' \in [Tenants -> OneIndex] /\ \A j \in Tenants \ {i} : indices'[j] = indices[j]
          /\ indices'[i].mapped = indices[i].mapped /\ (indices[i].there => indices'[i].there)
          /\ indices'[i].doc \in {indices[i].doc, "none"} \/ (indices'[i].doc = c /\ r.does = "index")
          /\ indices'[i].there => (indices[i].there \/ request[c].at = "use")
      <3>1. CASE indices' = indices
        BY <1>0, <3>1 DEF KnowledgeTyped
      <3>2. CASE /\ request[c].at = "use" /\ request[c].does = "index"
                 /\ indices' = [indices EXCEPT ![i].there = TRUE, ![i].doc = c]
        BY <1>0, <2>1, <3>2 DEF KnowledgeTyped, OneIndex
      <3>3. CASE indices' = [indices EXCEPT ![i].doc = "none"]
        BY <1>0, <3>3 DEF KnowledgeTyped, OneIndex, NoRevision
      <3> QED
        BY <1>9, <2>2, <3>1, <3>2, <3>3
    <2>4. \A j \in Tenants : MadeOrWiped(j) => MadeOrWiped(j)'
      BY <1>9, <2>3 DEF MadeOrWiped
    <2>5. \A j \in Tenants : indices'[j].there => MadeOrWiped(j)'
      BY <1>0, <2>2, <2>3, <2>4 DEF IndicesAreMade
    <2>6. \A j \in Tenants : indices'[j].doc \in {indices[j].doc, "none"} \/ (indices'[j].doc = c /\ j = r.tenant /\ r.does = "index")
      BY <2>1, <2>2, <2>3
    <2>7. remembered' \in [StoreClients -> SUBSET Tenants]
      BY <1>0, <1>9 DEF KnowledgeTyped
    <2>8. /\ \A d \in StoreCalls : r.answer = d => indices[r.tenant].doc = d
          /\ \A k \in StoreClients : \A j \in remembered'[k] : j \in remembered[k] \/ MadeOrWiped(j)'
          /\ r.answer = "failed" => \/ request[c].answer = "failed" \/ c \in outages' \cup losers'
                                    \/ r.does = "search" /\ r.tenant \in wiped
      BY <1>9, <2>1
    <2> QED
      BY <1>9, <2>1, <2>3, <2>4, <2>5, <2>6, <2>7, <2>8, RequestMoves
  <1>10. ASSUME NEW c \in StoreCalls, IndexDocument(c) PROVE KnowledgeInv'
    BY <1>9, <1>10, StoreAssumption DEF IndexDocument, Using, NoHistory, IndexOf, IndexName
  <1>11. ASSUME NEW c \in StoreCalls, GetDocument(c) PROVE KnowledgeInv'
    <2>1. request[c].tenant \in Tenants
      BY <1>3, <1>11 DEF GetDocument, Using
    <2>2. indices[request[c].tenant].doc \in StoreCalls \cup {"none"}
      BY <1>0, <2>1 DEF KnowledgeTyped, OneIndex, NoRevision
    <2> QED
      BY <1>9, <1>11, <2>2, StoreAssumption DEF GetDocument, Using, NoHistory, IndexOf, IndexName
  <1>12. ASSUME NEW c \in StoreCalls, DeleteDocument(c) PROVE KnowledgeInv'
    BY <1>9, <1>12, StoreAssumption DEF DeleteDocument, Using, NoHistory, IndexOf, IndexName, NoRevision
  <1>13. ASSUME NEW c \in StoreCalls, NEW reply \in StoreCalls \cup {NoRevision}, SearchDocuments(c, reply) PROVE KnowledgeInv'
    <2>1. /\ request[c].at = "use" /\ request[c].does = "search" /\ reply \in {"none", indices[request[c].tenant].doc}
          /\ UNCHANGED <<indices, remembered, wiped, outages, losers>> /\ request[c].tenant \in Tenants
      BY <1>3, <1>13 DEF SearchDocuments, Using, NoHistory, IndexOf, IndexName, NoRevision
    <2>2. CASE indices[request[c].tenant].there /\ indices[request[c].tenant].mapped
      <3>1. AnswerRequest(c, reply)
        BY <1>13, <2>2 DEF SearchDocuments, IndexOf, IndexName
      <3>2. reply \in StoreCalls \cup {"none", "done", "failed"} /\ reply # "failed"
        BY StoreAssumption DEF NoRevision
      <3> QED
        BY <1>9, <2>1, <3>1, <3>2, StoreAssumption
    <2>3. CASE ~(indices[request[c].tenant].there /\ indices[request[c].tenant].mapped)
      <3>1. AnswerRequest(c, "failed")
        BY <1>13, <2>3 DEF SearchDocuments, IndexOf, IndexName
      <3>2. request[c].tenant \in wiped
        BY <1>0, <2>1, <2>3 DEF IndicesAreMade, MadeOrWiped
      <3> QED
        BY <1>9, <2>1, <3>1, <3>2, StoreAssumption
    <2> QED
      BY <2>2, <2>3
  <1>14. ASSUME NEW c \in StoreCalls, OutageHits(c) PROVE KnowledgeInv'
    <2>1. /\ request[c].at \in {"check", "create", "use"} /\ AnswerRequest(c, "failed") /\ outages' = outages \cup {c}
          /\ UNCHANGED <<remembered, wiped, losers>>
          /\ \/ indices' = indices
             \/ /\ request[c].at = "use" /\ request[c].does = "index"
                /\ indices' = [indices EXCEPT ![request[c].tenant].there = TRUE, ![request[c].tenant].doc = c]
             \/ indices' = [indices EXCEPT ![request[c].tenant].doc = "none"]
      BY <1>14, Zenon DEF OutageHits, Using, IndexOf, IndexName, NoRevision
    <2> QED
      BY <1>9, <2>1, StoreAssumption
  <1> QED
    BY <1>1, <1>2, <1>7, <1>8, <1>10, <1>11, <1>12, <1>13, <1>14 DEF KnowledgeNext

LEMMA KnowledgeAlways == StoreSpec => []KnowledgeInv
<1>1. KnowledgeInv /\ UNCHANGED knowledgeVars => KnowledgeInv'
  BY DEF KnowledgeInv, KnowledgeTyped, DocsAreOfTenants, AnswersAreOfTenants, IndexedFor, IndicesAreMade, MadeOrWiped,
    FailuresHaveACause, IndexOf, IndexName, knowledgeVars
<1> QED
  BY <1>1, KnowledgeStart, KnowledgeStep, PTL DEF StoreSpec

LEMMA KnowledgeProperties == KnowledgeInv => TenantsAreApart /\ FailuresHaveACause
  BY DEF KnowledgeInv, AnswersAreOfTenants, TenantsAreApart, IndexedFor

-----------------------------------------------------------------------------
(* Documents.  The schemas are looked up class by class: those of agents   *)
(* need nothing, have parts that need nothing, and only three classes say   *)
(* yes without their verdict.                                               *)

DocumentSpec == DocumentInit /\ [][DocumentNext]_documentVars

Agents == {"Risk", "TechnologyChoice", "TechSurvey", "Interface", "DataFlow", "DiagramReference", "Component",
    "Architecture", "ImplementationTask", "Phase", "ImplementationPlan", "Requirement", "PRDSection",
    "PRDDocument", "AcceptanceCriterion", "CoverageEntry", "AcceptanceCriteria", "TestCase", "TestSuite",
    "CodeFile", "Implementation", "TestResult", "TestRunResult", "ReviewIssue", "CodeReview", "CodeChange",
    "DebugAnalysis", "ValidationCheck", "ValidationReport", "SecurityFinding", "SecurityReport",
    "ArtifactReference", "ReleaseManifest", "DeploymentStep", "HealthCheck", "DeploymentPlan",
    "MetricDefinition", "AlertRule", "DashboardConfig", "MonitoringConfig"}
Explorations == {"ToolCall", "Citation", "Finding", "ExplorationStep", "ExplorationTrajectory", "RLMUsage", "RLMResult",
    "SymbolInfo", "ImportInfo", "ParsedFile", "ASTContext"}
ClassNames == Agents \cup Explorations
SayYes == {"TestRunResult", "CoverageEntry", "Finding"}

LEMMA SchemaOfAgents == \A n \in Agents :
    Schema[n].needs = {} /\ Schema[n].parts \subseteq Agents /\ (Schema[n].says = "yes" => n \in SayYes)
<1>1. \A n \in {"Risk", "TechnologyChoice", "TechSurvey", "Interface", "DataFlow", "DiagramReference", "Component",
                "Architecture", "ImplementationTask", "Phase", "ImplementationPlan", "Requirement", "PRDSection",
                "PRDDocument"} :
          Schema[n].needs = {} /\ Schema[n].parts \subseteq Agents /\ (Schema[n].says = "yes" => n \in SayYes)
  BY DEF Schema, Agents, SayYes, Lenient, Class, Risk, TechnologyChoice, TechSurvey, Interface, DataFlow, DiagramReference,
    Component, Architecture, ImplementationTask, Phase, ImplementationPlan, Requirement, PRDSection, PRDDocument
<1>2. \A n \in {"AcceptanceCriterion", "CoverageEntry", "AcceptanceCriteria", "TestCase", "TestSuite",
                "CodeFile", "Implementation", "TestResult", "TestRunResult", "ReviewIssue", "CodeReview", "CodeChange",
                "DebugAnalysis"} :
          Schema[n].needs = {} /\ Schema[n].parts \subseteq Agents /\ (Schema[n].says = "yes" => n \in SayYes)
  BY DEF Schema, Agents, SayYes, Lenient, Class, AcceptanceCriterion, CoverageEntry, AcceptanceCriteria, TestCase, TestSuite,
    CodeFile, Implementation, TestResult, TestRunResult, ReviewIssue, CodeReview, CodeChange, DebugAnalysis
<1>3. \A n \in {"ValidationCheck", "ValidationReport", "SecurityFinding", "SecurityReport",
                "ArtifactReference", "ReleaseManifest", "DeploymentStep", "HealthCheck", "DeploymentPlan",
                "MetricDefinition", "AlertRule", "DashboardConfig", "MonitoringConfig"} :
          Schema[n].needs = {} /\ Schema[n].parts \subseteq Agents /\ (Schema[n].says = "yes" => n \in SayYes)
  BY DEF Schema, Agents, SayYes, Lenient, Class, ValidationCheck, ValidationReport, SecurityFinding, SecurityReport,
    ArtifactReference, ReleaseManifest, DeploymentStep, HealthCheck, DeploymentPlan, MetricDefinition, AlertRule,
    DashboardConfig, MonitoringConfig
<1> QED
  BY <1>1, <1>2, <1>3 DEF Agents

LEMMA SchemaOfExplorations == \A n \in Explorations :
    Schema[n].parts \subseteq Explorations /\ (Schema[n].says = "yes" => n \in SayYes)
  BY DEF Schema, Explorations, SayYes, Class, ToolCall, Citation, Finding, ExplorationStep, ExplorationTrajectory,
    RLMUsage, RLMResult, SymbolInfo, ImportInfo, ParsedFile, ASTContext

LEMMA RootClasses == Roots \subseteq Agents \cup {"RLMResult", "ASTContext"}
  BY DEF Roots, Readers, InDiscovery, InDesign, InDevelopment, InDeployment, InReleases, InAudits, InCaches, Agents

\* The parts of a class are classes, and those of a class that needs nothing need nothing.
LEMMA PartsWithin ==
    ASSUME NEW root \in Roots, NEW n \in WithinPaper(root)
    PROVE  /\ n \in ClassNames
           /\ root \notin {"RLMResult", "ASTContext"} => Schema[n].needs = {}
           /\ Schema[n].says = "yes" => n \in SayYes
<1>1. \A names \in SUBSET Agents : PartsOf(names) \subseteq Agents
  BY SchemaOfAgents DEF PartsOf
<1>2. \A names \in SUBSET Explorations : PartsOf(names) \subseteq Explorations
  BY SchemaOfExplorations DEF PartsOf
<1>5. root \in Agents \/ root \in {"RLMResult", "ASTContext"}
  BY RootClasses
<1>3. CASE root \in Agents
  <2>1. WithinPaper(root) \subseteq Agents
    BY <1>1, <1>3 DEF WithinPaper
  <2> QED
    BY <2>1, SchemaOfAgents DEF ClassNames
<1>4. CASE root \in {"RLMResult", "ASTContext"}
  <2>1. WithinPaper(root) \subseteq Explorations
    <3>1. {root} \subseteq Explorations
      BY <1>4 DEF Explorations
    <3> QED
      BY <1>2, <3>1 DEF WithinPaper
  <2> QED
    BY <1>4, <2>1, SchemaOfExplorations DEF ClassNames
<1> QED
  BY <1>3, <1>4, <1>5

LEMMA ClassesSayYes == \A n \in ClassNames : Schema[n].says = "yes" => n \in SayYes
  BY SchemaOfAgents, SchemaOfExplorations DEF ClassNames

OneReading == [outcome : {"read", "none", "raised"}, yes : SUBSET ClassNames, date : Nat]
OnePaper(faults) == [class : Roots \cup {"none"}, fault : faults \cup {NoFault}, yes : SUBSET ClassNames,
                     unsaid : SUBSET ClassNames, date : Nat]
UndatedOnce == \E f \in harm : f.is = "absent" /\ f.key = "created_at"
DocumentTyped == paper \in OnePaper(harm) /\ readings \in Seq(OneReading) /\ intent \subseteq ClassNames
BlankIsNew == paper.class = "none" => paper = NoPaper /\ readings = <<>> /\ harm = {}
FaultsAreWithin == \A f \in harm : f.within \in WithinPaper(paper.class)
UnharmedIsWritten == harm = {} => paper.yes = intent /\ paper.unsaid = {} /\ paper.date = 0
YesIsIntended == paper.yes \subseteq intent \cup SayYes
DateIsWritten == ~UndatedOnce => paper.date = 0 /\ \A i \in DOMAIN readings : readings[i].date = 0

DocumentInv == /\ DocumentTyped /\ BlankIsNew /\ FaultsAreWithin /\ UnharmedIsWritten /\ YesIsIntended /\ DateIsWritten
               /\ WrittenIsRead /\ VerdictsAreClosed /\ LackingIsRead

LEMMA DocumentStart == DocumentInit => DocumentInv
  <1> SUFFICES ASSUME DocumentInit PROVE DocumentInv
    OBVIOUS
  <1>1. /\ NoPaper.class = "none" /\ NoPaper.fault = NoFault /\ NoPaper.yes = {} /\ NoPaper.unsaid = {} /\ NoPaper.date = 0
        /\ NoPaper \in OnePaper({})
    BY DEF NoPaper, OnePaper
  <1>2. DocumentTyped
    BY <1>1 DEF DocumentInit, DocumentTyped
  <1> QED
    BY <1>1, <1>2 DEF DocumentInit, DocumentInv, BlankIsNew, FaultsAreWithin, UnharmedIsWritten, YesIsIntended, DateIsWritten,
      WrittenIsRead, VerdictsAreClosed, LackingIsRead

\* How a reading may fail.
LEMMA HowPapersFail ==
    ASSUME DocumentInv, paper.class \in Roots, HowItFails(paper.fault) # "no"
    PROVE  \E f \in harm : f.is = "wrong" \/ paper.class \in {"RLMResult", "ASTContext"}
<1>1. paper.fault.is = "wrong" \/ (paper.fault.is = "absent" /\ paper.fault.key \in Schema[paper.fault.within].needs)
  BY DEF HowItFails
<1>2. paper.fault \in harm \cup {NoFault} /\ NoFault.is = "none"
  BY DEF DocumentInv, DocumentTyped, OnePaper, NoFault
<1>3. paper.fault \in harm
  BY <1>1, <1>2
<1>4. paper.class \notin {"RLMResult", "ASTContext"} => Schema[paper.fault.within].needs = {}
  BY <1>3, PartsWithin DEF DocumentInv, FaultsAreWithin
<1> QED
  BY <1>1, <1>3, <1>4

LEMMA DocumentStep == DocumentInv /\ DocumentNext => DocumentInv'
  <1> SUFFICES ASSUME DocumentInv, DocumentNext PROVE DocumentInv'
    OBVIOUS
  <1>0. DocumentTyped /\ "none" \notin Roots
    BY RootClasses DEF DocumentInv, Agents
  <1>1. ASSUME NEW root \in Roots, NEW says \in {{}, Saying(root)}, WritePaper(root, says) PROVE DocumentInv'
    <2>1. PICK p : p = AsWritten(root, says)
      OBVIOUS
    <2>2. p.class = root /\ p.fault = NoFault /\ p.yes = says /\ p.unsaid = {} /\ p.date = 0
      BY <2>1 DEF AsWritten, NoPaper
    <2>3. says \subseteq ClassNames
      BY PartsWithin DEF Saying
    <2>4. p \in OnePaper({})
      BY <2>1, <2>3 DEF AsWritten, NoPaper, OnePaper
    <2>5. paper = NoPaper /\ paper' = p /\ intent' = says /\ readings' = readings /\ harm' = harm
      BY <1>1, <2>1 DEF WritePaper
    <2>6. readings = <<>> /\ harm = {}
      BY <2>5 DEF DocumentInv, BlankIsNew, NoPaper
    <2>7. DocumentTyped'
      BY <1>0, <2>3, <2>4, <2>5, <2>6 DEF DocumentTyped
    <2> QED
      BY <1>0, <2>2, <2>5, <2>6, <2>7 DEF DocumentInv, BlankIsNew, FaultsAreWithin, UnharmedIsWritten, YesIsIntended,
        DateIsWritten, WrittenIsRead, VerdictsAreClosed, LackingIsRead
  <1>2. paper # NoPaper => paper.class \in Roots
    BY <1>0 DEF DocumentInv, BlankIsNew, DocumentTyped, OnePaper
  <1>3. ASSUME paper # NoPaper, NEW fault \in Faults(paper.class), EditPaper(fault) PROVE DocumentInv'
    <2>1. fault.within \in WithinPaper(paper.class)
      BY <1>3 DEF Faults
    <2>2. fault.within \in ClassNames
      BY <1>2, <1>3, <2>1, PartsWithin
    <2>3. harm = {} /\ harm' = {fault} /\ readings' = readings /\ intent' = intent
      BY <1>3 DEF EditPaper
    <2>4. paper' \in OnePaper(harm') /\ paper'.class = paper.class /\ paper'.yes \subseteq paper.yes /\ paper'.date = paper.date
      <3>1. CASE fault.key = "verdict"
        <4>1. paper' = [paper EXCEPT !.fault = fault, !.unsaid = {fault.within}, !.yes = @ \ {fault.within}]
          BY <1>3, <3>1 DEF EditPaper
        <4> QED
          BY <1>0, <2>2, <2>3, <4>1 DEF DocumentTyped, OnePaper
      <3>2. CASE fault.key # "verdict"
        <4>1. paper' = [paper EXCEPT !.fault = fault]
          BY <1>3, <3>2 DEF EditPaper
        <4> QED
          BY <1>0, <2>2, <2>3, <4>1 DEF DocumentTyped, OnePaper
      <3> QED
        BY <3>1, <3>2
    <2>5. DocumentTyped' /\ BlankIsNew' /\ FaultsAreWithin' /\ UnharmedIsWritten' /\ YesIsIntended'
      BY <1>0, <1>2, <1>3, <2>1, <2>3, <2>4 DEF DocumentInv, DocumentTyped, BlankIsNew, FaultsAreWithin, UnharmedIsWritten, YesIsIntended
    <2>6. DateIsWritten'
      BY <2>3, <2>4 DEF DocumentInv, DateIsWritten, UndatedOnce
    <2>7. WrittenIsRead' /\ VerdictsAreClosed' /\ LackingIsRead'
      BY <2>3, <2>4 DEF DocumentInv, WrittenIsRead, VerdictsAreClosed, LackingIsRead
    <2> QED
      BY <2>5, <2>6, <2>7 DEF DocumentInv
  <1>4. SeemYes \subseteq ClassNames /\ SeemYes \subseteq intent \cup SayYes
    BY <1>0, ClassesSayYes DEF DocumentInv, DocumentTyped, OnePaper, YesIsIntended, SeemYes
  <1>5. DateRead \in Nat /\ (~UndatedOnce => DateRead = 0)
    <2>1. Undated => UndatedOnce
      <3>1. paper.fault \in harm \cup {NoFault} /\ NoFault.is = "none"
        BY <1>0 DEF DocumentTyped, OnePaper, NoFault
      <3> QED
        BY <3>1 DEF Undated, UndatedOnce
    <2>2. Len(readings) \in Nat /\ paper.date \in Nat
      BY <1>0 DEF DocumentTyped, OnePaper
    <2> QED
      BY <2>1, <2>2 DEF DocumentInv, DateIsWritten, DateRead
  <1>6. harm = {} => SeemYes = intent /\ DateRead = 0 /\ HowItFails(paper.fault) = "no"
    <2>1. harm = {} => SeemYes = intent
      BY DEF DocumentInv, UnharmedIsWritten, SeemYes
    <2>2. harm = {} => HowItFails(paper.fault) = "no"
      BY <1>0 DEF DocumentTyped, OnePaper, NoFault, HowItFails
    <2> QED
      BY <1>5, <2>1, <2>2 DEF UndatedOnce
  <1>7. ASSUME NEW by \in Readers, ReadPaper(by) PROVE DocumentInv'
    <2>1. paper.class \in Roots /\ paper # NoPaper
      BY <1>0, <1>7 DEF ReadPaper, Roots, NoPaper
    <2>2. PICK e : /\ readings' = Append(readings, e)
                   /\ HowItFails(paper.fault) = "no" => e = [outcome |-> "read", yes |-> SeemYes, date |-> DateRead]
                   /\ HowItFails(paper.fault) # "no" =>
                        e \in {[outcome |-> "none", yes |-> {}, date |-> 0], [outcome |-> "raised", yes |-> {}, date |-> 0]}
      BY <1>7 DEF ReadPaper
    <2>3. /\ e \in OneReading /\ e.yes \subseteq intent \cup SayYes /\ (~UndatedOnce => e.date = 0)
          /\ e.outcome # "read" => HowItFails(paper.fault) # "no"
          /\ harm = {} => e = [outcome |-> "read", yes |-> intent, date |-> 0]
      <3>1. CASE HowItFails(paper.fault) = "no"
        BY <1>4, <1>5, <1>6, <2>2, <3>1 DEF OneReading
      <3>2. CASE HowItFails(paper.fault) # "no"
        BY <1>6, <2>2, <3>2 DEF OneReading
      <3> QED
        BY <3>1, <3>2
    <2>4. UNCHANGED <<paper, intent, harm>>
      BY <1>7 DEF ReadPaper
    <2>5. readings' \in Seq(OneReading) /\ \A i \in DOMAIN readings' : readings'[i] = e \/ (i \in DOMAIN readings /\ readings'[i] = readings[i])
      BY <1>0, <2>2, <2>3 DEF DocumentTyped
    <2>6. DocumentTyped' /\ FaultsAreWithin' /\ UnharmedIsWritten' /\ YesIsIntended'
      BY <1>0, <2>4, <2>5 DEF DocumentInv, DocumentTyped, FaultsAreWithin, UnharmedIsWritten, YesIsIntended
    <2>7. BlankIsNew'
      BY <1>0, <2>1, <2>4 DEF BlankIsNew
    <2>8. DateIsWritten'
      BY <2>3, <2>4, <2>5 DEF DocumentInv, DateIsWritten, UndatedOnce
    <2>9. WrittenIsRead' /\ VerdictsAreClosed'
      BY <2>3, <2>4, <2>5 DEF DocumentInv, WrittenIsRead, VerdictsAreClosed, SayYes
    <2>10. LackingIsRead'
      BY <2>1, <2>3, <2>4, <2>5, HowPapersFail DEF DocumentInv, LackingIsRead
    <2> QED
      BY <2>6, <2>7, <2>8, <2>9, <2>10 DEF DocumentInv
  <1>8. ASSUME RewritePaper PROVE DocumentInv'
    <2>1. /\ readings # <<>> /\ paper.fault # NoFault /\ UNCHANGED <<readings, intent, harm>>
          /\ paper' = [AsWritten(paper.class, readings[Len(readings)].yes) EXCEPT !.date = readings[Len(readings)].date]
      BY <1>8 DEF RewritePaper
    <2>2. Len(readings) \in DOMAIN readings /\ readings[Len(readings)] \in OneReading
      BY <1>0, <2>1 DEF DocumentTyped
    <2>3. PICK e \in OneReading : e = readings[Len(readings)]
      BY <2>2
    <2>4. e.yes \subseteq intent \cup SayYes /\ (~UndatedOnce => e.date = 0)
      BY <2>2, <2>3 DEF DocumentInv, VerdictsAreClosed, DateIsWritten, SayYes
    <2>5. harm # {}
      BY <1>0, <2>1 DEF DocumentTyped, OnePaper
    <2>6. PICK p : p = [AsWritten(paper.class, e.yes) EXCEPT !.date = e.date]
      OBVIOUS
    <2>7. p.class = paper.class /\ p.fault = NoFault /\ p.yes = e.yes /\ p.date = e.date /\ p \in OnePaper(harm)
      BY <1>0, <2>6 DEF DocumentTyped, OnePaper, OneReading, AsWritten, NoPaper
    <2>8. paper' = p
      BY <2>1, <2>3, <2>6
    <2>9. DocumentTyped' /\ FaultsAreWithin' /\ UnharmedIsWritten' /\ YesIsIntended'
      BY <1>0, <2>1, <2>4, <2>5, <2>7, <2>8 DEF DocumentInv, DocumentTyped, FaultsAreWithin, UnharmedIsWritten, YesIsIntended
    <2>10. BlankIsNew'
      BY <2>1, <2>7, <2>8 DEF DocumentInv, BlankIsNew
    <2>11. DateIsWritten'
      BY <2>1, <2>4, <2>7, <2>8 DEF DocumentInv, DateIsWritten, UndatedOnce
    <2>12. WrittenIsRead' /\ VerdictsAreClosed' /\ LackingIsRead'
      BY <2>1, <2>7, <2>8 DEF DocumentInv, WrittenIsRead, VerdictsAreClosed, LackingIsRead
    <2> QED
      BY <2>9, <2>10, <2>11, <2>12 DEF DocumentInv
  <1> QED
    BY <1>1, <1>3, <1>7, <1>8 DEF DocumentNext

LEMMA DocumentAlways == DocumentSpec => []DocumentInv
<1>1. DocumentInv /\ UNCHANGED documentVars => DocumentInv'
  BY DEF DocumentInv, DocumentTyped, BlankIsNew, FaultsAreWithin, UnharmedIsWritten, YesIsIntended, DateIsWritten, UndatedOnce,
    WrittenIsRead, VerdictsAreClosed, LackingIsRead, documentVars
<1> QED
  BY <1>1, DocumentStart, DocumentStep, PTL DEF DocumentSpec

LEMMA DocumentProperties == DocumentInv => WrittenIsRead /\ VerdictsAreClosed /\ LackingIsRead /\ DatesStand
<1> SUFFICES ASSUME DocumentInv PROVE DatesStand
  BY DEF DocumentInv
<1>1. ~UndatedOnce => \A i \in DOMAIN readings : readings[i].date = 0
  BY DEF DocumentInv, DateIsWritten
<1> QED
  BY <1>1, Zenon DEF DatesStand, UndatedOnce

-----------------------------------------------------------------------------
\* What a store holds is what the answered calls left in it, each tenant's and each name's own,
\* or the cause is known: keys and configurations of models, credentials of integrations, secrets,
\* correlations, the documents of tenants, and those that stages hand to each other.
THEOREM StoresAlwaysTrue ==
    CredSpec /\ IntegrationSpec /\ SecretsSpec /\ GraphSpec /\ StoreSpec /\ DocumentSpec => []StoresAreTrue
<1>1. CredInv /\ IntegrationInv /\ SecretsInv /\ GraphInv /\ KnowledgeInv /\ DocumentInv => StoresAreTrue
  <2>1. CredInv => /\ CredTypeOK /\ DeletedIsGone /\ ValidityWasJudged /\ UpdatesAreKept
                   /\ ClientHadKey /\ ModelsWereAccepted
    BY DEF CredInv, CredTyped
  <2>2. SecretsInv => AnswersAreCurrent /\ AnsweredIsOwn /\ ListedCanBeRead /\ DetailsAreTrue
    BY DEF SecretsInv, AnswersHold
  <2> QED
    BY <2>1, <2>2, IntegrationProperties, GraphProperties, KnowledgeProperties, DocumentProperties DEF StoresAreTrue
<1> QED
  BY <1>1, CredAlways, IntegrationAlways, SecretsAlways, GraphAlways, KnowledgeAlways, DocumentAlways, PTL

-----------------------------------------------------------------------------
\* What agents and reviewers answer is kept and judged as they answered it: no result without an
\* answer and no two artifacts of two runs, no pass with a blocking issue that is known, no finding
\* that a merge loses, and no file, reviewer, report or session missing without a cause.
THEOREM ReviewsAlwaysTrue ==
    AgentsSpec /\ VerdictsSpec /\ ReviewSpec /\ MergeSpec /\ SwarmSpec => []ReviewsAreTrue
<1>1. AgentsInv /\ VerdictsInv /\ ReviewInv /\ MergeInv /\ SwarmInv => ReviewsAreTrue
  BY AgentsProperties, ReviewIsJudged, SecurityIsJudged, ReviewIsExplained, ReportIsWhole, SwarmIsShown DEF ReviewsAreTrue
<1> QED
  BY <1>1, AgentsAlways, VerdictsAlways, ReviewAlways, MergeAlways, SwarmAlways, PTL

-----------------------------------------------------------------------------
\* What is said and made of an idea is kept, of what it was made of: no answer without its question,
\* no session submitted that was not judged ready, no class a person chose that a later answer
\* replaces, no label lost by a classification, no two labels of one id, no requirement that the
\* fallback leaves out, and no level of coverage without the criteria for it, or the cause is known.
THEOREM IdeasAlwaysTrue ==
    ChatSpec /\ ReadySpec /\ LabelsSpec /\ TaxonomySpec /\ TraceSpec => []IdeasAreTrue
<1>1. ChatInv /\ ReadyInv /\ IdeaInv /\ TaxonomyInv /\ TraceInv => IdeasAreTrue
  BY ChatIsKept, ReadyIsKept, IdeaIsKept, TaxonomyIsKept, TraceIsKept DEF IdeasAreTrue
<1> QED
  BY <1>1, ChatAlways, ReadyAlways, LabelsAlways, TaxonomyAlways, TraceAlways, PTL

-----------------------------------------------------------------------------
\* What an exploration is told of the code is there: no line that no chunk has but for a file that
\* changed as it was cut, no file packed before a nearer one, no symbol, line or count that the
\* module has not, no keyword that a check ignores, no question that was paid twice while its answer
\* was kept, and no audit that is lost but by a deletion, or the cause is known.
THEOREM CodeAlwaysRead ==
    IngestSpec /\ ContextSpec /\ ToolsSpec /\ TriggerSpec /\ QueriesSpec /\ AuditSpec => []CodeIsRead
<1>1. IngestInv /\ ContextInv /\ ToolInv /\ TriggerInv /\ QueriesInv /\ AuditInv => CodeIsRead
  <2>1. QueriesInv => CountersAgree /\ AttemptsArePaid /\ PaidOnceWhileKept
    BY DEF QueriesInv
  <2> QED
    BY <2>1, IngestedIsWhole, PackIsRight, ToolsAreRight, KeywordsAreKept, AuditIsKept DEF CodeIsRead
<1> QED
  BY <1>1, IngestAlways, ContextAlways, ToolsAlways, TriggerAlways, QueriesAlways, AuditAlways, PTL

-----------------------------------------------------------------------------
(* A behaviour of the instance is one of each of these components: the step *)
(* of its study, and nothing in any other.                                  *)

MoveTogether ==
    /\ [HealthNext]_healthVars /\ [TelemetryNext]_telemetryVars /\ [ViewNext]_viewVars
    /\ [CredNext]_credVars /\ [CredentialNext]_credentialVars /\ [SecretsNext]_secretVars
    /\ [GraphNext]_graphVars /\ [KnowledgeNext]_knowledgeVars /\ [DocumentNext]_documentVars
    /\ [AgentsNext]_agentVars /\ [VerdictsNext]_verdictVars /\ [ReviewNext]_reviewVars
    /\ [MergeNext]_mergeVars /\ [StatusNext]_statusVars
    /\ [ChatNext]_chatVars /\ [ReadyNext]_readyVars /\ [IdeaNext]_ideaVars
    /\ [TaxonomyNext]_taxonomyVars /\ [TraceNext]_traceVars
    /\ [IngestNext]_ingestVars /\ [ContextNext]_contextVars /\ [ToolNext]_toolVars
    /\ [TriggerNext]_triggerVars /\ [QueriesNext]_rlmQueryVars /\ [AuditNext]_auditVars

LEMMA ComponentsRun ==
    MCSpec => /\ HealthSpec /\ TelemetrySpec /\ ViewSpec
              /\ CredSpec /\ IntegrationSpec /\ SecretsSpec /\ GraphSpec /\ StoreSpec /\ DocumentSpec
              /\ AgentsSpec /\ VerdictsSpec /\ ReviewSpec /\ MergeSpec /\ SwarmSpec
              /\ ChatSpec /\ ReadySpec /\ LabelsSpec /\ TaxonomySpec /\ TraceSpec
              /\ IngestSpec /\ ContextSpec /\ ToolsSpec /\ TriggerSpec /\ QueriesSpec /\ AuditSpec
<1>1. MCInit => /\ HealthInit /\ TelemetryInit /\ ViewInit
                /\ CredInit /\ CredentialInit /\ SecretsInit /\ GraphInit /\ KnowledgeInit /\ DocumentInit
                /\ AgentsInit /\ VerdictsInit /\ ReviewInit /\ MergeInit /\ StatusInit
                /\ ChatInit /\ ReadyInit /\ IdeaInit /\ TaxonomyInit /\ TraceInit
                /\ IngestInit /\ ContextInit /\ ToolInit /\ TriggerInit /\ QueriesInit /\ AuditInit
  BY DEF MCInit
<1>2. [MCNext]_studiesVars => MoveTogether
  <2>1. CASE UNCHANGED studiesVars
    BY <2>1 DEF studiesVars, MoveTogether
  <2>2. ASSUME MCNext
        PROVE  MoveTogether
    <3>1. ASSUME Others("tasks")
          PROVE  MoveTogether
      BY <3>1 DEF Others, MoveTogether
    <3>2. CASE HealthNext /\ Others("health")
      BY <3>2 DEF Others, MoveTogether
    <3>3. CASE TelemetryNext /\ Others("telemetry")
      BY <3>3 DEF Others, MoveTogether
    <3>4. CASE ViewNext /\ Others("view")
      BY <3>4 DEF Others, MoveTogether
    <3>5. CASE CredNext /\ Others("cred")
      BY <3>5 DEF Others, MoveTogether
    <3>6. CASE CredentialNext /\ Others("integrations")
      BY <3>6 DEF Others, MoveTogether
    <3>7. CASE SecretsNext /\ Others("secrets")
      BY <3>7 DEF Others, MoveTogether
    <3>8. CASE GraphNext /\ Others("graph")
      BY <3>8 DEF Others, MoveTogether
    <3>9. CASE KnowledgeNext /\ Others("knowledge")
      BY <3>9 DEF Others, MoveTogether
    <3>10. CASE DocumentNext /\ Others("documents")
      BY <3>10 DEF Others, MoveTogether
    <3>11. CASE AgentsNext /\ Others("agents")
      BY <3>11 DEF Others, MoveTogether
    <3>12. CASE VerdictsNext /\ Others("verdicts")
      BY <3>12 DEF Others, MoveTogether
    <3>13. CASE ReviewNext /\ Others("review")
      BY <3>13 DEF Others, MoveTogether
    <3>14. CASE MergeNext /\ Others("merge")
      BY <3>14 DEF Others, MoveTogether
    <3>15. CASE StatusNext /\ Others("status")
      BY <3>15 DEF Others, MoveTogether
    <3>16. CASE ChatNext /\ Others("chat")
      BY <3>16 DEF Others, MoveTogether
    <3>17. CASE ReadyNext /\ Others("readiness")
      BY <3>17 DEF Others, MoveTogether
    <3>18. CASE IdeaNext /\ Others("labels")
      BY <3>18 DEF Others, MoveTogether
    <3>19. CASE TaxonomyNext /\ Others("taxonomy")
      BY <3>19 DEF Others, MoveTogether
    <3>20. CASE TraceNext /\ Others("trace")
      BY <3>20 DEF Others, MoveTogether
    <3>21. CASE IngestNext /\ Others("ingest")
      BY <3>21 DEF Others, MoveTogether
    <3>22. CASE ContextNext /\ Others("pack")
      BY <3>22 DEF Others, MoveTogether
    <3>23. CASE ToolNext /\ Others("tools")
      BY <3>23 DEF Others, MoveTogether
    <3>24. CASE TriggerNext /\ Others("trigger")
      BY <3>24 DEF Others, MoveTogether
    <3>25. CASE QueriesNext /\ Others("llm")
      BY <3>25 DEF Others, MoveTogether
    <3>26. CASE AuditNext /\ Others("audit")
      BY <3>26 DEF Others, MoveTogether
    <3> QED
      BY <2>2, <3>1, <3>2, <3>3, <3>4, <3>5, <3>6, <3>7, <3>8, <3>9, <3>10, <3>11, <3>12, <3>13, <3>14, <3>15,
         <3>16, <3>17, <3>18, <3>19, <3>20, <3>21, <3>22, <3>23, <3>24, <3>25, <3>26
         DEF MCNext, Tools, GraphInOrder, Telemetry, Secret, Findings, SwarmShown, Readiness, LabelsInOrder, TaxonomyInOrder, Trace
  <2> QED
    BY <2>1, <2>2
<1> QED
  BY <1>1, <1>2, PTL DEF MCSpec, MoveTogether, HealthSpec, TelemetrySpec, ViewSpec, CredSpec, IntegrationSpec, SecretsSpec,
    GraphSpec, StoreSpec, DocumentSpec, AgentsSpec, VerdictsSpec, ReviewSpec, MergeSpec, SwarmSpec,
    ChatSpec, ReadySpec, LabelsSpec, TaxonomySpec, TraceSpec,
    IngestSpec, ContextSpec, ToolsSpec, TriggerSpec, QueriesSpec, AuditSpec

\* What the components promise on their own, the specification the run checks promises of them.
THEOREM StudiesTrue == MCSpec => [](ReviewsAreTrue /\ IdeasAreTrue /\ CodeIsRead /\ ViewsAreTrue /\ StoresAreTrue)
BY ComponentsRun, ReviewsAlwaysTrue, IdeasAlwaysTrue, CodeAlwaysRead, ViewsAlwaysTrue, StoresAlwaysTrue, PTL

\* A session that is kept as ready for its PRD (maturity in the database or in Redis) stops being so
\* only where a chat lowers the score of an aspect, or where the fractions that were cut as it was
\* stored made the difference between its total and the one that is needed.
THEOREM ReadinessNeverLost == MCSpec => ReadinessIsLostForACause
BY ComponentsRun, ReadinessIsKept, PTL
=============================================================================
