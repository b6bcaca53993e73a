------------------------------ MODULE MCStudies ------------------------------
(* Instances for TLC of components whose properties are all safety.  Each      *)
(* behaviour is of one study, chosen in the initial state: of the managers     *)
(* alone, with every kind of event and call; of tasks whose gates are decided; *)
(* and of components that share nothing with them or with each other.          *)
EXTENDS Governance, ReviewFindings, Credentials, GraphAndKnowledge, IdeationChat, IdeaLabels,
    RepoIngest, AgentRuns, Documents, HealthAndTelemetry, RlmTools,
    RlmQueries, RequirementTrace, SwarmStatus

CONSTANTS m1, t1, g1, c1, c2, c3, s1, k1, k2

MCTokensOf == [f \in SourceFiles |-> IF f = c1 THEN 2 ELSE 1]
MCTaskOf == [g \in Gates |-> t1]

MCLine(sort, name, owner) == [sort |-> sort, name |-> name, owner |-> owner]
MCTexts ==
    { <<MCLine("feed", k2, 0), MCLine("def", k1, 0)>>,
      <<MCLine("class", k2, 0), MCLine("def", k1, 1)>>,
      <<MCLine("import", k2, 0), MCLine("async", k1, 0)>> }

MCModule == [lines |-> <<MCLine("class", k2, 0), MCLine("def", k1, 1)>>, ended |-> TRUE, state |-> "valid"]

MCSecret(name, env) == [name |-> name, env |-> env]
MCSecrets ==
    { MCSecret(<<k1>>, "dev"), MCSecret(<<k1>>, "prod"), MCSecret(<<"dev", k1>>, "prod"), MCSecret(<<k1>>, "qa") }
MCKinds ==
    {"slack"} \X {"bot_token", "signing_secret"} \cup {"teams"} \X {"client_id"}
    \cup {"github"} \X {"bot_token", "personal_access_token", "app_private_key"}

VARIABLE study

Studies == {"alone", "governed", "findings", "credentials", "graph", "chat", "labels",
    "ingest", "pack", "agents", "verdicts", "execution", "audit",
    "taxonomy", "knowledge", "documents", "health", "view", "telemetry", "tools",
    "trigger", "trace", "readiness", "status", "secrets", "integrations", "llm"}

\* Bounds: calls, aborts and second deliveries together, with one abort or second delivery; and
\* those with the events.
MaxTroubles == 2
MaxSteps == 5
Troubles == calls + aborts + claims
FewTroubles ==
    /\ Troubles' <= MaxTroubles /\ aborts' + claims' <= 1
    /\ Len(log') + Troubles' <= MaxSteps

MCInit ==
    /\ study \in Studies
    /\ GovernedInit /\ MergeInit /\ GraphInit /\ ChatInit
    /\ CredInit /\ (study # "credentials" => accepts = [k \in Keys |-> TRUE])
    /\ IdeaInit /\ (study # "labels" => idea = [there |-> TRUE, class |-> Undetermined, labels |-> {}])
    /\ IngestInit /\ (study # "ingest" => overlap = 0 /\ source.lines = <<1>>)
    /\ ContextInit /\ (study # "pack" => \A f \in SourceFiles : context.imports[f] = {})
    /\ AgentsInit /\ (study # "agents" => agent = UTestAgent /\ inputs = "missing" /\ retries = MaxRetries)
    /\ VerdictsInit /\ (study # "verdicts" => code.scan = NoIssues /\ code.tested)
    /\ ReviewInit /\ (study # "execution" => target.where = "local" /\ target.found /\ target.files = <<>>)
    /\ AuditInit /\ TaxonomyInit /\ KnowledgeInit /\ DocumentInit
    /\ HealthInit /\ (study # "health" => process.service = "workers" /\ redisUp)
    /\ ViewInit /\ (study # "view" => shows = "health")
    /\ TelemetryInit
    /\ ToolInit /\ (study # "tools" => allowedTools = Registered)
    /\ study # "tools" \/ allowedTools # Registered => moduleText = MCModule
    /\ TriggerInit /\ (study # "trigger" => configured = <<>> /\ autoTrigger)
    /\ TraceInit /\ (study # "trace" => extracted = <<>>)
    /\ ReadyInit /\ (study # "readiness" => store = "redis")
    /\ StatusInit
    /\ SecretsInit
    /\ CredentialInit /\ (study # "integrations" => secretKept.kind = <<"slack", "bot_token">> /\ working)
    /\ QueriesInit

\* The governed tasks are blocked by a call, and not completed by agents.
Alone ==
    /\ Next
    /\ \A i \in 1..Len(log') : log'[i].variant = "epic" =>
         \E k \in 1..Len(log') \ {i} : log'[k].variant = "bare" /\ Type(log'[k].kind) = Type(log'[i].kind)

Governed ==
    /\ GovernedNext
    /\ Len(log') < MaxEvents /\ Len(log') + Troubles' < MaxSteps
    /\ \A i \in 1..Len(log') : log'[i].kind \notin {"completed", "work", "patch"}
    /\ \A j \in jobs' : j.kind \notin Dispatches \cup {"review"}
    /\ \A i \in 1..Len(log') : log'[i].variant = "bare"
    /\ slack' # {} => gateCalls' <= 1 /\ aborts' + claims' = 0

\* Agents report, or log.
Telemetry == TelemetryNext /\ (agentLogs' = <<>> \/ reports' = 0)

\* The second call of an iteration reads the module.
Tools == ToolNext /\ (Len(executed') = 2 => executed'[2].tool = "read_file")

\* Criteria and stories are written of a fallback.
Trace == TraceNext /\ (traced' \subseteq {"prd"} \/ prdState = "fallback")

\* The second browser only loads, saves and submits.
Readiness == ReadyNext /\ (talks' = talks \/ display'[c2] = display[c2])

\* One key expires, or one command raises; the behaviour ends with an answer.
SwarmShown == StatusNext /\ response = NoResponse /\ Cardinality(expired') + raises' <= 1

\* Reviewers are interchangeable: the first is read first.
Findings == MergeNext /\ LET read == reviewersDone'.ok \cup reviewersDone'.failed IN c2 \in read => c1 \in read

\* Values are interchangeable: the first that is set is that of one name.
Secret == SecretsNext /\ (sets' = 1 => c2 \notin {gcp'[p] : p \in Paths} \cup {copy'[s] : s \in Secrets})

\* Calls are interchangeable: what they do is given to them in the order of their names.
GivenInOrder(does, what) ==
    /\ does[c1] = what[2] => does[c2] # what[1]
    /\ does[c1] = what[3] => does[c2] \notin {what[1], what[2]}
\* Of two classifications the first is forced if one is.
LabelsInOrder ==
    /\ IdeaNext /\ GivenInOrder([c \in {c1, c2} |-> edit'[c].does], <<"classify", "add", "remove">>)
    /\ edit'[c2].forced => edit'[c1].does # "classify" \/ edit'[c1].forced
\* The first call is not yet to come when the second puts the whole.
TaxonomyInOrder ==
    /\ TaxonomyNext /\ GivenInOrder([c \in {c1, c2} |-> change'[c].does], <<"add", "update", "delete">>)
    /\ change'[c2].at = "done" /\ change'[c2].does = "none" => change'[c1].at # "new"
GraphInOrder ==
    /\ GraphNext
    /\ graphCall'[c1].does = "remove" => graphCall'[c2].does # "add"
    /\ "remove" \in {graphCall'[c1].does, graphCall'[c2].does} => graphCall'[c3].does # "add"

Others(what) ==
    /\ what # "merge" => UNCHANGED mergeVars
    /\ what # "cred" => UNCHANGED credVars
    /\ what # "graph" => UNCHANGED graphVars
    /\ what # "chat" => UNCHANGED chatVars
    /\ what # "labels" => UNCHANGED ideaVars
    /\ what # "ingest" => UNCHANGED ingestVars
    /\ what # "pack" => UNCHANGED contextVars
    /\ what # "agents" => UNCHANGED agentVars
    /\ what # "verdicts" => UNCHANGED verdictVars
    /\ what # "review" => UNCHANGED reviewVars
    /\ what # "audit" => UNCHANGED auditVars
    /\ what # "taxonomy" => UNCHANGED taxonomyVars
    /\ what # "knowledge" => UNCHANGED knowledgeVars
    /\ what # "documents" => UNCHANGED documentVars
    /\ what # "health" => UNCHANGED healthVars
    /\ what # "view" => UNCHANGED viewVars
    /\ what # "telemetry" => UNCHANGED telemetryVars
    /\ what # "tools" => UNCHANGED toolVars
    /\ what # "trigger" => UNCHANGED triggerVars
    /\ what # "trace" => UNCHANGED traceVars
    /\ what # "readiness" => UNCHANGED readyVars
    /\ what # "status" => UNCHANGED statusVars
    /\ what # "secrets" => UNCHANGED secretVars
    /\ what # "integrations" => UNCHANGED credentialVars
    /\ what # "llm" => UNCHANGED rlmQueryVars
    /\ what # "tasks" => UNCHANGED vars /\ UNCHANGED gateVars

MCNext ==
    /\ UNCHANGED study
    /\ \/ study = "alone" /\ Alone /\ FewTroubles /\ UNCHANGED gateVars /\ Others("tasks")
       \/ study = "governed" /\ Governed /\ FewTroubles /\ Others("tasks")
       \/ study = "findings" /\ Findings /\ Others("merge")
       \/ study = "credentials" /\ CredNext /\ Others("cred")
       \/ study = "graph" /\ GraphInOrder /\ Others("graph")
       \/ study = "chat" /\ ChatNext /\ Others("chat")
       \/ study = "labels" /\ LabelsInOrder /\ Others("labels")
       \/ study = "ingest" /\ IngestNext /\ Others("ingest")
       \/ study = "pack" /\ ContextNext /\ Others("pack")
       \/ study = "agents" /\ AgentsNext /\ Others("agents")
       \/ study = "verdicts" /\ VerdictsNext /\ Others("verdicts")
       \/ study = "execution" /\ ReviewNext /\ Others("review")
       \/ study = "audit" /\ AuditNext /\ Others("audit")
       \/ study = "taxonomy" /\ TaxonomyInOrder /\ Others("taxonomy")
       \/ study = "knowledge" /\ KnowledgeNext /\ Others("knowledge")
       \/ study = "documents" /\ DocumentNext /\ Others("documents")
       \/ study = "health" /\ HealthNext /\ Others("health")
       \/ study = "view" /\ ViewNext /\ Others("view")
       \/ study = "telemetry" /\ Telemetry /\ Others("telemetry")
       \/ study = "tools" /\ Tools /\ Others("tools")
       \/ study = "trigger" /\ TriggerNext /\ Others("trigger")
       \/ study = "trace" /\ Trace /\ Others("trace")
       \/ study = "readiness" /\ Readiness /\ Others("readiness")
       \/ study = "status" /\ SwarmShown /\ Others("status")
       \/ study = "secrets" /\ Secret /\ Others("secrets")
       \/ study = "integrations" /\ CredentialNext /\ Others("integrations")
       \/ study = "llm" /\ QueriesNext /\ Others("llm")

studiesVars ==
    <<vars, gateVars, mergeVars, credVars, graphVars, chatVars, ideaVars, ingestVars, contextVars,
      agentVars, verdictVars, reviewVars, auditVars, taxonomyVars, knowledgeVars, documentVars,
      healthVars, viewVars, telemetryVars, toolVars, triggerVars, traceVars, readyVars,
      statusVars, secretVars, credentialVars, rlmQueryVars,
      study>>

MCSpec == MCInit /\ [][MCNext]_studiesVars

----------------------------------------------------------------------------
(* The properties that are of one study, or of several. *)

\* What agents and reviewers answer is kept and judged as they answered it: the artifacts of a
\* task are of one run, an implementation passes without a blocking issue that is known, a finding
\* stays in the report through every merge, and a file or a reviewer is missing only for a cause.
ReviewsAreTrue ==
    /\ ResultsWereAnswered /\ ArtifactsAgree /\ AsksBounded
    /\ PassedHasNoBlocking /\ FoundDoesNotPass /\ NamedIsListed /\ SecuredIsClean
    /\ ReviewedOrNoRoom /\ NoFindingsHasACause
    /\ MergeTypeOK /\ FindingsKept /\ RepeatsWereWidened
    /\ ReportlessHasACause /\ MissingIsLate /\ GoneHasACause

\* What people and the model say of an idea, or in a session, is kept as it was said last, by
\* whoever it was, and nothing of it is lost on the way to a document of requirements.
IdeasAreTrue ==
    /\ ChatTypeOK /\ ExchangesAreWhole /\ ToldTheLatest /\ ScoresAreKept
    /\ SubmittedWasReady /\ PartsAgree /\ TotalIsNear /\ SavedCanBeLoaded
    /\ IdeaTypeOK /\ ChoiceStays /\ ResultIsOfIdea /\ LabelsAreKept
    /\ ChangesAreKept /\ LabelsDiffer /\ GivenAreKnown
    /\ FallbackKeepsAll /\ WordsAreKept /\ LevelsAreOfCriteria /\ FullLeavesNone

\* What an exploration is told of the code is so, and the whole of it, or the cause is known:
\* by the chunks of a file, a pack of files, the tools, the cache of its questions and its audits.
CodeIsRead ==
    /\ IngestTypeOK /\ NothingLost /\ ChunksBounded /\ OlderAreBeyond
    /\ DependenciesAreNearest /\ TargetsComeFirst /\ ImportsAreKnown
    /\ NamedLineIsRead /\ CountedLinesAreThere /\ AbsenceHasACause /\ TwiceIsAMethod
    /\ UntoldIsPastTheLimit /\ UnlistedIsPastTheLimit /\ FailuresAreTold /\ KeywordsAreHeeded
    /\ CountersAgree /\ AttemptsArePaid /\ PaidOnceWhileKept
    /\ AuditsAreKept /\ LoadedIsNewest

\* What is shown of processes, of the cluster and of agents was so, or the cause is known.
ViewsAreTrue ==
    /\ CheckedIsTold /\ SilenceHasACause /\ OrchestratorIsSplit
    /\ ShownWasSo /\ MadeUpHasACause /\ HealthyHasACause /\ PagesAreApart
    /\ ListedThroughout /\ ListedWasThere /\ FewerHasACause

\* What a store holds is what the answered calls left in it, each tenant's and each name's own,
\* or the cause is known: credentials, secrets, correlations, documents.
StoresAreTrue ==
    /\ CredTypeOK /\ DeletedIsGone /\ ValidityWasJudged /\ UpdatesAreKept
    /\ ClientHadKey /\ ModelsWereAccepted
    /\ BackWasHeld /\ InvalidHasACause /\ ValidHasACause
    /\ AnswersAreCurrent /\ AnsweredIsOwn /\ ListedCanBeRead /\ DetailsAreTrue
    /\ GraphTypeOK /\ StoreIsGraph /\ ListedWithBoth
    /\ TenantsAreApart /\ FailuresHaveACause
    /\ WrittenIsRead /\ VerdictsAreClosed /\ LackingIsRead /\ DatesStand
=============================================================================
