----------------------------- MODULE Credentials -----------------------------
(***************************************************************************)
(* The credentials that LLMConfigService and SecretsService keep in Redis  *)
(* (orchestrator/services/llm_config_service, infrastructure/secrets/      *)
(* service), the configuration of one agent role that names one of them,   *)
(* and the client that LLMClientFactory (infrastructure/llm/factory) makes *)
(* from both and caches.  Every record is one JSON value, changed by a GET *)
(* and a later SET of the whole: another call may run between them.        *)
(***************************************************************************)
EXTENDS Naturals, FiniteSets, Sequences

CONSTANTS
    Keys,           \* API keys and integration credentials: each has an id of its own
    Models,         \* what a configuration may name beside the key
    ConfigCalls     \* the calls of the services: each runs once

NoKey == "none"

VARIABLES
    record,         \* llm:keys:<id>: absent, or what is_valid says
    modelsOf,       \* llm:models:<id>: the cached list of models: none, empty or some
    config,         \* the role's stored configuration
    client,         \* _client_cache of the role: the configuration it was built from, or none
    call,           \* per call: where it is, what it does, and what it read
    accepts,        \* external: whether the provider accepts the key
    deletedKeys,    \* history: keys whose deletion was answered
    rewritten,      \* history: keys that a call held when they were deleted or tested
    judged,         \* history: the verdict of the last test of a key to be written
    updated,        \* history: the values last asked for in answered updates, field by field
    overlapped      \* history: an update ran while another held the configuration

credVars == <<record, modelsOf, config, client, call, accepts, deletedKeys, rewritten, judged,
              updated, overlapped>>
credHistory == <<deletedKeys, rewritten, judged>>
configVars == <<config, updated, overlapped>>

Configs == [key : Keys \cup {NoKey}, model : Models \cup {"default"}]
NoConfig == [key |-> NoKey, model |-> "default"]
Idle == [at |-> "new", does |-> "none", key |-> NoKey, read |-> "absent", conf |-> NoConfig]

CredInit ==
    /\ record = [k \in Keys |-> "absent"] /\ modelsOf = [k \in Keys |-> "none"] /\ config = NoConfig /\ client = NoConfig
    /\ call = [c \in ConfigCalls |-> Idle] /\ accepts \in [Keys -> BOOLEAN]
    /\ deletedKeys = {} /\ rewritten = {} /\ judged = [k \in Keys |-> "valid"]
    /\ updated = NoConfig /\ overlapped = FALSE

New(c) == call[c].at = "new"
Done(c) == call' = [call EXCEPT ![c].at = "done"]

\* Calls that will write back the record they read of a key.
Holding(k) == {c \in ConfigCalls : call[c].at = "held" /\ call[c].does \in {"retrieve", "test"} /\ call[c].key = k}
Configuring == {c \in ConfigCalls : call[c].at = "held" /\ call[c].does = "update"}

\* add_key, store: a new id, valid until tested.
AddKey(k) ==
    /\ record[k] = "absent" /\ k \notin deletedKeys
    /\ record' = [record EXCEPT ![k] = "valid"]
    /\ UNCHANGED <<modelsOf, client, call, accepts, credHistory, configVars>>

\* delete_key: neither the configurations that name the key nor its models go with it.
DeleteKey(k) ==
    /\ record[k] # "absent"
    /\ record' = [record EXCEPT ![k] = "absent"]
    /\ deletedKeys' = deletedKeys \cup {k}
    /\ rewritten' = IF Holding(k) # {} THEN rewritten \cup {k} ELSE rewritten
    /\ UNCHANGED <<modelsOf, client, call, accepts, judged, configVars>>

Find(c, k, what) ==
    \/ record[k] = "absent" /\ Done(c)
    \/ record[k] # "absent"
       /\ call' = [call EXCEPT ![c] = [Idle EXCEPT !.at = "held", !.does = what, !.key = k, !.read = record[k]]]

\* retrieve, test_api_key, discover_and_cache_models (when no list is cached, or to refresh it):
\* the record is read, and the provider is called or the time of use set before the write.
ReadKey(c, k, what) ==
    /\ New(c) /\ what \in {"retrieve", "test", "discover"}
    /\ Find(c, k, what)
    /\ UNCHANGED <<record, modelsOf, client, accepts, credHistory, configVars>>

\* retrieve: the record as it was read, with another last_used.
TouchKey(c) ==
    LET k == call[c].key IN
    /\ call[c].at = "held" /\ call[c].does = "retrieve"
    /\ record' = [record EXCEPT ![k] = call[c].read] /\ Done(c)
    /\ UNCHANGED <<modelsOf, client, accepts, credHistory, configVars>>

WriteVerdict(c, verdict) == record' = [record EXCEPT ![call[c].key] = verdict]

\* A provider that refuses the key, is out of reach or limits the rate: not valid.
TestKey(c) ==
    LET k == call[c].key IN
    /\ call[c].at = "held" /\ call[c].does = "test"
    /\ \E verdict \in {"valid", "invalid"} :
        /\ verdict = "valid" => accepts[k]
        /\ WriteVerdict(c, verdict) /\ judged' = [judged EXCEPT ![k] = verdict]
    /\ rewritten' = IF Holding(k) # {c} THEN rewritten \cup {k} ELSE rewritten
    /\ Done(c)
    /\ UNCHANGED <<modelsOf, client, accepts, deletedKeys, configVars>>

\* A provider that refuses the key or is out of reach has no models, and that is cached too.
Discovered(c) == IF accepts[call[c].key] THEN {"empty", "some"} ELSE {"empty"}

DiscoverModels(c) ==
    /\ call[c].at = "held" /\ call[c].does = "discover"
    /\ \E list \in Discovered(c) : modelsOf' = [modelsOf EXCEPT ![call[c].key] = list]
    /\ Done(c)
    /\ UNCHANGED <<record, client, accepts, credHistory, configVars>>

ModelsExpire(k) ==
    /\ modelsOf[k] # "none" /\ modelsOf' = [modelsOf EXCEPT ![k] = "none"]
    /\ UNCHANGED <<record, client, call, accepts, credHistory, configVars>>

\* partial_update_agent_config, get_agent_config: the configuration is read.
ReadConfig(c, what) ==
    /\ New(c) /\ what \in {"update", "client"}
    /\ what = "client" => client = NoConfig
    /\ call' = [call EXCEPT ![c] = [Idle EXCEPT !.at = "held", !.does = what, !.conf = config]]
    /\ UNCHANGED <<record, modelsOf, client, accepts, credHistory, configVars>>

Merged(conf, key, model) ==
    [key |-> IF key = "same" THEN conf.key ELSE key, model |-> IF model = "same" THEN conf.model ELSE model]

\* What is asked for is not compared with the keys that are stored.
WriteConfig(c, key, model) ==
    /\ call[c].at = "held" /\ call[c].does = "update"
    /\ config' = Merged(call[c].conf, key, model)
    /\ updated' = [key |-> IF key = "same" THEN updated.key ELSE key,
                   model |-> IF model = "same" THEN updated.model ELSE model]
    /\ overlapped' = (overlapped \/ Configuring # {c})
    /\ Done(c)
    /\ UNCHANGED <<record, modelsOf, client, accepts, credHistory>>

\* import_config: the role's configuration is replaced; what the import does not name is the
\* default, and no key stands for an empty api_key_id.
ImportConfig(c, conf) ==
    /\ New(c)
    /\ config' = conf /\ updated' = conf
    /\ overlapped' = (overlapped \/ Configuring # {})
    /\ Done(c)
    /\ UNCHANGED <<record, modelsOf, client, accepts, credHistory>>

KeyFound(c) == \E k \in Keys : k = call[c].conf.key /\ record[k] # "absent"

\* get_client: the key is read after the configuration that names it; the client of a role
\* stays in the cache of the factory, whatever becomes of both.
GetClient(c) ==
    /\ call[c].at = "held" /\ call[c].does = "client"
    /\ client' = IF KeyFound(c) THEN call[c].conf ELSE client
    /\ Done(c)
    /\ UNCHANGED <<record, modelsOf, accepts, credHistory, configVars>>

\* The factory is created anew with its process.
Restarts ==
    /\ client # NoConfig /\ client' = NoConfig
    /\ UNCHANGED <<record, modelsOf, call, accepts, credHistory, configVars>>

CredNext ==
    \/ \E k \in Keys : AddKey(k) \/ DeleteKey(k) \/ ModelsExpire(k)
    \/ Restarts
    \/ \E c \in ConfigCalls :
        \/ \E k \in Keys, what \in {"retrieve", "test", "discover"} : ReadKey(c, k, what)
        \/ \E what \in {"update", "client"} : ReadConfig(c, what)
        \/ TouchKey(c) \/ TestKey(c) \/ DiscoverModels(c) \/ GetClient(c)
        \/ \E conf \in Configs : ImportConfig(c, conf)
        \/ \E key \in Keys \cup {"same"}, model \in Models \cup {"same"} : WriteConfig(c, key, model)

----------------------------------------------------------------------------
(* Properties. *)

CredTypeOK ==
    /\ record \in [Keys -> {"absent", "valid", "invalid"}] /\ modelsOf \in [Keys -> {"none", "empty", "some"}]
    /\ config \in Configs /\ client \in Configs

\* A key whose deletion was answered does not come back, unless a call that had read it
\* before wrote it after.
DeletedIsGone == \A k \in deletedKeys \ rewritten : record[k] = "absent"

\* is_valid is the verdict of the last test of the key that was written, unless a call that
\* had read the key before that test wrote it back after.
ValidityWasJudged == \A k \in Keys \ rewritten : record[k] \in {"absent", judged[k]}

\* Field by field the configuration is what the answered updates asked for last, unless two
\* updates overlapped.
UpdatesAreKept == overlapped \/ config = updated

\* A client is made only of a key that was there when it was made: a client whose key is gone
\* is one whose key was deleted since.
ClientHadKey ==
    client # NoConfig => client.key \in Keys /\ (record[client.key] = "absent" => client.key \in deletedKeys)

\* A list with models is cached only for a key that was added and that the provider accepts.
ModelsWereAccepted ==
    \A k \in Keys : modelsOf[k] = "some" => accepts[k] /\ (record[k] # "absent" \/ k \in deletedKeys)

------------------------------------------------------------------------------
(***************************************************************************)
(* Credentials of integrations (infrastructure/secrets/service, routes/    *)
(* integrations_api): one is stored, tested by asking its provider or by   *)
(* its form alone, used to send a test message, listed and deleted.  A     *)
(* test and a use write the whole record that they read; a test waits for  *)
(* the provider in between.                                                *)
(***************************************************************************)

CONSTANTS
    CredentialKinds,    \* integration and type of credential: the type is not checked
    CredentialCalls     \* tests and test messages: each runs once

\* IntegrationType.
ASSUME IntegrationAssumption == \A kind \in CredentialKinds : kind[1] \in {"slack", "teams", "github"}

AskedOfSlack == {"bot_token"}
AskedOfGithub == {"personal_access_token"}
FormOfSlack == {"app_token", "signing_secret"}
FormOfTeams == {"client_id", "client_secret", "tenant_id"}
FormOfGithub == {"app_private_key"}

VARIABLES
    secretKept,     \* the record: whether it is there, its kind and form, and is_valid
    working,        \* external: whether the provider accepts the credential
    network,        \* external: up, down or limited
    using,          \* per call: where it is, and the is_valid it read or judged
    removedOnce,    \* history: its deletion was answered
    heldThen,       \* history: a call held the record when it was deleted
    lastTest,       \* history: the verdict last written by a test, and how the network was
    changedSince,   \* history: the provider has changed its mind since then
    overlapping     \* history: a call wrote the record while another held it

credentialVars == <<secretKept, working, network, using, removedOnce, heldThen, lastTest,
                    changedSince, overlapping>>

NoUse == [at |-> "new", valid |-> TRUE, network |-> "up", worked |-> FALSE]
NoTest == [verdict |-> "none", network |-> "up"]

CredentialInit ==
    /\ secretKept \in [there : {FALSE}, kind : CredentialKinds, formed : BOOLEAN, valid : {TRUE}]
    /\ working \in BOOLEAN /\ network = "up" /\ (working => secretKept.formed)
    /\ using = [c \in CredentialCalls |-> NoUse]
    /\ removedOnce = FALSE /\ heldThen = FALSE /\ lastTest = NoTest
    /\ changedSince = FALSE /\ overlapping = FALSE

Holds(c) == using[c].at \in {"tested", "retrieved"}
OthersHold(c) == \E d \in CredentialCalls \ {c} : Holds(d)
Moves(c, where) == using' = [using EXCEPT ![c].at = where]

\* store: valid until tested; the id is new, so it is stored once.
Store ==
    /\ ~secretKept.there /\ ~removedOnce
    /\ secretKept' = [secretKept EXCEPT !.there = TRUE, !.valid = TRUE]
    /\ UNCHANGED <<working, network, using, removedOnce, heldThen, lastTest, changedSince, overlapping>>

Removed == [secretKept EXCEPT !.there = FALSE]

Delete ==
    /\ secretKept.there /\ secretKept' = Removed
    /\ removedOnce' = TRUE /\ heldThen' = (heldThen \/ \E c \in CredentialCalls : Holds(c))
    /\ UNCHANGED <<working, network, using, lastTest, changedSince, overlapping>>

\* auth.test says ok, or the user is answered with 200; an exception ends the test as False.
ProviderAccepts(net) == net = "up" /\ working

SlackVerdict(net) ==
    IF secretKept.kind[2] \in AskedOfSlack THEN ProviderAccepts(net)
    ELSE secretKept.kind[2] \in FormOfSlack /\ secretKept.formed
TeamsVerdict == secretKept.kind[2] \in FormOfTeams /\ secretKept.formed
GithubVerdict(net) ==
    IF secretKept.kind[2] \in AskedOfGithub THEN ProviderAccepts(net)
    ELSE secretKept.kind[2] \in FormOfGithub /\ secretKept.formed

Verdict(net) ==
    CASE secretKept.kind[1] = "slack" -> SlackVerdict(net)
      [] secretKept.kind[1] = "teams" -> TeamsVerdict
      [] secretKept.kind[1] = "github" -> GithubVerdict(net)

\* test: reads the record and judges it; without one the call ends.
Test(c) ==
    /\ using[c].at = "new"
    /\ using' = [using EXCEPT ![c] =
        IF secretKept.there THEN [at |-> "tested", valid |-> Verdict(network), network |-> network, worked |-> working]
        ELSE [@ EXCEPT !.at = "done"]]
    /\ UNCHANGED <<secretKept, working, network, removedOnce, heldThen, lastTest, changedSince, overlapping>>

\* The verdict is written with the record that was read, whether that is still there or not.
WriteTested(c) ==
    /\ using[c].at = "tested" /\ Moves(c, "done")
    /\ secretKept' = [secretKept EXCEPT !.there = TRUE, !.valid = using[c].valid]
    /\ lastTest' = [verdict |-> IF using[c].valid THEN "valid" ELSE "invalid", network |-> using[c].network]
    /\ changedSince' = (using[c].worked # working) /\ overlapping' = (overlapping \/ OthersHold(c))
    /\ UNCHANGED <<working, network, removedOnce, heldThen>>

\* send_test_message: only of a bot token, whatever its integration and its status.
ReadMetadata(c) ==
    /\ using[c].at = "new"
    /\ Moves(c, IF secretKept.there /\ secretKept.kind[2] = "bot_token" THEN "message" ELSE "done")
    /\ UNCHANGED <<secretKept, working, network, removedOnce, heldThen, lastTest, changedSince, overlapping>>

\* retrieve, read and write.
RetrieveToken(c) ==
    /\ using[c].at = "message"
    /\ using' = [using EXCEPT ![c].at = IF secretKept.there THEN "retrieved" ELSE "done", ![c].valid = secretKept.valid]
    /\ UNCHANGED <<secretKept, working, network, removedOnce, heldThen, lastTest, changedSince, overlapping>>

TouchToken(c) ==
    /\ using[c].at = "retrieved" /\ Moves(c, "posting")
    /\ secretKept' = [secretKept EXCEPT !.there = TRUE, !.valid = using[c].valid]
    /\ overlapping' = (overlapping \/ OthersHold(c))
    /\ UNCHANGED <<working, network, removedOnce, heldThen, lastTest, changedSince>>

\* The message says nothing to the record: an invalid status stays.
PostMessage(c) ==
    /\ using[c].at = "posting" /\ Moves(c, "done")
    /\ UNCHANGED <<secretKept, working, network, removedOnce, heldThen, lastTest, changedSince, overlapping>>

Revoke ==
    /\ working /\ working' = FALSE /\ changedSince' = TRUE
    /\ UNCHANGED <<secretKept, network, using, removedOnce, heldThen, lastTest, overlapping>>

NetworkChanges(net) ==
    /\ net # network /\ network' = net
    /\ UNCHANGED <<secretKept, working, using, removedOnce, heldThen, lastTest, changedSince, overlapping>>

CredentialNext ==
    \/ Store \/ Delete \/ Revoke
    \/ \E net \in {"up", "down", "limited"} : NetworkChanges(net)
    \/ \E c \in CredentialCalls :
        Test(c) \/ WriteTested(c) \/ ReadMetadata(c) \/ RetrieveToken(c) \/ TouchToken(c) \/ PostMessage(c)

----------------------------------------------------------------------------
(* Properties. *)

IsKnown == \/ secretKept.kind[1] = "slack" /\ secretKept.kind[2] \in AskedOfSlack \cup FormOfSlack
           \/ secretKept.kind[1] = "teams" /\ secretKept.kind[2] \in FormOfTeams
           \/ secretKept.kind[1] = "github" /\ secretKept.kind[2] \in AskedOfGithub \cup FormOfGithub
IsAsked == secretKept.kind[2] \in AskedOfSlack \cup AskedOfGithub

\* A credential is there after its deletion was answered only if a test or a message held its
\* record then, and wrote it back.
BackWasHeld == secretKept.there /\ removedOnce => heldThen

\* A credential that works is shown as invalid only if its type is not one of its integration,
\* the provider could not be asked when it was tested, or two calls overlapped.
InvalidHasACause == secretKept.there /\ ~secretKept.valid /\ working =>
    ~IsKnown \/ lastTest.network # "up" \/ overlapping

\* A credential that does not work is shown as valid only if it was not tested, if its form alone
\* is, if it was revoked after or during its test, or if two calls overlapped.
ValidHasACause == secretKept.there /\ secretKept.valid /\ ~working =>
    lastTest.verdict = "none" \/ ~IsAsked \/ changedSince \/ overlapping

------------------------------------------------------------------------------
(***************************************************************************)
(* Secrets of an environment (infrastructure/secrets: the caching client   *)
(* of GCP Secret Manager with its copy in Infisical; workers/              *)
(* secrets_helper; the health route of routes/integrations_api).  Both     *)
(* backends go away and come back; each call of a client is one step.      *)
(***************************************************************************)

CONSTANTS
    Secrets,        \* those in use: the name, a sequence of its parts, and the environment
    SecretValues,
    KnownPrefixes,  \* KNOWN_ENV_PREFIXES: the environments a list of prod leaves out
    MaxSets,        \* bound on values written
    MaxOutages      \* bound on backends that go away

Backends == {"gcp", "infisical"}
None == "none"

\* The parts of names, and the environments: prod is not a prefix of any. An answer tells a value
\* from what says that there is none.
NameParts == UNION {{s.name[i] : i \in DOMAIN s.name} \cup {s.env} : s \in Secrets}
ASSUME SecretsAssumption ==
    /\ \A s \in Secrets : s = [name |-> s.name, env |-> s.env] /\ s.name \in Seq(NameParts) \ {<<>>}
    /\ SecretValues \cap {"none", "absent", "empty", "raised", "variable"} = {}
    /\ "prod" \notin KnownPrefixes

VARIABLES
    gcp,            \* per path: absent, empty (no version) or its value
    copy,           \* Infisical: per secret, none or a value
    reachable,      \* external: the backends that answer
    usingCache,     \* _using_cache
    setBy,          \* history: per path, the secret last written there
    half,           \* history: paths whose version could not be added
    told,           \* the last answer of a call, with what was so when it was given
    sets,           \* values written so far
    absences

secretVars == <<gcp, copy, reachable, usingCache, setBy, half, told, sets, absences>>

\* The environment is a prefix of the name, except for prod.
Path(name, env) == IF env = "prod" THEN name ELSE <<env>> \o name

PathOf(s) == Path(s.name, s.env)
Paths == { PathOf(s) : s \in Secrets }
IsValue(v) == v \in SecretValues

NothingTold == [by |-> "none", secret |-> None, value |-> None, listed |-> {}, connected |-> {}]

SecretsInit ==
    /\ gcp = [p \in Paths |-> "absent"] /\ copy = [s \in Secrets |-> None]
    /\ reachable = Backends /\ usingCache = FALSE
    /\ setBy = [p \in Paths |-> None] /\ half = {} /\ told = NothingTold
    /\ sets = 0 /\ absences = 0

\* Best effort; what Infisical answers to a POST is not looked at, and it may have the secret.
Copied(s, v) == {copy} \cup (IF "infisical" \in reachable THEN {[copy EXCEPT ![s] = v]} ELSE {})

\* set_secret: written to GCP, then to the copy.
SetSecret(s, v) ==
    /\ "gcp" \in reachable /\ sets < MaxSets /\ sets' = sets + 1
    /\ gcp' = [gcp EXCEPT ![PathOf(s)] = v] /\ copy' \in Copied(s, v)
    /\ setBy' = [setBy EXCEPT ![PathOf(s)] = s] /\ half' = half \ {PathOf(s)}
    /\ told' = NothingTold
    /\ UNCHANGED <<reachable, usingCache, absences>>

\* The secret is created, but its version cannot be added: False.
SetFailsHalfway(s) ==
    /\ "gcp" \in reachable /\ gcp[PathOf(s)] = "absent" /\ sets < MaxSets /\ sets' = sets + 1
    /\ gcp' = [gcp EXCEPT ![PathOf(s)] = "empty"]
    /\ setBy' = [setBy EXCEPT ![PathOf(s)] = s] /\ half' = half \cup {PathOf(s)}
    /\ told' = NothingTold
    /\ UNCHANGED <<copy, reachable, usingCache, absences>>

DeleteSecret(s) ==
    /\ "gcp" \in reachable /\ gcp[PathOf(s)] # "absent"
    /\ gcp' = [gcp EXCEPT ![PathOf(s)] = "absent"] /\ half' = half \ {PathOf(s)}
    /\ copy' = IF "infisical" \in reachable THEN [copy EXCEPT ![s] = None] ELSE copy
    /\ told' = NothingTold
    /\ UNCHANGED <<reachable, usingCache, setBy, sets, absences>>

\* GCPSecretsClient.get_secret catches every error and answers None.
GcpGets(s) == IF "gcp" \in reachable /\ IsValue(gcp[PathOf(s)]) THEN gcp[PathOf(s)] ELSE None

FromCopy(s) == IF "infisical" \in reachable THEN copy[s] ELSE None

\* The environment variables know no environment; those of one part are set.
InEnvironment(s) == Len(s.name) = 1

ToldOf(by, s, v) == [NothingTold EXCEPT !.by = by, !.secret = s, !.value = v]

\* get_secret: what GCP has is copied, and an exception makes the copy answer; get_secret of
\* the workers takes an environment variable for a secret that is not there.
GetSecret(s, by) ==
    LET got == GcpGets(s)
        value == IF got = "raised" THEN FromCopy(s) ELSE got IN
    /\ copy' \in (IF IsValue(got) THEN Copied(s, got) ELSE {copy})
    /\ usingCache' = (got = "raised" \/ (usingCache /\ ~IsValue(got)))
    /\ told' = ToldOf(by, s, IF by = "worker" /\ value = None /\ InEnvironment(s) THEN "variable" ELSE value)
    /\ UNCHANGED <<gcp, reachable, setBy, half, sets, absences>>

ListedPaths(env) ==
    { p \in Paths : /\ gcp[p] # "absent"
                    /\ IF env = "prod" THEN Head(p) \notin KnownPrefixes ELSE Len(p) > 1 /\ Head(p) = env }

\* list_secrets: also those without a version; nothing where GCP cannot be reached.
ListSecrets(env) ==
    /\ told' = [NothingTold EXCEPT !.by = "list", !.secret = env,
                                   !.listed = IF "gcp" \in reachable THEN ListedPaths(env) ELSE {}]
    /\ UNCHANGED <<gcp, copy, reachable, usingCache, setBy, half, sets, absences>>

\* No health_check raises: the details say who is connected.
Connected == reachable

\* secrets_health: healthy, whatever the details say.
Health ==
    /\ told' = [NothingTold EXCEPT !.by = "health", !.value = "healthy", !.connected = Connected]
    /\ UNCHANGED <<gcp, copy, reachable, usingCache, setBy, half, sets, absences>>

GoAway(b) ==
    /\ b \in reachable /\ absences < MaxOutages /\ absences' = absences + 1
    /\ reachable' = reachable \ {b} /\ told' = NothingTold
    /\ UNCHANGED <<gcp, copy, usingCache, setBy, half, sets>>

ComeBack(b) ==
    /\ b \notin reachable /\ reachable' = reachable \cup {b} /\ told' = NothingTold
    /\ UNCHANGED <<gcp, copy, usingCache, setBy, half, sets, absences>>

SecretsNext ==
    \/ Health
    \/ \E env \in { s.env : s \in Secrets } : ListSecrets(env)
    \/ \E b \in Backends : GoAway(b) \/ ComeBack(b)
    \/ \E s \in Secrets :
        \/ SetFailsHalfway(s) \/ DeleteSecret(s)
        \/ \E v \in SecretValues : SetSecret(s, v)
        \/ \E by \in {"client", "worker"} : GetSecret(s, by)

----------------------------------------------------------------------------
(* Properties. *)

ReadAnswer == told.by \in {"client", "worker"}

\* While GCP can be reached a secret is answered as what it holds there, and as no value when
\* it holds none; while it cannot, no value is answered but the one the copy holds.
AnswersAreCurrent == ReadAnswer =>
    LET held == gcp[PathOf(told.secret)] IN
    /\ "gcp" \in reachable /\ IsValue(held) => told.value = held
    /\ IsValue(told.value) =>
        told.value = IF "gcp" \in reachable THEN held ELSE FromCopy(told.secret)

\* The value answered was written for that name in that environment, except where a name of
\* prod begins with the name of another environment.
AnsweredIsOwn == ReadAnswer /\ IsValue(told.value) =>
    LET writer == setBy[PathOf(told.secret)] IN
    writer # told.secret => \E s \in {writer, told.secret} : s.env = "prod" /\ Len(s.name) > 1

\* What is listed for an environment was written in it, except by prod under such a name, or in
\* an environment whose prefix a list of prod does not know; and it can be read, except where
\* its version could not be added.
ListedCanBeRead == told.by = "list" => \A p \in told.listed :
    /\ IsValue(gcp[p]) \/ p \in half
    /\ setBy[p].env # told.secret => setBy[p].env \notin KnownPrefixes

\* Though the health is always good, its details say which backend is not.
DetailsAreTrue == told.by = "health" => told.connected = reachable

\* "On GCP failure, cached values from Infisical are used" (CachingSecretsClient): a value that
\* the copy has is the answer when GCP cannot be reached and Infisical can.
FallbackAnswers ==
    told.by = "client" /\ "gcp" \notin reachable /\ IsValue(FromCopy(told.secret)) =>
        told.value = FromCopy(told.secret)

SecretsSpec == SecretsInit /\ [][SecretsNext]_secretVars
==============================================================================
