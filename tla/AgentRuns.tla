------------------------------ MODULE AgentRuns ------------------------------
(***************************************************************************)
(* The fourteen LLM agents of the development pipeline (workers/agents):   *)
(* each run of one checks its inputs, asks the model in stages, and writes *)
(* two artifacts named by the task.  What a stage does with an answer, and *)
(* whether it asks once more, differs: one table entry per agent.  A run   *)
(* that asks for a retry is delivered again, and a delivery is claimed     *)
(* from a worker that is still busy with it: runs of one task overlap.     *)
(***************************************************************************)
EXTENDS Naturals, Sequences, FiniteSets

CONSTANTS
    MaxRetries,     \* bound on max_retries
    MaxRuns,        \* bound on the deliveries of the task
    MaxTorn         \* bound on the writes that fail

ASSUME AgentsAssumption == MaxRetries \in Nat

VARIABLES
    retries,        \* max_retries of the configuration, which may be 0
    agent,          \* which of the agents
    inputs,         \* of the event: complete, missing or, for one that parses, malformed
    runs,           \* per run: where it is, the stage, the tries of it, the file it writes next
    files,          \* per artifact the run that wrote it, 0 for none, or torn
    modelCalls,     \* history: per run the calls of the model
    unanswered,     \* history: the runs that went on without an answer of a required stage
    mixed           \* history: a write failed, or a run wrote between two writes of another

agentVars == <<retries, agent, inputs, runs, files, modelCalls, unanswered, mixed>>

Runs == 1..MaxRuns
Files == 1..2       \* the JSON document and the readable one, or the files of the code

\* An answer: usable, with empty lists, with an element of another shape, not JSON or without the
\* key, or an exception of the call.
Answers == {"good", "empty", "malformed", "bad", "error"}

Stage(tries, last, empty, malformed, bad, error, may) ==
    [tries |-> tries, last |-> last, may |-> may,
     after |-> [good |-> "next", empty |-> empty, malformed |-> malformed, bad |-> bad, error |-> error]]
\* Asked again until the answer has the key; an element of another shape fails where it is used.
Retried(last) == Stage(retries, last, "next", "fail", "again", "again", FALSE)
IfGiven(stage) == [stage EXCEPT !.may = TRUE]
\* Asked once: no answer, or an exception, fails the run.
Once(empty) == Stage(1, "fail", empty, "fail", "fail", "fail", FALSE)
Text == Stage(1, "fail", "next", "next", "next", "fail", FALSE)
\* The research of an RLM exploration: whatever happens, the run goes on.
Research == IfGiven(Stage(1, "next", "next", "next", "next", "next", FALSE))

RequirementsStage == Stage(retries, "fail", "fail", "again", "again", "again", FALSE)
PrdStage == Stage(retries, "next", "again", "again", "again", "again", FALSE)
CriteriaStage == Stage(retries, "next", "again", "again", "again", "again", FALSE)
NeedsStage == Retried("fail")
SynthesisStage == Retried("fail")
RecommendStage == Stage(retries, "next", "next", "again", "again", "again", FALSE)
ComponentsStage == Retried("fail")
DiagramsStage == Retried("next")
NfrStage == IfGiven(Retried("next"))
BreakdownStage == Retried("fail")
DependenciesStage == Retried("next")
ComplexityStage == IfGiven(Retried("next"))
CriticalPathStage == Retried("next")
TestSuiteStage == Once("fail")
CodeStage == Once("fail")
DebugStages == <<Text, Text, Once("fail")>>
CodeReviewStage == Once("fail")
ValidationStage == Once("next")
ComplianceStage == Stage(1, "fail", "next", "fail", "next", "fail", FALSE)
ManifestStage == Once("next")
DeploymentStage == Once("next")
MonitoringStage == Once("next")

\* Per agent: whether its inputs are documents that it parses, and whether its result is a
\* verdict, which may be negative.
Agent(stages, parses, judges) == [stages |-> stages, parses |-> parses, judges |-> judges]
PrdAgent == Agent(<<Research, RequirementsStage, PrdStage>>, FALSE, FALSE)
AcceptanceAgent == Agent(<<CriteriaStage>>, TRUE, FALSE)
SurveyorAgent == Agent(<<NeedsStage, Research, SynthesisStage, RecommendStage>>, FALSE, FALSE)
ArchitectAgent == Agent(<<ComponentsStage, DiagramsStage, NfrStage>>, FALSE, FALSE)
PlannerAgent == Agent(<<BreakdownStage, DependenciesStage, ComplexityStage, CriticalPathStage>>, FALSE, FALSE)
UTestAgent == Agent(<<TestSuiteStage>>, FALSE, FALSE)
CodingAgent == Agent(<<Research, CodeStage>>, FALSE, FALSE)
DebuggerAgent == Agent(<<Research>> \o DebugStages, FALSE, FALSE)
ReviewerAgent == Agent(<<CodeReviewStage>>, FALSE, FALSE)
ValidationAgent == Agent(<<Research, ValidationStage>>, FALSE, TRUE)
SecurityAgent == Agent(<<ComplianceStage>>, FALSE, TRUE)
ReleaseAgent == Agent(<<ManifestStage>>, TRUE, FALSE)
DeploymentAgent == Agent(<<DeploymentStage>>, TRUE, FALSE)
MonitorAgent == Agent(<<MonitoringStage>>, TRUE, FALSE)

AgentTable == {PrdAgent, AcceptanceAgent, SurveyorAgent, ArchitectAgent, PlannerAgent, UTestAgent,
    CodingAgent, DebuggerAgent, ReviewerAgent, ValidationAgent, SecurityAgent, ReleaseAgent,
    DeploymentAgent, MonitorAgent}

Torn == MaxRuns + 1
NewRun == [at |-> "new", stage |-> 1, tries |-> 0, file |-> 1]

AgentsInit ==
    /\ retries \in 0..MaxRetries /\ agent \in AgentTable
    /\ inputs \in {"complete", "missing"} \cup IF agent.parses THEN {"malformed"} ELSE {}
    /\ runs = [r \in Runs |-> NewRun] /\ files = [f \in Files |-> 0]
    /\ modelCalls = [r \in Runs |-> 0] /\ unanswered = {} /\ mixed = FALSE

StageOf(r) == agent.stages[runs[r].stage]
RunGoes(r, at) == runs' = [runs EXCEPT ![r].at = at]

\* The event is delivered: for the first time, again after a run that asked for it, or to
\* another worker while one is busy.  A run without its inputs is final.
StartRun(r) ==
    /\ runs[r].at = "new" /\ (r > 1 => runs[r - 1].at \in {"retry", "asks", "writes"})
    /\ RunGoes(r, CASE inputs = "complete" -> "asks" [] inputs = "missing" -> "final" [] OTHER -> "retry")
    /\ UNCHANGED <<retries, agent, inputs, files, modelCalls, unanswered, mixed>>

LastStage(r) == runs[r].stage = Len(agent.stages)
After(r, answer) ==
    LET what == StageOf(r).after[answer] IN
    IF what = "again" /\ runs[r].tries + 1 = StageOf(r).tries THEN StageOf(r).last ELSE what

\* The stage is tried again, the run asks for a retry, or goes on.
Follows(r, what) == LET run == runs[r] IN runs' = [runs EXCEPT ![r] =
    CASE what = "again" -> [run EXCEPT !.tries = run.tries + 1]
      [] what = "fail" -> [run EXCEPT !.at = "retry"]
      [] what = "next" -> IF LastStage(r) THEN [run EXCEPT !.at = "writes", !.tries = 0]
                          ELSE [run EXCEPT !.stage = run.stage + 1, !.tries = 0]]

\* The model is asked; its answer decides what follows.
Ask(r, answer) ==
    /\ runs[r].at = "asks" /\ StageOf(r).tries > 0
    /\ Follows(r, After(r, answer))
    /\ modelCalls' = [modelCalls EXCEPT ![r] = @ + 1]
    /\ unanswered' = IF /\ After(r, answer) = "next" /\ StageOf(r).after[answer] # "next"
                        /\ StageOf(r).last = "fail"
                     THEN unanswered \cup {r} ELSE unanswered
    /\ UNCHANGED <<retries, agent, inputs, files, mixed>>

\* With a configuration of no tries nothing is asked: it is as after the last of them.
NeverAsked(r) ==
    /\ runs[r].at = "asks" /\ StageOf(r).tries = 0
    /\ Follows(r, StageOf(r).last)
    /\ UNCHANGED <<retries, agent, inputs, files, modelCalls, unanswered, mixed>>

\* A stage whose matter was not given, or whose research is not needed, is left out.
LeaveOut(r) ==
    /\ runs[r].at = "asks" /\ StageOf(r).may /\ runs[r].tries = 0
    /\ Follows(r, "next")
    /\ UNCHANGED <<retries, agent, inputs, files, modelCalls, unanswered, mixed>>

Between(r) == runs[r].at = "writes" /\ runs[r].file = 2
\* write_artifact replaces the file.
Written(r) == [files EXCEPT ![runs[r].file] = r]

WriteArtifact(r) ==
    /\ runs[r].at = "writes" /\ files' = Written(r)
    /\ IF runs[r].file < 2 THEN runs' = [runs EXCEPT ![r].file = 2]
       ELSE \/ RunGoes(r, "success")
            \/ agent.judges /\ RunGoes(r, "final")
    /\ mixed' = (mixed \/ \E s \in Runs \ {r} : Between(s))
    /\ UNCHANGED <<retries, agent, inputs, modelCalls, unanswered>>

\* The write raises, with the file as it was or cut short; the run asks for a retry.
ArtifactFails(r) ==
    /\ runs[r].at = "writes" /\ Cardinality({s \in Runs : runs[s].file > 2}) < MaxTorn
    /\ files' \in {files, [files EXCEPT ![runs[r].file] = Torn]}
    /\ runs' = [runs EXCEPT ![r].at = "retry", ![r].file = 3]
    /\ mixed' = (mixed \/ Between(r) \/ files' # files)
    /\ UNCHANGED <<retries, agent, inputs, modelCalls, unanswered>>

AgentsNext == \E r \in Runs :
    \/ StartRun(r) \/ NeverAsked(r) \/ LeaveOut(r) \/ WriteArtifact(r) \/ ArtifactFails(r)
    \/ \E answer \in Answers : Ask(r, answer)

----------------------------------------------------------------------------
(* Properties. *)

Ended(r) == runs[r].at \in {"success", "final"} /\ inputs = "complete"

\* An agent ends with a result only after each of its required stages had an answer: the
\* retries of a stage, the stages that may be left out and the fallbacks do not make one up.
ResultsWereAnswered == \A r \in Runs : Ended(r) => r \notin unanswered

\* The two artifacts of a task are of the same run once one has ended and none is between them,
\* unless a write failed or a run wrote while another was between its two.
ArtifactsAgree ==
    (\E r \in Runs : Ended(r)) /\ (\A r \in Runs : ~Between(r)) /\ ~mixed => files[1] = files[2]

\* A run never asks more than the tries of its stages allow.
TriesUpTo(stages) ==
    LET sum[n \in 0..Len(stages)] == IF n = 0 THEN 0 ELSE sum[n - 1] + stages[n].tries IN sum
Tries(stages) == TriesUpTo(stages)[Len(stages)]
AsksBounded == \A r \in Runs : modelCalls[r] <= Tries(agent.stages)

------------------------------------------------------------------------------
(***************************************************************************)
(* The three verdicts on an implementation (workers/agents): the reviewer  *)
(* of the TDD loop, then the validation and the security agent.  Reviewer  *)
(* and security agent scan the code for patterns and merge what they find  *)
(* with the answer of the model; each computes "passed" in its own way.    *)
(***************************************************************************)

CONSTANTS
    IssueIds             \* of issues: the model numbers its own as the scans do

Medium == 2
Blocking == 3       \* critical and high
Absent == 0
Unknown == 4        \* a severity that is none of the names
Severities == 1..Blocking

VARIABLES
    code,           \* the implementation: what the scan finds, and whether its e2e tests pass
    review,         \* the reviewer's verdict and issues
    validation,     \* the validation report: its verdict, and whether all its checks passed
    security        \* the security report: its verdict and findings

verdictVars == <<code, review, validation, security>>

NoIssues == [i \in IssueIds |-> Absent]
ScanResults == [IssueIds -> {Absent, Medium, Blocking}]
ModelIssues == [IssueIds -> {Absent, Unknown} \cup Severities]

VerdictsInit ==
    /\ code \in [scan : ScanResults, tested : BOOLEAN]
    /\ review = [at |-> "none", passed |-> FALSE, issues |-> NoIssues, named |-> NoIssues]
    /\ validation = [at |-> "none", passed |-> FALSE, checked |-> FALSE]
    /\ security = [at |-> "none", passed |-> FALSE, findings |-> {}, named |-> NoIssues]

\* An issue of the model whose severity has no name is dropped.
Readable(issues) == [i \in IssueIds |-> IF issues[i] = Unknown THEN Absent ELSE issues[i]]
\* _merge_security_findings adds a finding unless an issue has its id.
MergedIssues(issues, scan) == [i \in IssueIds |-> IF issues[i] # Absent THEN issues[i] ELSE scan[i]]

HasBlocking(issues) == \E i \in IssueIds : issues[i] = Blocking

\* Without a finding of the scan, the verdict is the model's, or passed if it names none.
Passes(told, issues, scan) == told /\ (scan # NoIssues => ~HasBlocking(issues))

ReviewCode(told, named) ==
    /\ review.at = "none"
    /\ review' = LET merged == MergedIssues(Readable(named), code.scan) IN
                 [at |-> "done", passed |-> Passes(told, merged, code.scan),
                  issues |-> merged, named |-> named]
    /\ UNCHANGED <<code, validation, security>>

\* The checks that the model names; if it names none, the tests alone decide.
Validate(checked) ==
    /\ validation.at = "none"
    /\ validation' = [at |-> "done", passed |-> checked /\ code.tested, checked |-> checked]
    /\ UNCHANGED <<code, review, security>>

\* _merge_findings: a severity that has no name counts as medium.
SeverityRead(severity) == IF severity = Unknown THEN Medium ELSE severity

\* The findings of the scan and of the model, all of them.
AllFindings(named, scan) ==
    {[id |-> i, severity |-> scan[i]] : i \in {j \in IssueIds : scan[j] # Absent}}
        \cup {[id |-> i, severity |-> SeverityRead(named[i])] : i \in {j \in IssueIds : named[j] # Absent}}

\* The security agent runs after a validation that passed.
Secure(named) ==
    /\ validation.passed /\ security.at = "none"
    /\ security' = LET findings == AllFindings(named, code.scan) IN
                   [at |-> "done", passed |-> \A f \in findings : f.severity # Blocking,
                    findings |-> findings, named |-> named]
    /\ UNCHANGED <<code, review, validation>>

VerdictsNext ==
    \/ \E told \in BOOLEAN, named \in ModelIssues : ReviewCode(told, named)
    \/ \E checked \in BOOLEAN : Validate(checked)
    \/ \E named \in ModelIssues : Secure(named)

----------------------------------------------------------------------------
(* Properties. *)

\* A review that passed lists no critical or high issue, unless the scan found nothing: then the
\* severities are not looked at, and the model's word is taken.
PassedHasNoBlocking == review.passed /\ code.scan # NoIssues => ~HasBlocking(review.issues)

\* What the scan finds critical or high does not pass the review, unless an issue of the model
\* took the number of the finding: then the finding is not in the review at all.
FoundDoesNotPass ==
    review.passed => \A i \in IssueIds : code.scan[i] = Blocking => review.named[i] \in Severities

\* No issue of the model is lost to a finding of the scan.
NamedIsListed ==
    review.at = "done" => \A i \in IssueIds : review.named[i] \in Severities => review.issues[i] = review.named[i]

\* What the security agent lets pass has no critical or high finding of either kind, has passed its
\* tests, and every finding of the model is in the report, one without a severity too.
SecuredIsClean ==
    security.at = "done" =>
        /\ security.passed => code.tested /\ \A i \in IssueIds : Blocking \notin {code.scan[i], security.named[i]}
        /\ \A i \in IssueIds : security.named[i] # Absent => \E f \in security.findings :
            f.id = i /\ f.severity = SeverityRead(security.named[i])
==============================================================================
