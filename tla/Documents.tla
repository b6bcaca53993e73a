----------------------------- MODULE Documents -----------------------------
(***************************************************************************)
(* The documents that stages, explorations and the repository mapper hand  *)
(* to each other as JSON: to_dict writes every field, from_dict reads what *)
(* is there and takes a default for the rest, or fails.  A document may    *)
(* have been edited, or be of an older version, when it is read; whoever   *)
(* has read it may write it again.                                         *)
(***************************************************************************)
EXTENDS Naturals, Sequences

CONSTANT MaxReadings    \* bound: readings of a document

VARIABLES
    paper,      \* the document: class, its fault, the parts that say yes, that say nothing, its date
    readings,   \* what was read so far: the outcome, the parts that seem to say yes, the date
    intent,     \* history: the parts that its writer let say yes
    harm        \* history: the faults it has had, one at most

documentVars == <<paper, readings, intent, harm>>

\* Of a class: the keys without which from_dict fails; those whose values it converts (enumerations,
\* dates, parts of other classes); the classes of the parts; and what it says without its verdict.
Class(needs, typed, parts, says) == [needs |-> needs, typed |-> typed, parts |-> parts, says |-> says]

\* The documents of the agents need nothing.
Lenient(typed, parts, says) == Class({}, typed, parts, says)

Risk == Lenient({"level"}, {}, "nothing")
TechnologyChoice == Lenient({}, {}, "nothing")
TechSurvey == Lenient({"created_at", "technologies", "risk_assessment"},
    {"TechnologyChoice", "Risk"}, "nothing")
Interface == Lenient({}, {}, "nothing")
DataFlow == Lenient({}, {}, "nothing")
DiagramReference == Lenient({"diagram_type"}, {}, "nothing")
Component == Lenient({"interfaces"}, {"Interface"}, "nothing")
Architecture == Lenient({"style", "components", "data_flows", "diagrams", "created_at"},
    {"Component", "DataFlow", "DiagramReference"}, "nothing")
ImplementationTask == Lenient({"estimated_complexity"}, {}, "nothing")
Phase == Lenient({}, {}, "nothing")
ImplementationPlan == Lenient({"created_at", "phases", "tasks"}, {"Phase", "ImplementationTask"}, "nothing")

Requirement == Lenient({"priority", "type"}, {}, "nothing")
\* A section of sections: one within it stands for those.
PRDSection == Lenient({"requirements", "subsections"}, {"Requirement"}, "nothing")
PRDDocument == Lenient({"created_at", "objectives", "scope", "sections", "all_requirements"},
    {"PRDSection", "Requirement"}, "nothing")
AcceptanceCriterion == Lenient({}, {}, "nothing")
\* Without a level a requirement is covered.
CoverageEntry == Lenient({}, {}, "yes")
AcceptanceCriteria == Lenient({"created_at", "criteria", "coverage_matrix"},
    {"AcceptanceCriterion", "CoverageEntry"}, "nothing")

TestCase == Lenient({"test_type"}, {}, "nothing")
TestSuite == Lenient({"test_cases"}, {"TestCase"}, "nothing")
CodeFile == Lenient({}, {}, "nothing")
Implementation == Lenient({"files"}, {"CodeFile"}, "nothing")
TestResult == Lenient({}, {}, "no")
\* Without the number of failures all tests passed.
TestRunResult == Lenient({"results", "created_at"}, {"TestResult"}, "yes")
ReviewIssue == Lenient({"severity"}, {}, "nothing")
CodeReview == Lenient({"issues", "created_at"}, {"ReviewIssue"}, "no")
CodeChange == Lenient({}, {}, "nothing")
DebugAnalysis == Lenient({"code_changes", "created_at"}, {"CodeChange"}, "nothing")

ValidationCheck == Lenient({"category"}, {}, "no")
ValidationReport == Lenient({"checks", "e2e_results"}, {"ValidationCheck", "TestRunResult"}, "no")
SecurityFinding == Lenient({"severity", "category"}, {}, "nothing")
SecurityReport == Lenient({"findings"}, {"SecurityFinding"}, "no")

ArtifactReference == Lenient({"artifact_type"}, {}, "nothing")
ReleaseManifest == Lenient({"artifacts"}, {"ArtifactReference"}, "nothing")
DeploymentStep == Lenient({"step_type"}, {}, "nothing")
HealthCheck == Lenient({"check_type"}, {}, "nothing")
DeploymentPlan == Lenient({"strategy", "steps", "health_checks"},
    {"DeploymentStep", "HealthCheck"}, "nothing")
MetricDefinition == Lenient({"metric_type"}, {}, "nothing")
AlertRule == Lenient({"severity"}, {}, "nothing")
DashboardConfig == Lenient({}, {}, "nothing")
MonitoringConfig == Lenient({"metrics", "alerts", "dashboards"},
    {"MetricDefinition", "AlertRule", "DashboardConfig"}, "nothing")

\* The results of explorations, and the contexts of repositories, need their fields.
ToolCall == Class({"tool_name", "arguments", "result", "duration_ms", "timestamp"},
    {"timestamp"}, {}, "nothing")
Citation == Class({"file_path", "line_start", "line_end", "content_hash"}, {}, {}, "nothing")
\* Without a confidence a finding is certain.
Finding == Class({"description", "evidence", "source_file"}, {"confidence"}, {}, "yes")
ExplorationStep == Class({"iteration", "thought"}, {"tool_calls"}, {"ToolCall"}, "nothing")
ExplorationTrajectory == Class({"start_time"}, {"steps", "start_time"}, {"ExplorationStep"}, "nothing")
RLMUsage == Class({"subcall_count", "cached_subcalls", "total_tokens", "wall_time_seconds", "model_calls"},
    {}, {}, "nothing")
RLMResult == Class({"task_id", "success", "trajectory", "usage"},
    {"findings", "trajectory", "usage", "citations"},
    {"Finding", "ExplorationTrajectory", "RLMUsage", "Citation"}, "nothing")
SymbolInfo == Class({"name", "kind", "file_path", "start_line", "end_line"}, {"kind"}, {}, "nothing")
ImportInfo == Class({"source", "names", "is_relative", "line_number"}, {}, {}, "nothing")
ParsedFile == Class({"path", "language"}, {"symbols", "imports"},
    {"SymbolInfo", "ImportInfo"}, "nothing")
ASTContext == Class({"repo_path", "git_sha", "created_at"}, {"files", "created_at"},
    {"ParsedFile"}, "nothing")

\* The class of each name.
Schema ==
    [Risk |-> Risk, TechnologyChoice |-> TechnologyChoice, TechSurvey |-> TechSurvey,
     Interface |-> Interface, DataFlow |-> DataFlow, DiagramReference |-> DiagramReference,
     Component |-> Component, Architecture |-> Architecture, ImplementationTask |-> ImplementationTask,
     Phase |-> Phase, ImplementationPlan |-> ImplementationPlan, Requirement |-> Requirement,
     PRDSection |-> PRDSection, PRDDocument |-> PRDDocument,
     AcceptanceCriterion |-> AcceptanceCriterion, CoverageEntry |-> CoverageEntry,
     AcceptanceCriteria |-> AcceptanceCriteria, TestCase |-> TestCase, TestSuite |-> TestSuite,
     CodeFile |-> CodeFile, Implementation |-> Implementation, TestResult |-> TestResult,
     TestRunResult |-> TestRunResult, ReviewIssue |-> ReviewIssue, CodeReview |-> CodeReview,
     CodeChange |-> CodeChange, DebugAnalysis |-> DebugAnalysis, ValidationCheck |-> ValidationCheck,
     ValidationReport |-> ValidationReport, SecurityFinding |-> SecurityFinding,
     SecurityReport |-> SecurityReport, ArtifactReference |-> ArtifactReference,
     ReleaseManifest |-> ReleaseManifest, DeploymentStep |-> DeploymentStep,
     HealthCheck |-> HealthCheck, DeploymentPlan |-> DeploymentPlan,
     MetricDefinition |-> MetricDefinition, AlertRule |-> AlertRule,
     DashboardConfig |-> DashboardConfig, MonitoringConfig |-> MonitoringConfig, ToolCall |-> ToolCall,
     Citation |-> Citation, Finding |-> Finding, ExplorationStep |-> ExplorationStep,
     ExplorationTrajectory |-> ExplorationTrajectory, RLMUsage |-> RLMUsage, RLMResult |-> RLMResult,
     SymbolInfo |-> SymbolInfo, ImportInfo |-> ImportInfo, ParsedFile |-> ParsedFile,
     ASTContext |-> ASTContext]

\* Of the keys whose values are converted, those of one value; the others hold parts.
Values == {"level", "diagram_type", "style", "estimated_complexity", "priority", "type", "test_type",
           "severity", "category", "artifact_type", "step_type", "check_type", "strategy", "metric_type",
           "kind", "confidence", "created_at", "start_time", "timestamp"}

\* Who reads which class, and what a failure of from_dict is to them: any is caught, or those of
\* missing keys and of values, of missing keys, or none.
Everything == {"key", "value", "type"}
InDiscovery == [PRDDocument |-> Everything, AcceptanceCriteria |-> Everything]
InDesign == [TechSurvey |-> {}, Architecture |-> {}, ImplementationPlan |-> {}]
InDevelopment == [TestSuite |-> {}, Implementation |-> {}, CodeReview |-> {}, DebugAnalysis |-> {}]
InDeployment == [ValidationReport |-> Everything, SecurityReport |-> Everything,
                 ReleaseManifest |-> Everything, DeploymentPlan |-> Everything,
                 MonitoringConfig |-> Everything]
InReleases == [ValidationReport |-> {}, SecurityReport |-> {}, ReleaseManifest |-> {},
               DeploymentPlan |-> {}]
InAudits == [RLMResult |-> {"key"}]
InCaches == [ASTContext |-> {"key", "value"}]
Readers == {InDiscovery, InDesign, InDevelopment, InDeployment, InReleases, InAudits, InCaches}
Roots == UNION {DOMAIN by : by \in Readers}

\* A class and those of its parts, four deep.
PartsOf(names) == names \cup UNION {Schema[n].parts : n \in names}
WithinPaper(root) == PartsOf(PartsOf(PartsOf({root})))
Saying(root) == {n \in WithinPaper(root) : Schema[n].says # "nothing"}

NoFault == [within |-> "none", key |-> "none", is |-> "none"]
NoPaper == [class |-> "none", fault |-> NoFault, yes |-> {}, unsaid |-> {}, date |-> 0]

\* What an edit, or an older version, leaves out or gets wrong: a key, or a verdict.
Faults(root) == UNION {
    [within : {n}, key : Schema[n].needs \cup Schema[n].typed, is : {"absent", "wrong"}]
    \cup [within : {n} \cap Saying(root), key : {"verdict"}, is : {"absent"}] : n \in WithinPaper(root)}

DocumentInit == paper = NoPaper /\ readings = <<>> /\ intent = {} /\ harm = {}

\* to_dict: every field.
AsWritten(root, yes) == [NoPaper EXCEPT !.class = root, !.yes = yes]

WritePaper(root, yes) ==
    /\ paper = NoPaper
    /\ paper' = AsWritten(root, yes) /\ intent' = yes
    /\ UNCHANGED <<readings, harm>>

EditPaper(fault) ==
    /\ paper # NoPaper /\ harm = {} /\ Len(readings) < MaxReadings
    /\ paper' = IF fault.key = "verdict"
                THEN [paper EXCEPT !.fault = fault, !.unsaid = {fault.within}, !.yes = @ \ {fault.within}]
                ELSE [paper EXCEPT !.fault = fault]
    /\ harm' = harm \cup {fault}
    /\ UNCHANGED <<readings, intent>>

\* How from_dict fails: a KeyError, a ValueError, or a TypeError; or not.
HowItFails(fault) ==
    CASE fault.is = "absent" /\ fault.key \in Schema[fault.within].needs -> "key"
      [] fault.is = "wrong" /\ fault.key \in Schema[fault.within].typed \cap Values -> "value"
      [] fault.is = "wrong" /\ fault.key \in Schema[fault.within].typed \ Values -> "type"
      [] OTHER -> "no"

Undated == paper.fault.is = "absent" /\ paper.fault.key = "created_at"

\* A date that is not there is that of the reading.
DateRead == IF Undated THEN Len(readings) + 1 ELSE paper.date

SeemYes == paper.yes \cup {n \in paper.unsaid : Schema[n].says = "yes"}

\* from_dict or from_json of one of the readers; what it catches it takes for no document.
ReadPaper(by) ==
    /\ paper.class \in DOMAIN by /\ Len(readings) < MaxReadings
    /\ readings' = Append(readings,
        LET failure == HowItFails(paper.fault) IN
        IF failure = "no" THEN [outcome |-> "read", yes |-> SeemYes, date |-> DateRead]
        ELSE [outcome |-> IF failure \in by[paper.class] THEN "none" ELSE "raised", yes |-> {}, date |-> 0])
    /\ UNCHANGED <<paper, intent, harm>>

\* Whoever has read it writes it: what was a default is now said.
RewritePaper ==
    /\ readings # <<>> /\ paper.fault # NoFault
    /\ LET last == readings[Len(readings)] IN
       /\ last.outcome = "read"
       /\ paper' = [AsWritten(paper.class, last.yes) EXCEPT !.date = last.date]
    /\ UNCHANGED <<readings, intent, harm>>

DocumentNext ==
    \/ \E root \in Roots : \E yes \in {{}, Saying(root)} : WritePaper(root, yes)
    \/ paper # NoPaper /\ \E fault \in Faults(paper.class) : EditPaper(fault)
    \/ \E by \in Readers : ReadPaper(by)
    \/ RewritePaper

----------------------------------------------------------------------------
(* Properties. *)

\* A document that nobody has edited is read by everyone as it was written.
WrittenIsRead == harm = {} => \A i \in DOMAIN readings :
    readings[i] = [outcome |-> "read", yes |-> intent, date |-> 0]

\* However often a document is edited, read and written again, a part of it seems to say yes only
\* if its writer said so, or if it is a part that says yes without its verdict: a test run,
\* the coverage of a requirement, and a finding of an exploration.
VerdictsAreClosed == \A i \in DOMAIN readings :
    readings[i].yes \subseteq intent \cup {"TestRunResult", "CoverageEntry", "Finding"}

\* What a document of the agents lacks never fails its reading.
LackingIsRead == \A i \in DOMAIN readings :
    readings[i].outcome # "read" =>
        \E f \in harm : f.is = "wrong" \/ paper.class \in {"RLMResult", "ASTContext"}

\* Two readings agree on the date, unless it was missing.
DatesStand == \A i, j \in DOMAIN readings :
    readings[i].outcome = "read" /\ readings[j].outcome = "read" /\ readings[i].date # readings[j].date =>
        \E f \in harm : f.is = "absent" /\ f.key = "created_at"
=============================================================================
