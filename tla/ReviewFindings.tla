--------------------------- MODULE ReviewFindings ----------------------------
(***************************************************************************)
(* One reviewer's work on a target (workers/swarm/executor): the files of  *)
(* the target are read one after the other while their lines are within a  *)
(* limit, from the workspace or from GitHub; the model is asked once; its  *)
(* answer is taken as JSON, or else as markdown.                           *)
(***************************************************************************)
EXTENDS Naturals, Sequences, FiniteSets

CONSTANTS
    MaxLines0,      \* MAX_TOTAL_LINES
    LineCounts,     \* the lines of a file
    MaxFiles        \* of a target

ASSUME ReviewAssumption == {MaxLines0, MaxFiles} \cup LineCounts \subseteq Nat

VARIABLES
    target,         \* local or on GitHub, whether it is found, and its files: lines, and too large or not
    extraction,     \* the extraction: the place in the list, the files taken and their lines, the errors
    outcome,        \* the ReviewerResult
    answered        \* history: what the model answered: per item whether it is a finding; none before

reviewVars == <<target, extraction, outcome, answered>>

File == [lines : LineCounts, large : BOOLEAN]
NoAnswer == [form |-> "none", items |-> <<>>]
NoOutcome == [status |-> "none", files |-> {}, findings |-> {}]

ReviewInit ==
    /\ target \in [where : {"local", "github"}, found : BOOLEAN,
                   files : UNION {[1..n -> File] : n \in 0..MaxFiles}]
    /\ extraction = [at |-> 0, taken |-> {}, total_lines |-> 0, failed |-> {}, skipped |-> {}]
    /\ outcome = NoOutcome /\ answered = NoAnswer

InProgress == outcome.status = "none"

\* extract: the path, or the tree of the repository, is there; else there are no files.
FindTarget ==
    /\ InProgress /\ extraction.at = 0
    /\ extraction' = [extraction EXCEPT !.at = IF target.found THEN 1 ELSE Len(target.files) + 1]
    /\ UNCHANGED <<target, outcome, answered>>

More == InProgress /\ extraction.at \in 1..Len(target.files) /\ extraction.total_lines < MaxLines0
Fits(file) == extraction.total_lines + file.lines <= MaxLines0

\* A file that does not fit is left out; on GitHub, so are all that follow.
AfterMisfit(i) == IF target.where = "local" THEN i + 1 ELSE Len(target.files) + 1

ReadFile ==
    /\ More
    /\ LET i == extraction.at
           file == target.files[i]
       IN extraction' = CASE file.large -> [extraction EXCEPT !.at = i + 1]
                       [] ~file.large /\ Fits(file) -> [extraction EXCEPT !.at = i + 1, !.taken = @ \cup {i},
                                                                 !.total_lines = @ + file.lines]
                       [] OTHER -> [extraction EXCEPT !.at = AfterMisfit(i), !.skipped = @ \cup {i}]
    /\ UNCHANGED <<target, outcome, answered>>

\* The file cannot be read, or fetched: an error is noted, which nobody is told.
ReadFails ==
    /\ More /\ ~target.files[extraction.at].large
    /\ extraction' = [extraction EXCEPT !.at = @ + 1, !.failed = @ \cup {extraction.at}]
    /\ UNCHANGED <<target, outcome, answered>>

Extracted == InProgress /\ extraction.at > 0 /\ ~More

\* Without files the review is a success without findings, whatever the reason.
NothingToReview ==
    /\ Extracted /\ extraction.taken = {}
    /\ outcome' = [NoOutcome EXCEPT !.status = "success"]
    /\ UNCHANGED <<target, extraction, answered>>

Items == UNION {[1..n -> BOOLEAN] : n \in 0..2}

\* parse: JSON of a known shape gives the items with all their fields; text, the parts under a
\* heading that is a severity; anything else gives no finding.
Parsed(form, items) ==
    IF form = "other" THEN {} ELSE {k \in DOMAIN items : items[k]}

AnswerReview(form, items) ==
    /\ Extracted /\ extraction.taken # {}
    /\ answered' = [form |-> form, items |-> items]
    /\ outcome' = [status |-> "success", files |-> extraction.taken, findings |-> Parsed(form, items)]
    /\ UNCHANGED <<target, extraction>>

\* The model, its key or its configuration fails; a target whose URL cannot be split is not found.
AskFails ==
    /\ Extracted /\ extraction.taken # {}
    /\ outcome' = [NoOutcome EXCEPT !.status = "failed"]
    /\ UNCHANGED <<target, extraction, answered>>

ReviewNext ==
    \/ FindTarget \/ ReadFile \/ ReadFails \/ NothingToReview \/ AskFails
    \/ \E form \in {"json", "markdown", "other"}, items \in Items : AnswerReview(form, items)

----------------------------------------------------------------------------
(* Properties. *)

\* The lines of those files that are at the given places, up to each place of the list.
LinesUpTo(files, places) ==
    LET sum[n \in 0..Len(files)] ==
        IF n = 0 THEN 0 ELSE sum[n - 1] + (IF n \in places THEN files[n].lines ELSE 0)
    IN sum

\* A review's files are within the limit, and a file of the target that is not among them was too
\* large or unreadable, or found no room, for an empty one when the limit was reached; on GitHub,
\* or came after one that found none.
ReviewedOrNoRoom == outcome.status = "success" /\ target.found =>
    LET lines == LinesUpTo(target.files, extraction.taken) IN
    /\ lines[Len(target.files)] <= MaxLines0
    /\ \A i \in DOMAIN target.files \ extraction.taken :
        \/ target.files[i].large \/ i \in extraction.failed
        \/ lines[i - 1] >= MaxLines0 \/ lines[i - 1] + target.files[i].lines > MaxLines0
        \/ target.where = "github" /\ \E j \in extraction.skipped : j < i

\* A success without findings means that the model answered without one, that its answer had
\* neither form, or that not one file was read: a result does not tell which.
NoFindingsHasACause == outcome.status = "success" /\ outcome.findings = {} =>
    \/ extraction.taken = {} /\ outcome.files = {}
    \/ answered.form = "other" \/ \A k \in DOMAIN answered.items : ~answered.items[k]

------------------------------------------------------------------------------
(***************************************************************************)
(* The aggregation of a swarm's findings (workers/swarm/aggregator): each  *)
(* finding of a reviewer that succeeded is compared with the entries of    *)
(* the report so far, and merged into the first one it repeats.  File,     *)
(* root category and title of a finding are one number, its kind: titles   *)
(* are compared by a ratio against a threshold, which is not transitive.   *)
(***************************************************************************)

CONSTANTS
    Critics,        \* the reviewers whose results are aggregated
    MaxKind, MaxLine, MaxSeverity, \* bounds; severity 1 is the worst
    MaxFindings     \* bound on the findings of all reviewers

ASSUME FindingsAssumption == {MaxKind, MaxLine, MaxSeverity, MaxFindings} \subseteq Nat

VARIABLES
    reading,        \* the reviewer whose findings are taken, or none
    reviewersDone,  \* reviewers_completed and reviewers_failed
    report,         \* unique
    removed,        \* duplicates_removed
    given           \* history: the findings taken, in order

mergeVars == <<reading, reviewersDone, report, removed, given>>

\* A finding without a line has first = 0; one without a last line has last = first.
\* "of", a history, names the findings that an entry stands for.
Places == {p \in (0..MaxLine) \X (0..MaxLine) : p[1] <= p[2] /\ (p[1] = 0 => p[2] = 0)}

MergeInit ==
    reading = "none" /\ reviewersDone = [ok |-> {}, failed |-> {}] /\ report = <<>> /\ removed = 0 /\ given = <<>>

LinesOverlap(f, g) == f.first # 0 /\ g.first # 0 /\ ~(f.last < g.first \/ g.last < f.first)

Alike(k, l) == k <= l + 1 /\ l <= k + 1

IsDuplicate(f, g) == LinesOverlap(f, g) /\ Alike(f.kind, g.kind)

Lower(m, n) == IF m <= n THEN m ELSE n
Higher(m, n) == IF m >= n THEN m ELSE n

\* Mutant: the entry is the base of the merge whatever the severities are.
BaseIsFirst(f, g) == f
Base(f, g) == IF f.severity <= g.severity THEN f ELSE g

MergeFindings(f, g) ==
    [Base(f, g) EXCEPT !.first = Lower(f.first, g.first), !.last = Higher(f.last, g.last),
                       !.by = f.by \cup g.by, !.of = f.of \cup g.of]

\* A reviewer's result is read: the findings of one that did not succeed are left out.
ReadResult(r) ==
    /\ r \notin reviewersDone.ok \cup reviewersDone.failed
    /\ \/ reading' = r /\ reviewersDone' = [reviewersDone EXCEPT !.ok = @ \cup {r}]
       \/ reading' = "none" /\ reviewersDone' = [reviewersDone EXCEPT !.failed = @ \cup {r}]
    /\ UNCHANGED <<report, removed, given>>

Repeated(f) == {i \in DOMAIN report : IsDuplicate(f, report[i])}

MergeFirst(f) ==
    \E i \in Repeated(f) :
        /\ \A j \in Repeated(f) : i <= j
        /\ report' = [report EXCEPT ![i] = MergeFindings(@, f)]

TakeFinding(f) ==
    /\ given' = Append(given, f)
    /\ \/ Repeated(f) # {} /\ MergeFirst(f) /\ removed' = removed + 1
       \/ Repeated(f) = {} /\ report' = Append(report, f) /\ removed' = removed
    /\ UNCHANGED <<reading, reviewersDone>>

NextFinding ==
    /\ reading # "none" /\ Len(given) < MaxFindings
    /\ \E kind \in 1..MaxKind, severity \in 1..MaxSeverity, p \in Places :
        /\ p[1] = 0 => kind = 1 /\ severity = 1  \* it repeats none, whatever it says
        /\ TakeFinding([kind |-> kind, first |-> p[1], last |-> p[2], severity |-> severity,
                         by |-> {reading}, of |-> {Len(given) + 1}])

MergeNext == NextFinding \/ \E r \in Critics : ReadResult(r)

----------------------------------------------------------------------------
(* Properties. *)

MergeTypeOK ==
    /\ reading \in Critics \cup {"none"} /\ reviewersDone.ok \cap reviewersDone.failed = {}
    /\ removed \in 0..MaxFindings /\ Len(report) <= MaxFindings

\* Through any chain of merges every finding taken stays in one entry of the report, which is as
\* severe as it, covers its lines and names its reviewer; and what was removed is what was merged.
FindingsKept ==
    /\ Len(report) + removed = Len(given)
    /\ \A k \in DOMAIN given : \E i \in DOMAIN report :
        /\ k \in report[i].of /\ \A j \in DOMAIN report \ {i} : k \notin report[j].of
        /\ report[i].severity <= given[k].severity /\ given[k].by \subseteq report[i].by
        /\ report[i].first <= given[k].first /\ given[k].last <= report[i].last

\* Two entries of the report are duplicates of one another only when a merge changed one of them:
\* an entry that a merge widened is not compared again with the others.
RepeatsWereWidened ==
    \A i, j \in DOMAIN report :
        i # j /\ IsDuplicate(report[i], report[j]) => Cardinality(report[i].of \cup report[j].of) > 2
==============================================================================
