------------------------------ MODULE TddLoop ------------------------------
(***************************************************************************)
(* One run of the TDD loop (workers/agents/development/tdd_orchestrator,   *)
(* test_runner): tests are written once, then an implementation is coded,  *)
(* tested and reviewed until it passes, with a debugger after too many     *)
(* failures, and what passed goes to the HITL-4 gate.  The agents are      *)
(* modelled from what the loop reads of their results, and the tests that  *)
(* run are taken to be run on the implementation coded last: the loop      *)
(* itself writes no file.                                                  *)
(***************************************************************************)
EXTENDS Naturals, FiniteSets

CONSTANTS
    Tests,             \* the test functions
    Parametrized,      \* those pytest reports as name[case]
    MaxCodingRetries   \* config.max_coding_retries

ASSUME TddAssumption == MaxCodingRetries \in Nat

\* The loop gives up this many failures after the debugger's first.
Grace == 5

VARIABLES
    tddAt,      \* the agent or step awaited
    version,    \* implementations coded so far
    failCount,
    broken,     \* the tests the last implementation fails
    testedAs,   \* the version of test_result, 0 for none
    analysis,   \* the version debug_analysis is about, 0 for none
    given,      \* history: the analysis the last version was coded with
    missed,     \* history: the debugger's last run gave no analysis
    reviewedAs, \* history: the version of the last review that passed
    submitted,  \* the version in the HITL-4 evidence, 0 for none
    verdict     \* none, succeeded, failed, raised

tddVars == <<tddAt, version, failCount, broken, testedAs, analysis, given, missed, reviewedAs, submitted, verdict>>

TddInit ==
    /\ tddAt = "utest" /\ version = 0 /\ failCount = 0 /\ broken = {} /\ testedAs = 0
    /\ analysis = 0 /\ given = 0 /\ missed = FALSE /\ reviewedAs = 0 /\ submitted = 0
    /\ verdict = "none"

Conclude(v) == tddAt' = "ended" /\ verdict' = v
Await(step) == tddAt' = step /\ UNCHANGED verdict

\* The end of the loop's body.
GoAfter(fails, step) == IF fails > MaxCodingRetries + Grace THEN Conclude("failed") ELSE Await(step)

\* An agent without success, or without the object the loop extracts, ends the loop.
WriteTests ==
    /\ tddAt = "utest"
    /\ Await("coding") \/ Conclude("failed")
    /\ UNCHANGED <<version, failCount, broken, testedAs, analysis, given, missed, reviewedAs, submitted>>

CodeVersion ==
    /\ tddAt = "coding"
    /\ \/ Conclude("failed") /\ UNCHANGED <<version, given>>
       \/ Await("tests") /\ version' = version + 1 /\ given' = analysis
    /\ UNCHANGED <<failCount, broken, testedAs, analysis, missed, reviewedAs, submitted>>

\* The output lines the runner's pattern matches: a name in brackets is none of them.
Seen(fails) == fails \ Parametrized
\* Mutant: one test that passes is enough.
PassedSome(fails) == Seen(fails) # Tests \ Parametrized
\* all_passed: no failure was parsed, whatever pytest's exit code, which is only
\* compared with 2.
AllPassed(fails) == Seen(fails) = {}

RunTests ==
    /\ tddAt = "tests"
    /\ \/ \E fails \in SUBSET Tests :
            /\ broken' = fails /\ testedAs' = version
            /\ IF AllPassed(fails)
               THEN Await("review") /\ UNCHANGED failCount
               ELSE /\ failCount' = failCount + 1
                    /\ Await(IF failCount' > MaxCodingRetries THEN "debugger" ELSE "coding")
       \* The runner raises: a timeout, or an exit code from 2.
       \/ Conclude("failed") /\ UNCHANGED <<broken, testedAs, failCount>>
    /\ UNCHANGED <<version, analysis, given, missed, reviewedAs, submitted>>

ResetAnalysis == analysis' = 0 /\ missed' = FALSE

Review ==
    /\ tddAt = "review"
    /\ \/ Conclude("failed") /\ UNCHANGED <<failCount, analysis, missed, reviewedAs>>
       \/ Await("gate") /\ reviewedAs' = version /\ UNCHANGED <<failCount, analysis, missed>>
       \/ /\ failCount' = failCount + 1 /\ GoAfter(failCount', "coding")
          /\ ResetAnalysis
          /\ UNCHANGED reviewedAs
    /\ UNCHANGED <<version, broken, testedAs, given, submitted>>

\* A debugger without success leaves debug_analysis as it is; one whose result holds no
\* analysis clears it.
Debug ==
    /\ tddAt = "debugger"
    /\ GoAfter(failCount, "coding")
    /\ \/ analysis' = version /\ missed' = FALSE
       \/ analysis' = 0 /\ missed' = FALSE
       \/ UNCHANGED analysis /\ missed' = TRUE
    /\ UNCHANGED <<version, failCount, broken, testedAs, given, reviewedAs, submitted>>

\* request_gate, and the result.  Without a dispatcher nothing is submitted; an
\* exception, before or after the request was stored, leaves the loop.
Hitl4 ==
    /\ tddAt = "gate"
    /\ \/ submitted' = version /\ Conclude("succeeded")
       \/ submitted' \in {0, version} /\ Conclude("raised")
       \/ UNCHANGED submitted /\ Conclude("succeeded")
    /\ UNCHANGED <<version, failCount, broken, testedAs, analysis, given, missed, reviewedAs>>

TddProgress == WriteTests \/ CodeVersion \/ RunTests \/ Review \/ Debug \/ Hitl4
TddNext == TddProgress

----------------------------------------------------------------------------
(* Properties. *)

TddTypeOK ==
    /\ tddAt \in {"utest", "coding", "tests", "review", "debugger", "gate", "ended"}
    /\ broken \subseteq Tests /\ {testedAs, analysis, given, reviewedAs, submitted} \subseteq 0..version
    /\ verdict \in {"none", "succeeded", "failed", "raised"}

\* What succeeded, and what HITL-4 is shown, is one implementation, which passed the
\* review and every test whose failure the runner can read: not a parametrized one.
SubmittedIsJudged ==
    submitted # 0 \/ verdict = "succeeded" =>
        /\ submitted \in {0, version} /\ testedAs = version /\ reviewedAs = version
        /\ broken \subseteq Parametrized

\* The coder is called a bounded number of times, whichever of tests and review fails.
CodingsBounded == version <= MaxCodingRetries + Grace + 1

\* The analysis the coder is given is of the version before, unless the debugger's last
\* run failed: the loop means to go on "without debug analysis" then, and keeps the old.
AnalysisIsRecent ==
    given # 0 /\ tddAt = "tests" => given = version - 1 \/ missed

\* The loop ends, whatever the agents answer.
LoopEnds == <>(tddAt = "ended")
=============================================================================
