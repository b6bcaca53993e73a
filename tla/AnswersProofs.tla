---------------------------- MODULE AnswersProofs ---------------------------
(* What agents, reviewers and the model answer, and what becomes of an idea,   *)
(* for every value of the constants: the runs of the agents, the verdicts on   *)
(* an implementation, the review of a repository, the report that findings are *)
(* merged into, the session of a swarm as it is shown, the labels of an idea   *)
(* and their taxonomy, the requirements of an interview, the chats of a        *)
(* session, and when it may be submitted.  Each has its specification, its     *)
(* invariant, which is inductive, and a lemma that the one keeps the other;    *)
(* MCStudies states what they promise together (StudiesProofs).                *)
EXTENDS AgentRuns, ReviewFindings, SwarmStatus, IdeationChat, IdeaLabels, RequirementTrace,
    FiniteSetTheorems, SequenceTheorems, WellFoundedInduction, TLAPS
-----------------------------------------------------------------------------
(* Induction over numbers, for sets of them instead of formulas.             *)

NatLess == {p \in Nat \X Nat : p[1] < p[2]}

\* Numbers have a least one.
LEMMA Least ==
    ASSUME NEW S, S \subseteq Nat, S # {}
    PROVE  \E x \in S : \A y \in S : x <= y
<1>1. IsWellFoundedOn(NatLess, Nat)
  BY NatLessThanWellFounded, Zenon DEF OpToRel, NatLess
<1>2. PICK x \in S : \A y \in S : ~ (<<y, x>> \in NatLess)
  BY <1>1, WFMin, Zenon
<1>3. ASSUME NEW y \in S
      PROVE  x <= y
  <2>1. x \in Nat /\ y \in Nat
    OBVIOUS
  <2>2. ~ (<<y, x>> \in NatLess)
    BY <1>2
  <2> QED
    BY <2>1, <2>2 DEF NatLess
<1> QED
  BY <1>3

\* What holds of 0 and of the next of each holds of all.
LEMMA AllNumbers ==
    ASSUME NEW S, 0 \in S, \A n \in Nat : n \in S => n + 1 \in S
    PROVE  Nat \subseteq S
<1> SUFFICES ASSUME Nat \ S # {}
             PROVE  FALSE
  OBVIOUS
<1>1. Nat \ S \subseteq Nat
  OBVIOUS
<1>2. PICK x \in Nat \ S : \A y \in Nat \ S : x <= y
  BY <1>1, Least, Zenon
<1>3. x # 0
  OBVIOUS
<1>4. x - 1 \in Nat /\ x - 1 \in S
  BY <1>2, <1>3
<1> QED
  BY <1>2, <1>4

-----------------------------------------------------------------------------
(* The runs of an agent.                                                     *)

\* A sum that is written as a recursive function exists.
LEMMA SumsExist ==
    ASSUME NEW N \in Nat, NEW a, \A k \in 1..N : a[k] \in Nat
    PROVE  \E g \in [0..N -> Nat] : g[0] = 0 /\ \A k \in 1..N : g[k] = g[k - 1] + a[k]
<1> DEFINE Sums(n, g) == g[0] = 0 /\ \A k \in 1..n : g[k] = g[k - 1] + a[k]
           S == {n \in Nat : n <= N => \E g \in [0..n -> Nat] : Sums(n, g)}
<1>1. 0 \in S
  <2> DEFINE z == [k \in 0..0 |-> 0]
  <2>1. z \in [0..0 -> Nat] /\ Sums(0, z)
    OBVIOUS
  <2> QED
    BY <2>1
<1>2. ASSUME NEW n \in Nat, n \in S
      PROVE  n + 1 \in S
  <2>1. SUFFICES ASSUME n + 1 <= N
                 PROVE  \E g \in [0..(n + 1) -> Nat] : Sums(n + 1, g)
    <3> HIDE DEF Sums
    <3> QED
      OBVIOUS
  <2>2. PICK g \in [0..n -> Nat] : Sums(n, g)
    <3>1. n <= N
      BY <2>1
    <3> HIDE DEF Sums
    <3> QED
      BY <1>2, <3>1
  <2> DEFINE h == [k \in 0..(n + 1) |-> IF k = n + 1 THEN g[n] + a[n + 1] ELSE g[k]]
  <2>3. a[n + 1] \in Nat
    BY <2>1
  <2>4. h \in [0..(n + 1) -> Nat]
    BY <2>3
  <2>5. ASSUME NEW k \in 1..(n + 1)
        PROVE  h[k] = h[k - 1] + a[k]
    <3>1. k - 1 \in 0..n /\ h[k - 1] = g[k - 1]
      OBVIOUS
    <3>2. CASE k = n + 1
      BY <3>1, <3>2
    <3>3. CASE k # n + 1
      BY <2>2, <3>1, <3>3
    <3> QED
      BY <3>2, <3>3
  <2>6. h[0] = 0
    BY <2>2
  <2> HIDE DEF h
  <2> QED
    BY <2>4, <2>5, <2>6
<1>3. N \in S
  <2> HIDE DEF S
  <2> QED
    BY <1>1, <1>2, AllNumbers
<1>4. \E g \in [0..N -> Nat] : Sums(N, g)
  <2>1. N <= N
    OBVIOUS
  <2> HIDE DEF Sums
  <2> QED
    BY <1>3, <2>1
<1> QED
  BY <1>4

\* The tries of the stages up to each of them (AgentRuns) are such a sum.
LEMMA TriesAreSummed ==
    ASSUME NEW stages, Len(stages) \in Nat, \A k \in 1..Len(stages) : stages[k].tries \in Nat
    PROVE  /\ TriesUpTo(stages) \in [0..Len(stages) -> Nat] /\ TriesUpTo(stages)[0] = 0
           /\ \A k \in 1..Len(stages) : TriesUpTo(stages)[k] = TriesUpTo(stages)[k - 1] + stages[k].tries
<1> DEFINE N == Len(stages)
           a == [k \in 1..N |-> stages[k].tries]
           sum == TriesUpTo(stages)
           Adds(g) == [n \in 0..N |-> IF n = 0 THEN 0 ELSE g[n - 1] + stages[n].tries]
<1>1. PICK g \in [0..N -> Nat] : g[0] = 0 /\ \A k \in 1..N : g[k] = g[k - 1] + a[k]
  <2>1. \A k \in 1..N : a[k] \in Nat
    OBVIOUS
  <2> HIDE DEF a
  <2> QED
    BY <2>1, SumsExist
<1>2. g = Adds(g)
  <2>1. \A n \in 0..N : g[n] = IF n = 0 THEN 0 ELSE g[n - 1] + stages[n].tries
    BY <1>1
  <2> QED
    BY <2>1
<1>3. sum = Adds(sum)
  <2>1. sum = CHOOSE f : f = Adds(f)
    BY DEF TriesUpTo
  <2> HIDE DEF sum, Adds
  <2> QED
    BY <1>2, <2>1, Zenon
<1> HIDE DEF sum
<1>4. sum[0] = 0 /\ \A n \in 1..N : sum[n] = sum[n - 1] + stages[n].tries
  BY <1>3
<1>5. sum \in [0..N -> Nat]
  <2> DEFINE S == {n \in Nat : n <= N => sum[n] \in Nat}
  <2>1. 0 \in S
    BY <1>4
  <2>2. ASSUME NEW n \in Nat, n \in S
        PROVE  n + 1 \in S
    <3>1. n + 1 <= N => sum[n + 1] = sum[n] + stages[n + 1].tries
      BY <1>4
    <3> QED
      BY <2>2, <3>1
  <2>3. \A n \in 0..N : sum[n] \in Nat
    <3>1. Nat \subseteq S
      <4> HIDE DEF S
      <4> QED
        BY <2>1, <2>2, AllNumbers
    <3> QED
      BY <3>1
  <2> QED
    BY <1>3, <2>3
<1> QED
  BY <1>4, <1>5 DEF sum

AgentsSpec == AgentsInit /\ [][AgentsNext]_agentVars

\* What a stage may do after an answer, and the shape of its entry in the table.
FollowUps == {"next", "again", "fail"}
StageType == [tries : Nat, may : BOOLEAN, last : {"next", "fail"}, after : [Answers -> FollowUps]]

\* The stages of the fourteen agents are such entries, whatever max_retries is.
LEMMA StagesTyped ==
    ASSUME retries \in Nat
    PROVE  /\ {RequirementsStage, PrdStage, CriteriaStage, NeedsStage, SynthesisStage, RecommendStage,
               ComponentsStage, DiagramsStage, NfrStage, BreakdownStage} \subseteq StageType
           /\ {DependenciesStage, ComplexityStage, CriticalPathStage, TestSuiteStage, CodeStage, Text,
               CodeReviewStage, ValidationStage, ComplianceStage, ManifestStage, DeploymentStage,
               MonitoringStage} \subseteq StageType
           /\ Once("fail") \in StageType /\ Research \in StageType
<1>1. ASSUME NEW n \in Nat, NEW last \in {"next", "fail"},
             NEW e \in FollowUps, NEW m \in FollowUps, NEW b \in FollowUps, NEW x \in FollowUps, NEW may \in BOOLEAN
      PROVE  Stage(n, last, e, m, b, x, may) \in StageType
  <2> DEFINE f == [good |-> "next", empty |-> e, malformed |-> m, bad |-> b, error |-> x]
  <2>1. f \in [Answers -> FollowUps]
    BY DEF Answers, FollowUps
  <2> HIDE DEF f
  <2>2. [tries |-> n, last |-> last, may |-> may, after |-> f] \in StageType
    BY <2>1 DEF StageType
  <2> QED
    BY <2>2 DEF Stage, f
<1>2. {"next", "again", "fail"} = FollowUps /\ {TRUE, FALSE} = BOOLEAN
  BY DEF FollowUps
<1>3. ASSUME NEW s \in StageType
      PROVE  IfGiven(s) \in StageType
  BY DEF IfGiven, StageType
<1>4. ASSUME NEW last \in {"next", "fail"}
      PROVE  Retried(last) \in StageType
  BY <1>1, <1>2 DEF Retried
<1>5. ASSUME NEW e \in {"next", "fail"}
      PROVE  Once(e) \in StageType
  <2>1. 1 \in Nat /\ e \in FollowUps /\ FALSE \in BOOLEAN
    BY DEF FollowUps
  <2> QED
    BY <1>1, <1>2, <2>1 DEF Once
<1>6. Text \in StageType /\ Research \in StageType
  <2>1. 1 \in Nat
    OBVIOUS
  <2>2. Stage(1, "next", "next", "next", "next", "next", FALSE) \in StageType
    BY <1>1, <1>2, <2>1
  <2>3. Text \in StageType
    BY <1>1, <1>2, <2>1 DEF Text
  <2> QED
    BY <1>3, <2>2, <2>3 DEF Research
<1>7. /\ {NeedsStage, SynthesisStage, ComponentsStage, DiagramsStage, BreakdownStage, DependenciesStage,
          CriticalPathStage} \subseteq StageType
      /\ {NfrStage, ComplexityStage} \subseteq StageType
  BY <1>3, <1>4 DEF NeedsStage, SynthesisStage, ComponentsStage, DiagramsStage, BreakdownStage, DependenciesStage,
          CriticalPathStage, NfrStage, ComplexityStage
<1>8. {TestSuiteStage, CodeStage, Once("fail"), CodeReviewStage, ValidationStage, ManifestStage, DeploymentStage,
       MonitoringStage} \subseteq StageType
  BY <1>5 DEF TestSuiteStage, CodeStage, CodeReviewStage, ValidationStage, ManifestStage, DeploymentStage,
       MonitoringStage
<1>9. {RequirementsStage, PrdStage, CriteriaStage, RecommendStage} \subseteq StageType
  BY <1>1, <1>2 DEF RequirementsStage, PrdStage, CriteriaStage, RecommendStage
<1>10. ComplianceStage \in StageType
  <2>1. 1 \in Nat
    OBVIOUS
  <2> QED
    BY <1>1, <1>2, <2>1 DEF ComplianceStage
<1> QED
  BY <1>6, <1>7, <1>8, <1>9, <1>10

\* Every agent has at least one stage.
StageLists == Seq(StageType) \ {<<>>}

\* Every agent of the table has stages.
LEMMA AgentsTyped ==
    ASSUME retries \in Nat
    PROVE  AgentTable \subseteq [stages : StageLists, parses : BOOLEAN, judges : BOOLEAN]
<1>1. ASSUME NEW stages \in StageLists, NEW p \in BOOLEAN, NEW j \in BOOLEAN
      PROVE  Agent(stages, p, j) \in [stages : StageLists, parses : BOOLEAN, judges : BOOLEAN]
  BY DEF Agent
<1>2. ASSUME NEW s \in StageType
      PROVE  <<s>> \in StageLists
  BY DEF StageLists
<1>3. ASSUME NEW s \in StageType, NEW t \in StageType
      PROVE  <<s, t>> \in StageLists
  BY DEF StageLists
<1>4. ASSUME NEW s \in StageType, NEW t \in StageType, NEW u \in StageType
      PROVE  <<s, t, u>> \in StageLists
  BY DEF StageLists
<1>5. ASSUME NEW s \in StageType, NEW t \in StageType, NEW u \in StageType, NEW v \in StageType
      PROVE  <<s, t, u, v>> \in StageLists
  BY DEF StageLists
<1>6. <<Research>> \o DebugStages \in StageLists
  <2>1. <<Research>> \in Seq(StageType) /\ DebugStages \in Seq(StageType)
    BY StagesTyped DEF DebugStages
  <2>2. Len(<<Research>> \o DebugStages) = 4
    BY <2>1 DEF DebugStages
  <2> QED
    BY <2>1, <2>2 DEF StageLists
<1>7. {PrdAgent, SurveyorAgent, ArchitectAgent, PlannerAgent}
        \subseteq [stages : StageLists, parses : BOOLEAN, judges : BOOLEAN]
  BY <1>1, <1>4, <1>5, StagesTyped DEF PrdAgent, SurveyorAgent, ArchitectAgent, PlannerAgent
<1>8. {AcceptanceAgent, UTestAgent, ReviewerAgent, SecurityAgent, ReleaseAgent, DeploymentAgent, MonitorAgent}
        \subseteq [stages : StageLists, parses : BOOLEAN, judges : BOOLEAN]
  BY <1>1, <1>2, StagesTyped DEF AcceptanceAgent, UTestAgent, ReviewerAgent, SecurityAgent, ReleaseAgent,
        DeploymentAgent, MonitorAgent
<1>9. {CodingAgent, ValidationAgent, DebuggerAgent} \subseteq [stages : StageLists, parses : BOOLEAN, judges : BOOLEAN]
  BY <1>1, <1>3, <1>6, StagesTyped DEF CodingAgent, ValidationAgent, DebuggerAgent
<1> QED
  BY <1>7, <1>8, <1>9 DEF AgentTable

\* The sum of the tries starts at 0, adds those of each stage, and is never above the whole.
LEMMA TriesRise ==
    ASSUME NEW stages \in StageLists
    PROVE  /\ Len(stages) \in Nat \ {0}
           /\ TriesUpTo(stages) \in [0..Len(stages) -> Nat] /\ TriesUpTo(stages)[0] = 0
           /\ \A k \in 1..Len(stages) : TriesUpTo(stages)[k] = TriesUpTo(stages)[k - 1] + stages[k].tries
           /\ \A k \in 0..Len(stages) : TriesUpTo(stages)[k] <= Tries(stages)
<1> DEFINE N == Len(stages)
           sum == TriesUpTo(stages)
           S == {n \in Nat : n <= N => sum[N - n] <= sum[N]}
<1>1. stages \in Seq(StageType) /\ N \in Nat \ {0} /\ \A k \in 1..N : stages[k] \in StageType
  BY DEF StageLists
<1>2. \A k \in 1..N : stages[k].tries \in Nat
  BY <1>1 DEF StageType
<1>3. /\ sum \in [0..N -> Nat] /\ sum[0] = 0
      /\ \A k \in 1..N : sum[k] = sum[k - 1] + stages[k].tries
  BY <1>1, <1>2, TriesAreSummed
<1>4. 0 \in S
  BY <1>1, <1>3
<1>5. ASSUME NEW n \in Nat, n \in S
      PROVE  n + 1 \in S
  <2> SUFFICES ASSUME n + 1 <= N
               PROVE  sum[N - (n + 1)] <= sum[N]
    OBVIOUS
  <2>1. N - n \in 1..N /\ N - n - 1 = N - (n + 1) /\ n <= N
    BY <1>1
  <2>2. sum[N - n] = sum[N - n - 1] + stages[N - n].tries
    BY <1>3, <2>1
  <2>3. sum[N - n] <= sum[N]
    BY <1>5, <2>1
  <2>4. sum[N - n] \in Nat /\ sum[N - n - 1] \in Nat /\ sum[N] \in Nat /\ stages[N - n].tries \in Nat
    <3>1. N \in 0..N /\ N - n - 1 \in 0..N /\ N - n \in 0..N
      BY <1>1, <2>1
    <3> HIDE DEF sum, N
    <3> QED
      BY <1>2, <1>3, <2>1, <3>1
  <2> HIDE DEF sum, N
  <2> QED
    BY <2>1, <2>2, <2>3, <2>4
<1>6. Nat \subseteq S
  <2> HIDE DEF S
  <2> QED
    BY <1>4, <1>5, AllNumbers
<1>7. ASSUME NEW k \in 0..N
      PROVE  sum[k] <= sum[N]
  <2>1. N - k \in Nat /\ N - k <= N /\ N - (N - k) = k
    BY <1>1
  <2> HIDE DEF sum, N
  <2> QED
    BY <1>6, <2>1
<1> QED
  BY <1>1, <1>3, <1>7 DEF Tries

\* A run, and what is known of the runs at every moment.
RunType == [at : {"new", "asks", "writes", "retry", "success", "final"}, stage : Nat, tries : Nat, file : 1..3]

AgentsKnown ==
    /\ agent \in [stages : StageLists, parses : BOOLEAN, judges : BOOLEAN] /\ mixed \in BOOLEAN /\ DOMAIN files = Files
    /\ runs \in [Runs -> RunType] /\ modelCalls \in [Runs -> Nat]

\* A run is at a stage of its agent, with tries left, and writes after the last.
RunInOrder(run) ==
    /\ run.stage \in 1..Len(agent.stages)
    /\ run.at \in {"new", "asks"} => run.file = 1
    /\ run.at = "new" => run.tries = 0
    /\ run.at = "asks" => run.tries = 0 \/ run.tries < agent.stages[run.stage].tries
    /\ run.at = "writes" => run.file \in {1, 2}
\* What a run has asked is what the stages before its own allow, and the tries of its own.
CallsPaid(run, made) ==
    IF run.at \in {"new", "asks"} THEN made <= TriesUpTo(agent.stages)[run.stage - 1] + run.tries
    ELSE made <= Tries(agent.stages)
RunsInOrder == \A r \in Runs : RunInOrder(runs[r]) /\ CallsPaid(runs[r], modelCalls[r])
\* Until something crosses, at most one run is between its two writes, and the first is its own.
OneWrites == ~mixed =>
    /\ \A r, s \in Runs : Between(r) /\ Between(s) => r = s
    /\ \A r \in Runs : Between(r) => files[1] = r
    /\ (\A r \in Runs : ~Between(r)) => files[1] = files[2]

AgentsInv == AgentsKnown /\ RunsInOrder /\ OneWrites /\ unanswered = {}

\* No run has begun.
LEMMA AgentsStart == AgentsInit => AgentsInv
<1> SUFFICES ASSUME AgentsInit
             PROVE  AgentsInv
  OBVIOUS
<1>1. AgentsKnown
  <2>1. NewRun \in RunType
    BY DEF NewRun, RunType
  <2>2. retries \in Nat
    BY AgentsAssumption DEF AgentsInit
  <2>3. runs \in [Runs -> RunType]
    BY <2>1 DEF AgentsInit
  <2> QED
    BY <2>2, <2>3, AgentsTyped DEF AgentsInit, AgentsKnown
<1>2. ASSUME NEW r \in Runs
      PROVE  RunInOrder(runs[r]) /\ CallsPaid(runs[r], modelCalls[r])
  <2>1. runs[r] = NewRun /\ modelCalls[r] = 0
    BY <1>2 DEF AgentsInit
  <2>2. Len(agent.stages) \in Nat \ {0} /\ TriesUpTo(agent.stages)[0] = 0
    BY <1>1, TriesRise DEF AgentsKnown
  <2> QED
    BY <2>1, <2>2 DEF NewRun, RunInOrder, CallsPaid
<1>3. OneWrites
  BY DEF AgentsInit, OneWrites, Between, NewRun, Files
<1> QED
  BY <1>1, <1>2, <1>3 DEF AgentsInit, AgentsInv, RunsInOrder

\* One run goes on, and the others stay as they are.
OneRun(r, run, made) ==
    /\ runs' = [runs EXCEPT ![r] = run] /\ modelCalls' = [modelCalls EXCEPT ![r] = made]
    /\ retries' = retries /\ agent' = agent /\ unanswered' = unanswered

\* What a step of one run keeps: the others are where they were, with what they asked.
LEMMA RunGoesOn ==
    ASSUME AgentsInv, NEW r \in Runs, NEW run \in RunType, NEW made \in Nat, OneRun(r, run, made),
           RunInOrder(run), CallsPaid(run, made), mixed' \in BOOLEAN, DOMAIN files' = Files
    PROVE  /\ AgentsKnown' /\ RunsInOrder' /\ unanswered' = {}
           /\ runs'[r] = run /\ \A s \in Runs \ {r} : runs'[s] = runs[s]
<1>0. AgentsKnown /\ RunsInOrder /\ unanswered = {}
  BY DEF AgentsInv
<1>1. /\ runs'[r] = run /\ \A s \in Runs \ {r} : runs'[s] = runs[s]
      /\ modelCalls'[r] = made /\ \A s \in Runs \ {r} : modelCalls'[s] = modelCalls[s]
  BY <1>0 DEF AgentsKnown, OneRun
<1>2. AgentsKnown' /\ unanswered' = {}
  BY <1>0 DEF AgentsKnown, OneRun
<1>3. agent' = agent
  BY DEF OneRun
<1>4. ASSUME NEW s \in Runs
      PROVE  (RunInOrder(runs[s]) /\ CallsPaid(runs[s], modelCalls[s]))'
  <2>1. CASE s = r
    BY <1>1, <1>3, <2>1 DEF RunInOrder, CallsPaid
  <2>2. CASE s # r
    BY <1>0, <1>1, <1>3, <2>2 DEF RunsInOrder, RunInOrder, CallsPaid
  <2> QED
    BY <2>1, <2>2
<1> QED
  BY <1>1, <1>2, <1>4 DEF RunsInOrder

\* A run whose write ended or failed is of the shape of one.
LEMMA WrittenRun ==
    ASSUME NEW run \in RunType, NEW at \in {"writes", "success", "final", "retry"}, NEW file \in {2, 3}
    PROVE  LET left == [run EXCEPT !.at = at, !.file = file] IN
           left \in RunType /\ left.at = at /\ left.stage = run.stage /\ left.file = file
<1>1. file \in 1..3
  OBVIOUS
<1> QED
  BY <1>1 DEF RunType

\* A run goes on by a delivery, an answer, a stage without tries, a stage left out, or a write.
LEMMA AgentsStep == AgentsInv /\ [AgentsNext]_agentVars => AgentsInv'
<1> SUFFICES ASSUME AgentsInv, [AgentsNext]_agentVars
             PROVE  AgentsInv'
  OBVIOUS
<1>0. AgentsKnown /\ RunsInOrder /\ OneWrites /\ unanswered = {}
  BY DEF AgentsInv
<1> DEFINE N == Len(agent.stages)
           upto == TriesUpTo(agent.stages)
<1>a. /\ N \in Nat \ {0} /\ upto \in [0..N -> Nat] /\ upto[0] = 0
      /\ \A k \in 1..N : upto[k] = upto[k - 1] + agent.stages[k].tries
      /\ \A k \in 0..N : upto[k] <= Tries(agent.stages)
      /\ Tries(agent.stages) = upto[N] /\ Tries(agent.stages) \in Nat
  <2>1. agent.stages \in StageLists
    BY <1>0 DEF AgentsKnown
  <2>2. Tries(agent.stages) = upto[N]
    BY DEF Tries
  <2>3. /\ N \in Nat \ {0} /\ upto \in [0..N -> Nat] /\ upto[0] = 0
        /\ \A k \in 1..N : upto[k] = upto[k - 1] + agent.stages[k].tries
        /\ \A k \in 0..N : upto[k] <= Tries(agent.stages)
    BY <2>1, TriesRise
  <2> HIDE DEF upto, N
  <2> QED
    BY <2>2, <2>3
<1>b. ASSUME NEW r \in Runs
      PROVE  /\ runs[r] \in RunType /\ runs[r].stage \in 1..N /\ StageOf(r) \in StageType
             /\ StageOf(r) = agent.stages[runs[r].stage] /\ modelCalls[r] \in Nat
             /\ RunInOrder(runs[r]) /\ CallsPaid(runs[r], modelCalls[r])
  <2>1. runs[r] \in RunType /\ RunInOrder(runs[r]) /\ runs[r].stage \in 1..N /\ modelCalls[r] \in Nat
    BY <1>0 DEF AgentsKnown, RunsInOrder, RunInOrder
  <2>2. agent.stages \in Seq(StageType)
    BY <1>0 DEF AgentsKnown, StageLists
  <2> QED
    BY <1>0, <2>1, <2>2 DEF StageOf, RunsInOrder
<1> HIDE DEF N, upto
<1>e. ASSUME NEW r \in Runs
      PROVE  /\ upto[runs[r].stage] = upto[runs[r].stage - 1] + StageOf(r).tries
             /\ upto[runs[r].stage - 1] \in Nat /\ upto[runs[r].stage] \in Nat /\ StageOf(r).tries \in Nat
             /\ upto[runs[r].stage - 1] <= Tries(agent.stages) /\ upto[runs[r].stage] <= Tries(agent.stages)
             /\ runs[r].stage + 1 \in Nat
  <2>1. /\ runs[r].stage \in 1..N /\ runs[r].stage \in 0..N /\ runs[r].stage - 1 \in 0..N
        /\ runs[r].stage + 1 \in Nat
    <3>1. N \in Nat
      BY <1>a
    <3>2. runs[r].stage \in 1..N
      BY <1>b
    <3> QED
      BY <3>1, <3>2
  <2>2. StageOf(r).tries \in Nat
    BY <1>b DEF StageType
  <2> QED
    BY <1>a, <1>b, <2>1, <2>2
\* A run that neither writes nor has written.
<1>c. ASSUME NEW r \in Runs, NEW run \in RunType, NEW made \in Nat, OneRun(r, run, made),
             RunInOrder(run), CallsPaid(run, made), mixed' = mixed, files' = files,
             runs[r].at # "writes", run.file # 2
      PROVE  AgentsInv'
  <2>1. /\ AgentsKnown' /\ RunsInOrder' /\ unanswered' = {}
        /\ runs'[r] = run /\ \A s \in Runs \ {r} : runs'[s] = runs[s]
    BY <1>0, <1>c, RunGoesOn DEF AgentsKnown
  <2>2. \A s \in Runs : Between(s)' <=> Between(s)
    BY <1>c, <2>1 DEF Between
  <2>3. OneWrites'
    BY <1>0, <1>c, <2>2 DEF OneWrites
  <2> QED
    BY <2>1, <2>3 DEF AgentsInv
\* What follows a stage.
<1>d. ASSUME NEW r \in Runs, NEW what \in FollowUps, Follows(r, what), runs[r].at = "asks", NEW made \in Nat,
             modelCalls' = [modelCalls EXCEPT ![r] = made], unanswered' = unanswered, retries' = retries,
             agent' = agent, files' = files, mixed' = mixed,
             what = "again" => runs[r].tries + 1 < StageOf(r).tries /\ made = modelCalls[r] + 1,
             made <= upto[runs[r].stage]
      PROVE  AgentsInv'
  <2> DEFINE old == runs[r]
             again == [old EXCEPT !.tries = old.tries + 1]
             fail == [old EXCEPT !.at = "retry"]
             last == [old EXCEPT !.at = "writes", !.tries = 0]
             next == [old EXCEPT !.stage = old.stage + 1, !.tries = 0]
  <2>0. /\ old \in RunType /\ old.stage \in 1..N /\ old.file = 1 /\ old.at = "asks"
        /\ old.tries = 0 \/ old.tries < StageOf(r).tries
        /\ StageOf(r) = agent.stages[old.stage]
        /\ modelCalls[r] <= upto[old.stage - 1] + old.tries
    BY <1>b, <1>d DEF RunInOrder, CallsPaid, upto
  <2>00. old.stage + 1 \in Nat /\ old.tries + 1 \in Nat
    BY <1>e, <2>0 DEF RunType
  <2>1. CASE what = "again"
    <3>1. OneRun(r, again, made)
      BY <1>d, <2>1 DEF Follows, OneRun
    <3>2. /\ again \in RunType /\ again.at = "asks" /\ again.stage = old.stage /\ again.tries = old.tries + 1
          /\ again.file = 1
      BY <2>0 DEF RunType
    <3>3. RunInOrder(again)
      BY <1>d, <2>0, <2>1, <3>2 DEF RunInOrder, N
    <3>4. CallsPaid(again, made)
      <4>1. upto[old.stage - 1] \in Nat
        BY <1>a, <2>0
      <4>2. made <= upto[old.stage - 1] + again.tries
        BY <1>b, <1>d, <2>0, <2>1, <3>2, <4>1 DEF RunType
      <4> QED
        BY <3>2, <4>2 DEF CallsPaid, upto
    <3> HIDE DEF again
    <3> QED
      BY <1>c, <1>d, <3>1, <3>2, <3>3, <3>4
  <2>2. made <= Tries(agent.stages)
    <3>1. upto[old.stage] <= Tries(agent.stages) /\ upto[old.stage] \in Nat
      BY <1>a, <2>0
    <3> QED
      BY <1>a, <1>d, <3>1
  <2>3. CASE what = "fail"
    <3>1. OneRun(r, fail, made)
      BY <1>d, <2>3 DEF Follows, OneRun
    <3>2. fail \in RunType /\ fail.at = "retry" /\ fail.stage = old.stage /\ fail.file = 1
      BY <2>0 DEF RunType
    <3>3. RunInOrder(fail) /\ CallsPaid(fail, made)
      BY <2>0, <2>2, <3>2 DEF RunInOrder, CallsPaid, N
    <3> HIDE DEF fail
    <3> QED
      BY <1>c, <1>d, <3>1, <3>2, <3>3
  <2>4. CASE what = "next" /\ LastStage(r)
    <3>1. OneRun(r, last, made)
      BY <1>d, <2>4 DEF Follows, OneRun
    <3>2. last \in RunType /\ last.at = "writes" /\ last.stage = old.stage /\ last.file = 1
      BY <2>0 DEF RunType
    <3>3. RunInOrder(last) /\ CallsPaid(last, made)
      BY <2>0, <2>2, <3>2 DEF RunInOrder, CallsPaid, N
    <3> HIDE DEF last
    <3> QED
      BY <1>c, <1>d, <3>1, <3>2, <3>3
  <2>5. CASE what = "next" /\ ~LastStage(r)
    <3>1. OneRun(r, next, made)
      BY <1>d, <2>5 DEF Follows, OneRun
    <3>2. /\ next \in RunType /\ next.at = "asks" /\ next.stage = old.stage + 1 /\ next.file = 1
          /\ next.tries = 0
      BY <2>0, <2>00 DEF RunType
    <3>3. next.stage \in 1..N
      <4>1. old.stage # N
        BY <2>5 DEF LastStage, N
      <4> QED
        BY <1>a, <2>0, <3>2, <4>1
    <3>4. RunInOrder(next)
      BY <3>2, <3>3 DEF RunInOrder, N
    <3>5. CallsPaid(next, made)
      <4>1. next.stage - 1 = old.stage /\ upto[old.stage] \in Nat
        BY <1>a, <2>0, <3>2
      <4>2. made <= upto[next.stage - 1] + next.tries
        BY <1>d, <3>2, <4>1
      <4> QED
        BY <3>2, <4>2 DEF CallsPaid, upto
    <3> HIDE DEF next
    <3> QED
      BY <1>c, <1>d, <3>1, <3>2, <3>4, <3>5
  <2> QED
    BY <1>d, <2>1, <2>3, <2>4, <2>5 DEF FollowUps
<1>1. ASSUME NEW r \in Runs, StartRun(r)
      PROVE  AgentsInv'
  <2> DEFINE at == CASE inputs = "complete" -> "asks" [] inputs = "missing" -> "final" [] OTHER -> "retry"
             run == [runs[r] EXCEPT !.at = at]
  <2>1. at \in {"asks", "final", "retry"}
    OBVIOUS
  <2>2. /\ runs[r].at = "new" /\ runs' = [runs EXCEPT ![r].at = at]
        /\ UNCHANGED <<retries, agent, inputs, files, modelCalls, unanswered, mixed>>
    BY <1>1 DEF StartRun, RunGoes
  <2> HIDE DEF at
  <2>3. OneRun(r, run, modelCalls[r])
    BY <1>0, <2>2 DEF OneRun, AgentsKnown
  <2>4. /\ run \in RunType /\ run.at = at /\ run.stage = runs[r].stage /\ run.file = 1
        /\ run.tries = runs[r].tries /\ runs[r].tries = 0
    BY <1>b, <2>1, <2>2 DEF RunType, RunInOrder
  <2>5. RunInOrder(run)
    BY <1>b, <2>1, <2>4 DEF RunInOrder, N
  <2>6. CallsPaid(run, modelCalls[r])
    <3>1. modelCalls[r] <= upto[runs[r].stage - 1] + runs[r].tries
      BY <1>b, <2>2 DEF CallsPaid, upto
    <3>2. upto[runs[r].stage - 1] <= Tries(agent.stages) /\ upto[runs[r].stage - 1] \in Nat
      BY <1>e
    <3>3. modelCalls[r] <= Tries(agent.stages)
      BY <1>a, <1>b, <2>4, <3>1, <3>2
    <3> QED
      BY <2>1, <2>4, <3>1, <3>3 DEF CallsPaid, upto
  <2>7. modelCalls[r] \in Nat
    BY <1>b
  <2> HIDE DEF run
  <2> QED
    BY <1>c, <2>2, <2>3, <2>4, <2>5, <2>6, <2>7
<1>2. ASSUME NEW r \in Runs, LeaveOut(r)
      PROVE  AgentsInv'
  <2>1. /\ runs[r].at = "asks" /\ runs[r].tries = 0 /\ Follows(r, "next")
        /\ UNCHANGED <<retries, agent, inputs, files, modelCalls, unanswered, mixed>>
    BY <1>2 DEF LeaveOut
  <2>2. modelCalls' = [modelCalls EXCEPT ![r] = modelCalls[r]] /\ "next" \in FollowUps
    BY <1>0, <2>1 DEF AgentsKnown, FollowUps
  <2>3. modelCalls[r] <= upto[runs[r].stage]
    <3>1. modelCalls[r] <= upto[runs[r].stage - 1] + 0
      BY <1>b, <2>1 DEF CallsPaid, upto
    <3>2. /\ upto[runs[r].stage] = upto[runs[r].stage - 1] + StageOf(r).tries
          /\ upto[runs[r].stage - 1] \in Nat /\ StageOf(r).tries \in Nat
      BY <1>e
    <3> QED
      BY <1>b, <3>1, <3>2
  <2>4. modelCalls[r] \in Nat
    BY <1>b
  <2>5. "next" = "again" => runs[r].tries + 1 < StageOf(r).tries /\ modelCalls[r] = modelCalls[r] + 1
    OBVIOUS
  <2> QED
    BY <1>d, <2>1, <2>2, <2>3, <2>4, <2>5
<1>3. ASSUME NEW r \in Runs, NeverAsked(r)
      PROVE  AgentsInv'
  <2>1. /\ runs[r].at = "asks" /\ StageOf(r).tries = 0 /\ Follows(r, StageOf(r).last)
        /\ UNCHANGED <<retries, agent, inputs, files, modelCalls, unanswered, mixed>>
    BY <1>3 DEF NeverAsked
  <2>2. /\ modelCalls' = [modelCalls EXCEPT ![r] = modelCalls[r]]
        /\ StageOf(r).last \in FollowUps /\ StageOf(r).last # "again"
    BY <1>0, <1>b, <2>1 DEF AgentsKnown, StageType, FollowUps
  <2>3. modelCalls[r] <= upto[runs[r].stage]
    <3>1. modelCalls[r] <= upto[runs[r].stage - 1] + 0
      <4>1. runs[r].tries = 0
        BY <1>b, <2>1 DEF RunInOrder, RunType
      <4> QED
        BY <1>b, <2>1, <4>1 DEF CallsPaid, upto
    <3>2. /\ upto[runs[r].stage] = upto[runs[r].stage - 1] + StageOf(r).tries
          /\ upto[runs[r].stage - 1] \in Nat /\ StageOf(r).tries \in Nat
      BY <1>e
    <3> QED
      BY <1>b, <3>1, <3>2
  <2> QED
    BY <1>b, <1>d, <2>1, <2>2, <2>3
<1>4. ASSUME NEW r \in Runs, NEW said \in Answers, Ask(r, said)
      PROVE  AgentsInv'
  <2> DEFINE what == StageOf(r).after[said]
             then == After(r, said)
  <2>1. /\ runs[r].at = "asks" /\ StageOf(r).tries > 0 /\ Follows(r, then)
        /\ modelCalls' = [modelCalls EXCEPT ![r] = @ + 1]
        /\ UNCHANGED <<retries, agent, inputs, files, mixed>>
    BY <1>4 DEF Ask
  <2>2. what \in FollowUps /\ StageOf(r).last \in {"next", "fail"}
    BY <1>b DEF StageType
  <2>3. /\ then \in FollowUps
        /\ then = "again" => runs[r].tries + 1 # StageOf(r).tries
        /\ then = "next" /\ what # "next" => StageOf(r).last = "next"
    BY <2>2 DEF After, FollowUps
  <2>4. unanswered' = unanswered
    BY <1>4, <2>3 DEF Ask
  <2> HIDE DEF then, what
  <2>5. /\ modelCalls[r] <= upto[runs[r].stage - 1] + runs[r].tries
        /\ runs[r].tries \in Nat /\ StageOf(r).tries \in Nat /\ runs[r].tries + 1 <= StageOf(r).tries
    BY <1>b, <2>1 DEF CallsPaid, upto, RunInOrder, RunType, StageType
  <2>6. modelCalls[r] + 1 <= upto[runs[r].stage]
    <3>1. /\ upto[runs[r].stage] = upto[runs[r].stage - 1] + StageOf(r).tries
          /\ upto[runs[r].stage - 1] \in Nat
      BY <1>e
    <3> QED
      BY <1>b, <2>5, <3>1
  <2>7. modelCalls' = [modelCalls EXCEPT ![r] = modelCalls[r] + 1] /\ modelCalls[r] + 1 \in Nat
    BY <1>b, <2>1
  <2>8. then = "again" => runs[r].tries + 1 < StageOf(r).tries
    BY <2>3, <2>5
  <2> QED
    BY <1>d, <2>1, <2>3, <2>4, <2>6, <2>7, <2>8
<1>5. ASSUME NEW r \in Runs, WriteArtifact(r)
      PROVE  AgentsInv'
  <2>0. /\ runs[r].at = "writes" /\ runs[r].file \in {1, 2} /\ files' = [files EXCEPT ![runs[r].file] = r]
        /\ mixed' = (mixed \/ \E s \in Runs \ {r} : Between(s))
        /\ UNCHANGED <<retries, agent, inputs, modelCalls, unanswered>>
        /\ modelCalls[r] <= Tries(agent.stages) /\ modelCalls[r] \in Nat
        /\ modelCalls' = [modelCalls EXCEPT ![r] = modelCalls[r]] /\ DOMAIN files = {1, 2}
    <3>1. modelCalls' = modelCalls
      BY <1>5 DEF WriteArtifact
    <3>2. modelCalls' = [modelCalls EXCEPT ![r] = modelCalls[r]]
      BY <1>0, <3>1 DEF AgentsKnown
    <3>3. DOMAIN files = {1, 2}
      BY <1>0 DEF AgentsKnown, Files
    <3> QED
      BY <1>b, <1>5, <3>2, <3>3 DEF WriteArtifact, Written, RunInOrder, CallsPaid
  <2>1. ASSUME NEW at \in {"writes", "success", "final"}, at = "writes" <=> runs[r].file = 1,
               runs' = [runs EXCEPT ![r] = [runs[r] EXCEPT !.at = at, !.file = 2]]
        PROVE  AgentsInv'
    <3> DEFINE run == [runs[r] EXCEPT !.at = at, !.file = 2]
    <3>1. OneRun(r, run, modelCalls[r])
      BY <2>0, <2>1 DEF OneRun
    <3>2. run \in RunType /\ run.at = at /\ run.stage = runs[r].stage /\ run.file = 2
      <4>1. runs[r] \in RunType /\ at \in {"writes", "success", "final", "retry"} /\ 2 \in {2, 3}
        BY <1>b, <2>1
      <4> QED
        BY <4>1, WrittenRun
    <3>3. RunInOrder(run) /\ CallsPaid(run, modelCalls[r])
      BY <1>b, <2>0, <2>1, <3>2 DEF RunInOrder, CallsPaid, N
    <3>4. DOMAIN files' = Files /\ mixed' \in BOOLEAN
      BY <1>0, <2>0 DEF AgentsKnown, Files
    <3> HIDE DEF run
    <3>5. /\ AgentsKnown' /\ RunsInOrder' /\ unanswered' = {}
          /\ runs'[r] = run /\ \A s \in Runs \ {r} : runs'[s] = runs[s]
      BY <2>0, <3>1, <3>2, <3>3, <3>4, RunGoesOn
    <3>6. OneWrites'
      <4> SUFFICES ASSUME ~mixed'
                   PROVE  /\ \A x, y \in Runs : Between(x)' /\ Between(y)' => x = y
                          /\ \A x \in Runs : Between(x)' => files'[1] = x
                          /\ (\A x \in Runs : ~Between(x)') => files'[1] = files'[2]
        BY DEF OneWrites
      <4>1. ~mixed /\ \A s \in Runs \ {r} : ~Between(s)
        BY <2>0
      <4>2. \A s \in Runs \ {r} : ~Between(s)'
        BY <3>5, <4>1 DEF Between
      <4>3. Between(r)' <=> runs[r].file = 1
        BY <2>1, <3>2, <3>5 DEF Between
      <4>4. CASE runs[r].file = 1
        BY <2>0, <4>2, <4>3, <4>4
      <4>5. CASE runs[r].file = 2
        <5>1. files[1] = r
          BY <1>0, <2>0, <4>1, <4>5 DEF OneWrites, Between
        <5> QED
          BY <2>0, <4>2, <4>3, <4>5, <5>1
      <4> QED
        BY <2>0, <4>4, <4>5
    <3> QED
      BY <3>5, <3>6 DEF AgentsInv
  <2>2. CASE runs[r].file = 1
    <3>1. runs' = [runs EXCEPT ![r].file = 2]
      BY <1>5, <2>2 DEF WriteArtifact
    <3>2. [runs[r] EXCEPT !.file = 2] = [runs[r] EXCEPT !.at = "writes", !.file = 2]
      BY <1>b, <2>0 DEF RunType
    <3>3. runs' = [runs EXCEPT ![r] = [runs[r] EXCEPT !.at = "writes", !.file = 2]]
      BY <3>1, <3>2
    <3> QED
      BY <2>1, <2>2, <3>3
  <2>3. CASE runs[r].file = 2
    <3>1. PICK at \in {"success", "final"} : runs' = [runs EXCEPT ![r].at = at]
      BY <1>5, <2>3 DEF WriteArtifact, RunGoes
    <3>2. [runs[r] EXCEPT !.at = at] = [runs[r] EXCEPT !.at = at, !.file = 2]
      BY <1>b, <2>3 DEF RunType
    <3>3. runs' = [runs EXCEPT ![r] = [runs[r] EXCEPT !.at = at, !.file = 2]]
      BY <3>1, <3>2
    <3>4. at \in {"writes", "success", "final"} /\ (at = "writes" <=> runs[r].file = 1)
      BY <2>3
    <3> QED
      BY <2>1, <3>3, <3>4
  <2> QED
    BY <2>0, <2>2, <2>3
<1>6. ASSUME NEW r \in Runs, ArtifactFails(r)
      PROVE  AgentsInv'
  <2> DEFINE run == [runs[r] EXCEPT !.at = "retry", !.file = 3]
  <2>1. /\ runs[r].at = "writes" /\ files' \in {files, [files EXCEPT ![runs[r].file] = Torn]}
        /\ runs' = [runs EXCEPT ![r].at = "retry", ![r].file = 3]
        /\ mixed' = (mixed \/ Between(r) \/ files' # files)
        /\ UNCHANGED <<retries, agent, inputs, modelCalls, unanswered>>
    BY <1>6 DEF ArtifactFails
  <2>2. OneRun(r, run, modelCalls[r])
    <3>1. runs' = [runs EXCEPT ![r] = run]
      BY <1>0, <2>1 DEF AgentsKnown
    <3> QED
      BY <1>0, <2>1, <3>1 DEF OneRun, AgentsKnown
  <2>3. run \in RunType /\ run.at = "retry" /\ run.stage = runs[r].stage /\ run.file = 3
    BY <1>b, WrittenRun
  <2>4. RunInOrder(run) /\ CallsPaid(run, modelCalls[r])
    BY <1>b, <2>1, <2>3 DEF RunInOrder, CallsPaid, N
  <2>5. DOMAIN files' = Files /\ mixed' \in BOOLEAN /\ modelCalls[r] \in Nat
    BY <1>0, <1>b, <2>1 DEF AgentsKnown
  <2> HIDE DEF run
  <2>6. /\ AgentsKnown' /\ RunsInOrder' /\ unanswered' = {}
        /\ runs'[r] = run /\ \A s \in Runs \ {r} : runs'[s] = runs[s]
    BY <2>2, <2>3, <2>4, <2>5, RunGoesOn
  <2>7. OneWrites'
    <3> SUFFICES ASSUME ~mixed'
                 PROVE  OneWrites'
      BY DEF OneWrites
    <3>1. ~mixed /\ ~Between(r) /\ files' = files
      BY <2>1
    <3>2. \A s \in Runs : Between(s)' <=> Between(s)
      BY <2>3, <2>6, <3>1 DEF Between
    <3> QED
      BY <1>0, <3>1, <3>2 DEF OneWrites
  <2> QED
    BY <2>6, <2>7 DEF AgentsInv
<1>7. CASE UNCHANGED agentVars
  <2>1. /\ AgentsKnown' /\ unanswered' = {} /\ mixed' = mixed /\ files' = files /\ runs' = runs
        /\ agent' = agent /\ modelCalls' = modelCalls
    BY <1>0, <1>7 DEF agentVars, AgentsKnown
  <2>2. RunsInOrder'
    BY <1>0, <2>1 DEF RunsInOrder, RunInOrder, CallsPaid
  <2>3. OneWrites'
    BY <1>0, <2>1 DEF OneWrites, Between
  <2> QED
    BY <2>1, <2>2, <2>3 DEF AgentsInv
<1> QED
  BY <1>1, <1>2, <1>3, <1>4, <1>5, <1>6, <1>7 DEF AgentsNext

LEMMA AgentsAlways == AgentsSpec => []AgentsInv
BY AgentsStart, AgentsStep, PTL DEF AgentsSpec

\* What the invariant says of results, artifacts and calls: a required stage
\* that is not answered ends the run, two artifacts of one run are written one after the other,
\* and the calls of a run are at most the tries of the stages.
LEMMA AgentsProperties ==
    ASSUME AgentsInv
    PROVE  ResultsWereAnswered /\ ArtifactsAgree /\ AsksBounded
<1>0. AgentsKnown /\ RunsInOrder /\ OneWrites /\ unanswered = {}
  BY DEF AgentsInv
<1>1. ResultsWereAnswered /\ ArtifactsAgree
  BY <1>0 DEF ResultsWereAnswered, ArtifactsAgree, OneWrites
<1>2. ASSUME NEW r \in Runs
      PROVE  modelCalls[r] <= Tries(agent.stages)
  <2> DEFINE N == Len(agent.stages)
             upto == TriesUpTo(agent.stages)
             k == runs[r].stage
  <2>1. /\ N \in Nat \ {0} /\ upto \in [0..N -> Nat]
        /\ \A i \in 1..N : upto[i] = upto[i - 1] + agent.stages[i].tries
        /\ \A i \in 0..N : upto[i] <= Tries(agent.stages)
    <3>1. agent.stages \in StageLists
      BY <1>0 DEF AgentsKnown
    <3> QED
      BY <3>1, TriesRise
  <2>2. k \in 1..N /\ CallsPaid(runs[r], modelCalls[r]) /\ RunInOrder(runs[r]) /\ runs[r] \in RunType
        /\ modelCalls[r] \in Nat
    BY <1>0 DEF RunsInOrder, RunInOrder, AgentsKnown
  <2>3. agent.stages[k].tries \in Nat
    <3>1. agent.stages \in Seq(StageType)
      BY <1>0 DEF AgentsKnown, StageLists
    <3>2. agent.stages[k] \in StageType
      BY <2>2, <3>1
    <3> QED
      BY <3>2 DEF StageType
  <2>4. upto[k] = upto[k - 1] + agent.stages[k].tries /\ upto[k] <= Tries(agent.stages)
        /\ upto[k - 1] \in Nat /\ Tries(agent.stages) \in Nat
    <3>1. Tries(agent.stages) = upto[N] /\ N \in 0..N
      BY <2>1 DEF Tries
    <3>2. k \in 0..N /\ k - 1 \in 0..N
      BY <2>1, <2>2
    <3> HIDE DEF upto, N
    <3> QED
      BY <2>1, <2>2, <3>1, <3>2
  <2>5. runs[r].tries <= agent.stages[k].tries \/ runs[r].at \notin {"new", "asks"}
    BY <2>2, <2>3 DEF RunInOrder, RunType
  <2>6. CASE runs[r].at \in {"new", "asks"}
    <3>1. modelCalls[r] <= upto[k - 1] + runs[r].tries /\ runs[r].tries \in Nat
      BY <2>2, <2>6 DEF CallsPaid, RunType
    <3> HIDE DEF upto, N, k
    <3> QED
      BY <2>2, <2>3, <2>4, <2>5, <2>6, <3>1
  <2>7. CASE runs[r].at \notin {"new", "asks"}
    BY <2>2, <2>7 DEF CallsPaid
  <2> QED
    BY <2>6, <2>7
<1> QED
  BY <1>1, <1>2 DEF AsksBounded

-----------------------------------------------------------------------------
(* The verdicts on an implementation.                                        *)

VerdictsSpec == VerdictsInit /\ [][VerdictsNext]_verdictVars

\* The code that the three look at does not change while they do.
CodeTyped == code \in [scan : ScanResults, tested : BOOLEAN]
\* What a review says follows from the scan and from what the model named.
ReviewIsMerged ==
    review.at = "done" =>
        /\ review.named \in ModelIssues
        /\ review.issues = MergedIssues(Readable(review.named), code.scan)
        /\ review.passed => (code.scan # NoIssues => ~HasBlocking(review.issues))

\* A review that has not ended passes nothing.
ReviewOnlyDone == review.at # "done" => ~review.passed

\* The validation passes what was tested.
ValidationIsTested == validation.passed => code.tested

\* The security agent judges by the findings of its scan and of the model.
SecurityIsOfFindings ==
    security.at = "done" =>
        /\ code.tested /\ security.named \in ModelIssues
        /\ security.findings = AllFindings(security.named, code.scan)
        /\ security.passed => \A f \in security.findings : f.severity # Blocking

VerdictsInv == CodeTyped /\ ReviewIsMerged /\ ReviewOnlyDone /\ ValidationIsTested /\ SecurityIsOfFindings

\* Nothing is judged at first.
LEMMA VerdictsStart == VerdictsInit => VerdictsInv
BY DEF VerdictsInit, VerdictsInv, CodeTyped, ReviewIsMerged, ReviewOnlyDone, ValidationIsTested, SecurityIsOfFindings

\* Each of the three verdicts is computed in one step of the answer it was given.
LEMMA VerdictsStep == VerdictsInv /\ [VerdictsNext]_verdictVars => VerdictsInv'
<1> SUFFICES ASSUME VerdictsInv, [VerdictsNext]_verdictVars
             PROVE  VerdictsInv'
  OBVIOUS
<1>0. CodeTyped /\ ReviewIsMerged /\ ReviewOnlyDone /\ ValidationIsTested /\ SecurityIsOfFindings
  BY DEF VerdictsInv
<1>1. ASSUME NEW word \in BOOLEAN, NEW named \in ModelIssues, ReviewCode(word, named)
      PROVE  VerdictsInv'
  <2> DEFINE merged == MergedIssues(Readable(named), code.scan)
  <2>1. review' = [at |-> "done", passed |-> Passes(word, merged, code.scan), issues |-> merged, named |-> named]
        /\ code' = code /\ validation' = validation /\ security' = security
    BY <1>1 DEF ReviewCode
  <2>2. /\ review'.at = "done" /\ review'.passed = Passes(word, merged, code.scan)
        /\ review'.issues = merged /\ review'.named = named
    BY <2>1
  <2>3. ReviewIsMerged' /\ ReviewOnlyDone'
    <3>1. merged = MergedIssues(Readable(review'.named), code'.scan)
      BY <2>1, <2>2
    <3>2. review'.passed => (code'.scan # NoIssues => ~HasBlocking(review'.issues))
      <4> HIDE DEF merged
      <4> QED
        BY <2>1, <2>2 DEF Passes
    <3> HIDE DEF merged
    <3> QED
      BY <2>2, <3>1, <3>2 DEF ReviewIsMerged, ReviewOnlyDone, ModelIssues
  <2> QED
    BY <1>0, <2>1, <2>3 DEF VerdictsInv, CodeTyped, ValidationIsTested, SecurityIsOfFindings
<1>2. ASSUME NEW word \in BOOLEAN, Validate(word)
      PROVE  VerdictsInv'
  BY <1>0, <1>2 DEF Validate, VerdictsInv, CodeTyped, ReviewIsMerged, ReviewOnlyDone, ValidationIsTested,
        SecurityIsOfFindings
<1>3. ASSUME NEW named \in ModelIssues, Secure(named)
      PROVE  VerdictsInv'
  <2> DEFINE all == AllFindings(named, code.scan)
  <2>1. /\ security' = [at |-> "done", passed |-> \A f \in all : f.severity # Blocking,
                        findings |-> all, named |-> named]
        /\ code' = code /\ review' = review /\ validation' = validation /\ code.tested
    BY <1>0, <1>3 DEF Secure, ValidationIsTested
  <2>2. /\ security'.at = "done" /\ security'.passed = (\A f \in all : f.severity # Blocking)
        /\ security'.findings = all /\ security'.named = named
    BY <2>1
  <2>3. SecurityIsOfFindings'
    <3>1. all = AllFindings(security'.named, code'.scan)
      BY <2>1, <2>2
    <3> HIDE DEF all
    <3> QED
      BY <2>1, <2>2, <3>1 DEF SecurityIsOfFindings, ModelIssues
  <2> QED
    BY <1>0, <2>1, <2>3 DEF VerdictsInv, CodeTyped, ReviewIsMerged, ReviewOnlyDone, ValidationIsTested
<1>4. CASE UNCHANGED verdictVars
  BY <1>0, <1>4 DEF verdictVars, VerdictsInv, CodeTyped, ReviewIsMerged, ReviewOnlyDone, ValidationIsTested,
        SecurityIsOfFindings
<1> QED
  BY <1>1, <1>2, <1>3, <1>4 DEF VerdictsNext

\* A review that passes names no blocking issue, and one of a code with patterns lists them.
LEMMA ReviewIsJudged ==
    ASSUME VerdictsInv
    PROVE  PassedHasNoBlocking /\ FoundDoesNotPass /\ NamedIsListed
<1>0. CodeTyped /\ ReviewIsMerged /\ ReviewOnlyDone
  BY DEF VerdictsInv
<1>1. PassedHasNoBlocking
  BY <1>0 DEF PassedHasNoBlocking, ReviewIsMerged, ReviewOnlyDone
<1>2. ASSUME review.at = "done", NEW i \in IssueIds
      PROVE  /\ review.named[i] \in Severities => review.issues[i] = review.named[i]
             /\ review.named[i] \notin Severities => review.issues[i] = code.scan[i]
  <2>1. review.named[i] \in {Absent, Unknown} \cup Severities
    BY <1>0, <1>2 DEF ReviewIsMerged, ModelIssues
  <2>2. review.issues[i] = IF Readable(review.named)[i] # Absent THEN Readable(review.named)[i] ELSE code.scan[i]
    BY <1>0, <1>2 DEF ReviewIsMerged, MergedIssues
  <2>3. Readable(review.named)[i] = IF review.named[i] = Unknown THEN Absent ELSE review.named[i]
    BY DEF Readable
  <2> QED
    BY <2>1, <2>2, <2>3 DEF Severities, Absent, Unknown, Blocking
<1>3. NamedIsListed
  BY <1>2 DEF NamedIsListed
<1>4. FoundDoesNotPass
  <2> SUFFICES ASSUME review.passed, NEW i \in IssueIds, code.scan[i] = Blocking
               PROVE  review.named[i] \in Severities
    BY DEF FoundDoesNotPass
  <2>1. code.scan # NoIssues
    BY DEF NoIssues, Blocking, Absent
  <2>2. ~HasBlocking(review.issues)
    BY <1>1, <2>1 DEF PassedHasNoBlocking
  <2>3. review.issues[i] # Blocking
    BY <2>2 DEF HasBlocking
  <2>4. review.at = "done"
    BY <1>0 DEF ReviewOnlyDone
  <2> QED
    BY <1>2, <2>3, <2>4
<1> QED
  BY <1>1, <1>3, <1>4

\* What the security agent passes has no finding that blocks.
LEMMA SecurityIsJudged ==
    ASSUME VerdictsInv
    PROVE  SecuredIsClean
<1>0. CodeTyped /\ SecurityIsOfFindings
  BY DEF VerdictsInv
<1> SUFFICES ASSUME security.at = "done"
             PROVE  /\ security.passed => /\ code.tested
                                          /\ \A i \in IssueIds : Blocking \notin {code.scan[i], security.named[i]}
                    /\ \A i \in IssueIds : security.named[i] # Absent => \E f \in security.findings :
                            f.id = i /\ f.severity = SeverityRead(security.named[i])
  BY DEF SecuredIsClean
<1>1. security.findings =
        {[id |-> i, severity |-> code.scan[i]] : i \in {j \in IssueIds : code.scan[j] # Absent}}
        \cup {[id |-> i, severity |-> SeverityRead(security.named[i])] : i \in {j \in IssueIds : security.named[j] # Absent}}
  BY <1>0 DEF SecurityIsOfFindings, AllFindings
<1>2. ASSUME NEW i \in IssueIds, security.named[i] # Absent
      PROVE  [id |-> i, severity |-> SeverityRead(security.named[i])] \in security.findings
  BY <1>1, <1>2
<1>3. ASSUME NEW i \in IssueIds, code.scan[i] # Absent
      PROVE  [id |-> i, severity |-> code.scan[i]] \in security.findings
  BY <1>1, <1>3
<1>4. ASSUME security.passed, NEW i \in IssueIds
      PROVE  code.scan[i] # Blocking /\ security.named[i] # Blocking
  <2>1. \A f \in security.findings : f.severity # Blocking
    BY <1>0, <1>4 DEF SecurityIsOfFindings
  <2>2. code.scan[i] # Blocking
    <3> SUFFICES ASSUME code.scan[i] = Blocking
                 PROVE  FALSE
      OBVIOUS
    <3>1. [id |-> i, severity |-> code.scan[i]] \in security.findings
      BY <1>3 DEF Blocking, Absent
    <3>2. [id |-> i, severity |-> code.scan[i]].severity = Blocking
      OBVIOUS
    <3> QED
      BY <2>1, <3>1, <3>2, Zenon
  <2>3. security.named[i] # Blocking
    <3> SUFFICES ASSUME security.named[i] = Blocking
                 PROVE  FALSE
      OBVIOUS
    <3>1. SeverityRead(security.named[i]) = Blocking /\ security.named[i] # Absent
      BY DEF SeverityRead, Blocking, Unknown, Absent
    <3>2. [id |-> i, severity |-> SeverityRead(security.named[i])] \in security.findings
      BY <1>2, <3>1
    <3>3. [id |-> i, severity |-> SeverityRead(security.named[i])].severity = Blocking
      BY <3>1
    <3> QED
      BY <2>1, <3>2, <3>3, Zenon
  <2> QED
    BY <2>2, <2>3
<1>5. ASSUME NEW i \in IssueIds, security.named[i] # Absent
      PROVE  \E f \in security.findings : f.id = i /\ f.severity = SeverityRead(security.named[i])
  BY <1>2, <1>5
<1> QED
  BY <1>0, <1>4, <1>5 DEF SecurityIsOfFindings

LEMMA VerdictsAlways == VerdictsSpec => []VerdictsInv
BY VerdictsStart, VerdictsStep, PTL DEF VerdictsSpec

-----------------------------------------------------------------------------
(* The review of a repository.                                               *)

ReviewSpec == ReviewInit /\ [][ReviewNext]_reviewVars

\* The lines that the file of a number adds to the sum.
LinesAt(codeFiles, places, n) == IF n \in places THEN codeFiles[n].lines ELSE 0
FilesType == [lines : Nat, large : BOOLEAN]

\* LinesUpTo (ReviewFindings) is the running sum of the lines of the files taken.
LEMMA LinesAreSummed ==
    ASSUME NEW codeFiles \in Seq(FilesType), NEW places
    PROVE  LET lines == LinesUpTo(codeFiles, places) IN
           /\ lines \in [0..Len(codeFiles) -> Nat] /\ lines[0] = 0
           /\ \A k \in 1..Len(codeFiles) : lines[k] = lines[k - 1] + LinesAt(codeFiles, places, k)
<1> DEFINE N == Len(codeFiles)
           a == [k \in 1..N |-> LinesAt(codeFiles, places, k)]
           sum == LinesUpTo(codeFiles, places)
           Adds(g) == [n \in 0..N |-> IF n = 0 THEN 0 ELSE g[n - 1] + (IF n \in places THEN codeFiles[n].lines ELSE 0)]
<1>0. N \in Nat /\ \A k \in 1..N : LinesAt(codeFiles, places, k) \in Nat
  <2>1. N \in Nat /\ \A k \in 1..N : codeFiles[k] \in FilesType
    OBVIOUS
  <2> QED
    BY <2>1 DEF LinesAt, FilesType
<1>1. PICK g \in [0..N -> Nat] : g[0] = 0 /\ \A k \in 1..N : g[k] = g[k - 1] + a[k]
  <2>1. N \in Nat /\ \A k \in 1..N : a[k] \in Nat
    BY <1>0
  <2> HIDE DEF a, N
  <2> QED
    BY <2>1, SumsExist
<1>2. g = Adds(g)
  <2>1. \A n \in 0..N : g[n] = IF n = 0 THEN 0 ELSE g[n - 1] + (IF n \in places THEN codeFiles[n].lines ELSE 0)
    BY <1>1 DEF LinesAt
  <2> QED
    BY <2>1
<1>3. sum = Adds(sum)
  <2>1. sum = CHOOSE f : f = Adds(f)
    BY DEF LinesUpTo
  <2> HIDE DEF sum, Adds
  <2> QED
    BY <1>2, <2>1, Zenon
<1> HIDE DEF sum
<1>4. sum[0] = 0 /\ \A n \in 1..N : sum[n] = sum[n - 1] + LinesAt(codeFiles, places, n)
  <2>1. N \in Nat
    BY <1>0
  <2>2. \A n \in 0..N : Adds(sum)[n] = IF n = 0 THEN 0 ELSE sum[n - 1] + (IF n \in places THEN codeFiles[n].lines ELSE 0)
    OBVIOUS
  <2>3. \A n \in 0..N : sum[n] = IF n = 0 THEN 0 ELSE sum[n - 1] + (IF n \in places THEN codeFiles[n].lines ELSE 0)
    <3> HIDE DEF N, Adds
    <3> QED
      BY <1>3, <2>2, Zenon
  <2>4. \A n \in 0..N : sum[n] = IF n = 0 THEN 0 ELSE sum[n - 1] + LinesAt(codeFiles, places, n)
    BY <2>3, Zenon DEF LinesAt
  <2> HIDE DEF N
  <2>5. 0 \in 0..N /\ \A n \in 1..N : n \in 0..N /\ n # 0
    BY <2>1
  <2> QED
    BY <2>4, <2>5
<1>5. sum \in [0..N -> Nat]
  <2> DEFINE S == {n \in Nat : n <= N => sum[n] \in Nat}
  <2>1. 0 \in S
    BY <1>4
  <2>2. ASSUME NEW n \in Nat, n \in S
        PROVE  n + 1 \in S
    <3>1. n + 1 <= N => sum[n + 1] = sum[n] + LinesAt(codeFiles, places, n + 1) /\ LinesAt(codeFiles, places, n + 1) \in Nat
      BY <1>0, <1>4
    <3> QED
      BY <1>0, <2>2, <3>1
  <2>3. \A n \in 0..N : sum[n] \in Nat
    <3>1. Nat \subseteq S
      <4> HIDE DEF S
      <4> QED
        BY <2>1, <2>2, AllNumbers
    <3> QED
      BY <3>1
  <2> QED
    BY <1>3, <2>3
<1> QED
  BY <1>4, <1>5 DEF sum

\* A file that is taken counts from its place on.
LEMMA LinesWithOneMore ==
    ASSUME NEW codeFiles \in Seq(FilesType), NEW places, NEW i \in 1..Len(codeFiles), i \notin places
    PROVE  \A n \in 0..Len(codeFiles) : LinesUpTo(codeFiles, places \cup {i})[n] =
             LinesUpTo(codeFiles, places)[n] + (IF n >= i THEN codeFiles[i].lines ELSE 0)
<1> DEFINE N == Len(codeFiles)
           old == LinesUpTo(codeFiles, places)
           new == LinesUpTo(codeFiles, places \cup {i})
           S == {n \in Nat : n <= N => new[n] = old[n] + (IF n >= i THEN codeFiles[i].lines ELSE 0)}
<1>1. /\ N \in Nat /\ old \in [0..N -> Nat] /\ old[0] = 0
      /\ \A k \in 1..N : old[k] = old[k - 1] + LinesAt(codeFiles, places, k)
      /\ new \in [0..N -> Nat] /\ new[0] = 0
      /\ \A k \in 1..N : new[k] = new[k - 1] + LinesAt(codeFiles, places \cup {i}, k)
  BY LinesAreSummed
<1>2. \A k \in 1..N : codeFiles[k].lines \in Nat
  <2>1. \A k \in 1..N : codeFiles[k] \in FilesType
    OBVIOUS
  <2> QED
    BY <2>1 DEF FilesType
<1>7. codeFiles[i].lines \in Nat
  BY <1>2
<1> HIDE DEF old, new
<1>3. 0 \in S
  BY <1>1
<1>4. ASSUME NEW n \in Nat, n \in S
      PROVE  n + 1 \in S
  <2> SUFFICES ASSUME n + 1 <= N
               PROVE  new[n + 1] = old[n + 1] + (IF n + 1 >= i THEN codeFiles[i].lines ELSE 0)
    OBVIOUS
  <2>1. n + 1 \in 1..N /\ n \in 0..N /\ n <= N /\ i \in Nat
    BY <1>1
  <2>2. /\ new[n + 1] = new[n] + LinesAt(codeFiles, places \cup {i}, n + 1)
        /\ old[n + 1] = old[n] + LinesAt(codeFiles, places, n + 1)
        /\ new[n] = old[n] + (IF n >= i THEN codeFiles[i].lines ELSE 0)
        /\ old[n] \in Nat /\ new[n] \in Nat
    <3>1. n + 1 - 1 = n
      OBVIOUS
    <3>2. new[n] = old[n] + (IF n >= i THEN codeFiles[i].lines ELSE 0)
      BY <1>4, <2>1
    <3>3. old[n] \in Nat /\ new[n] \in Nat
      BY <1>1, <2>1
    <3>4. PICK k \in 1..N : k = n + 1
      BY <2>1
    <3>7. new[k] = new[k - 1] + LinesAt(codeFiles, places \cup {i}, k) /\ old[k] = old[k - 1] + LinesAt(codeFiles, places, k)
      BY <1>1
    <3>8. k - 1 = n
      BY <3>4
    <3>5. new[n + 1] = new[n] + LinesAt(codeFiles, places \cup {i}, n + 1)
      BY <3>4, <3>7, <3>8, Zenon
    <3>6. old[n + 1] = old[n] + LinesAt(codeFiles, places, n + 1)
      BY <3>4, <3>7, <3>8, Zenon
    <3> QED
      BY <3>2, <3>3, <3>5, <3>6
  <2>3. LinesAt(codeFiles, places, n + 1) \in Nat
    BY <1>2, <2>1 DEF LinesAt
  <2>4. CASE n + 1 = i
    <3>1. LinesAt(codeFiles, places \cup {i}, n + 1) = codeFiles[i].lines /\ LinesAt(codeFiles, places, n + 1) = 0 /\ ~(n >= i)
      BY <2>1, <2>4 DEF LinesAt
    <3> QED
      BY <1>7, <2>2, <2>4, <3>1
  <2>5. CASE n + 1 # i
    <3>1. LinesAt(codeFiles, places \cup {i}, n + 1) = LinesAt(codeFiles, places, n + 1) /\ (n + 1 >= i <=> n >= i)
      BY <2>1, <2>5 DEF LinesAt
    <3> QED
      BY <1>7, <2>2, <2>3, <3>1
  <2> QED
    BY <2>4, <2>5
<1>5. Nat \subseteq S
  <2> HIDE DEF S
  <2> QED
    BY <1>3, <1>4, AllNumbers
<1>6. \A n \in 0..N : n \in Nat /\ n <= N
  BY <1>1
<1> QED
  BY <1>5, <1>6 DEF old, new

\* What is kept of the files read, and the type of the whole.
ExtractionType == [at : Nat, taken : SUBSET Nat, total_lines : Nat, failed : SUBSET Nat, skipped : SUBSET Nat]
ReviewTyped ==
    /\ target.where \in {"local", "github"} /\ target.files \in Seq(FilesType) /\ extraction \in ExtractionType
    /\ outcome.status \in {"none", "success", "failed"}
\* Why a file is not among those taken.
LeftOut(i) ==
    LET lines == LinesUpTo(target.files, extraction.taken) IN
    \/ target.files[i].large \/ i \in extraction.failed
    \/ lines[i - 1] >= MaxLines0 \/ lines[i - 1] + target.files[i].lines > MaxLines0
    \/ target.where = "github" /\ \E j \in extraction.skipped : j < i

\* The files before the place reached are taken, or have a cause; the sum of their lines is kept.
ReadSoFar ==
    /\ extraction.at = 0 => extraction.taken = {}
    /\ extraction.at <= Len(target.files) + 1
    /\ \A i \in extraction.taken : i \in 1..Len(target.files) /\ i < extraction.at
    /\ extraction.total_lines <= MaxLines0
    /\ \A n \in 0..Len(target.files) :
        n + 1 >= extraction.at => LinesUpTo(target.files, extraction.taken)[n] = extraction.total_lines
    /\ target.found => \A i \in 1..Len(target.files) \ extraction.taken : i < extraction.at => LeftOut(i)

\* A review that ended well took a file, and what it found or did not find is of an answer.
ReviewEnded == outcome.status = "success" =>
    /\ extraction.at > 0 /\ (extraction.at \in 1..Len(target.files) => extraction.total_lines >= MaxLines0)
    /\ outcome.findings = {} => \/ extraction.taken = {} /\ outcome.files = {}
                                \/ answered.form = "other" \/ \A k \in DOMAIN answered.items : ~answered.items[k]
ReviewInv == ReviewTyped /\ ReadSoFar /\ ReviewEnded

\* Before the first file nothing is taken.
LEMMA ReviewStart == ReviewInit => ReviewInv
<1> SUFFICES ASSUME ReviewInit
             PROVE  ReviewInv
  OBVIOUS
<1>1. target.files \in Seq(FilesType)
  <2>1. PICK n \in 0..MaxFiles : target.files \in [1..n -> File]
    BY DEF ReviewInit
  <2>2. n \in Nat /\ File \subseteq FilesType
    BY ReviewAssumption DEF File, FilesType
  <2>3. target.files \in [1..n -> FilesType]
    BY <2>1, <2>2
  <2> QED
    BY <2>2, <2>3, SeqDef
<1>2. ReviewTyped
  BY <1>1 DEF ReviewInit, ReviewTyped, ExtractionType, NoOutcome
<1>3. \A n \in 0..Len(target.files) : LinesUpTo(target.files, {})[n] = 0
  <2> DEFINE N == Len(target.files)
             lines == LinesUpTo(target.files, {})
             S == {n \in Nat : n <= N => lines[n] = 0}
  <2>1. lines[0] = 0 /\ N \in Nat /\ \A k \in 1..N : lines[k] = lines[k - 1] + 0
    BY <1>1, LinesAreSummed DEF LinesAt
  <2> HIDE DEF lines
  <2>2. 0 \in S
    BY <2>1
  <2>3. ASSUME NEW n \in Nat, n \in S
        PROVE  n + 1 \in S
    BY <2>1, <2>3
  <2>4. Nat \subseteq S
    <3> HIDE DEF S
    <3> QED
      BY <2>2, <2>3, AllNumbers
  <2> QED
    BY <2>1, <2>4 DEF lines
<1>4. ReadSoFar
  BY <1>1, <1>3, ReviewAssumption DEF ReviewInit, ReadSoFar
<1> QED
  BY <1>2, <1>4 DEF ReviewInit, ReviewInv, ReviewEnded, NoOutcome

\* Nothing more is taken: what was read stays, and the place moves over files that have a cause.
LEMMA NoneTaken ==
    ASSUME ReviewInv, NEW e \in ExtractionType, target' = target, extraction' = e,
           e.taken = extraction.taken, e.total_lines = extraction.total_lines,
           extraction.at <= e.at, e.at <= Len(target.files) + 1, extraction.failed \subseteq e.failed, extraction.skipped \subseteq e.skipped,
           extraction.at > 0 \/ ~target.found \/ e.at <= 1,
           target.found => \A i \in 1..Len(target.files) : extraction.at <= i /\ i < e.at =>
             \/ target.files[i].large \/ i \in e.failed
             \/ extraction.total_lines >= MaxLines0 \/ extraction.total_lines + target.files[i].lines > MaxLines0
             \/ target.where = "github" /\ \E j \in e.skipped : j < i,
           e.at = 0 => extraction.taken = {}
    PROVE  ReadSoFar'
<1>0. ReviewTyped /\ ReadSoFar
  BY DEF ReviewInv
<1> DEFINE N == Len(target.files)
           lines == LinesUpTo(target.files, extraction.taken)
<1>1. N \in Nat /\ extraction \in ExtractionType 
  BY <1>0 DEF ReviewTyped
<1>2. extraction.at \in Nat /\ e.at \in Nat
  BY <1>1 DEF ExtractionType
<1>3. LinesUpTo(target'.files, extraction'.taken) = lines /\ target'.files = target.files
  OBVIOUS
<1>4. \A n \in 0..N : n + 1 >= extraction.at => lines[n] = extraction.total_lines
  BY <1>0 DEF ReadSoFar
<1> HIDE DEF lines
<1>5. ASSUME target.found, NEW i \in 1..N \ extraction.taken, i < e.at
      PROVE  LeftOut(i)'
  <2>1. CASE i < extraction.at
    <3>1. LeftOut(i)
      BY <1>0, <1>5, <2>1 DEF ReadSoFar
    <3> QED
      BY <1>3, <3>1 DEF LeftOut, lines
  <2>2. CASE extraction.at <= i
    <3>1. i - 1 \in 0..N /\ i - 1 + 1 >= extraction.at
      BY <1>1, <1>2, <2>2
    <3>2. lines[i - 1] = extraction.total_lines
      BY <1>4, <3>1
    <3>3. \/ target.files[i].large \/ i \in e.failed
          \/ extraction.total_lines >= MaxLines0 \/ extraction.total_lines + target.files[i].lines > MaxLines0
          \/ target.where = "github" /\ \E j \in e.skipped : j < i
      BY <1>5, <2>2
    <3> QED
      BY <1>3, <3>2, <3>3 DEF LeftOut
  <2> QED
    BY <1>1, <1>2, <2>1, <2>2
<1>6. \A n \in 0..N : n + 1 >= e.at => n + 1 >= extraction.at
  BY <1>1, <1>2
<1>7. \A i \in extraction.taken : i \in 1..N /\ i < e.at
  BY <1>0, <1>1, <1>2 DEF ReadSoFar
<1> QED
  BY <1>0, <1>3, <1>4, <1>5, <1>6, <1>7 DEF ReadSoFar

\* The review goes on by one file, by what stops the reading, or by the answer of the model.
LEMMA ReviewStep == ReviewInv /\ [ReviewNext]_reviewVars => ReviewInv'
<1> SUFFICES ASSUME ReviewInv, [ReviewNext]_reviewVars
             PROVE  ReviewInv'
  OBVIOUS
<1>0. ReviewTyped /\ ReadSoFar /\ ReviewEnded
  BY DEF ReviewInv
<1> DEFINE N == Len(target.files)
           at == extraction.at
           lines == LinesUpTo(target.files, extraction.taken)
<1>a. /\ N \in Nat /\ at \in Nat /\ extraction.total_lines \in Nat /\ extraction \in ExtractionType
      /\ \A i \in 1..N : target.files[i].lines \in Nat
      /\ MaxLines0 \in Nat
  <2>1. \A i \in 1..N : target.files[i] \in FilesType
    BY <1>0 DEF ReviewTyped
  <2> QED
    BY <1>0, <2>1, ReviewAssumption DEF ReviewTyped, ExtractionType, FilesType
\* While it is read there is no outcome.
<1>b. ASSUME ReadSoFar', extraction' \in ExtractionType, target' = target, outcome' = outcome, InProgress
      PROVE  ReviewInv'
  BY <1>0, <1>b DEF ReviewInv, ReviewTyped, ReviewEnded, InProgress
\* Once it is read, what was read stays.
<1>c. ASSUME ReviewEnded', target' = target, extraction' = extraction, outcome'.status \in {"none", "success", "failed"}
      PROVE  ReviewInv'
  BY <1>0, <1>c DEF ReviewInv, ReviewTyped, ReadSoFar, LeftOut
<1>1. CASE FindTarget
  <2> DEFINE to == IF target.found THEN 1 ELSE N + 1
             e == [extraction EXCEPT !.at = to]
  <2>1. /\ extraction' = e /\ target' = target /\ outcome' = outcome /\ InProgress /\ at = 0
        /\ to \in Nat /\ to <= N + 1 /\ (target.found => to = 1) /\ extraction.taken = {}
    BY <1>0, <1>1, <1>a DEF FindTarget, ReadSoFar
  <2> HIDE DEF to
  <2>2. /\ e \in ExtractionType /\ e.taken = extraction.taken /\ e.total_lines = extraction.total_lines
        /\ e.failed = extraction.failed /\ e.skipped = extraction.skipped /\ e.at = to
    BY <1>a, <2>1 DEF ExtractionType
  <2> HIDE DEF e
  <2>3. ReadSoFar'
    BY <1>a, <2>1, <2>2, NoneTaken
  <2> QED
    BY <1>b, <2>1, <2>2, <2>3
<1>2. ASSUME More, outcome' = outcome, target' = target, NEW e \in ExtractionType, extraction' = e,
             e.taken = extraction.taken, e.total_lines = extraction.total_lines, at <= e.at, e.at <= N + 1,
             extraction.failed \subseteq e.failed, extraction.skipped \subseteq e.skipped,
             target.found => \A i \in 1..N : at <= i /\ i < e.at =>
               \/ target.files[i].large \/ i \in e.failed
               \/ extraction.total_lines >= MaxLines0 \/ extraction.total_lines + target.files[i].lines > MaxLines0
               \/ target.where = "github" /\ \E j \in e.skipped : j < i
      PROVE  ReviewInv'
  <2>1. InProgress /\ at \in 1..N /\ at > 0 /\ e.at # 0
    BY <1>2, <1>a DEF More, ExtractionType
  <2>2. ReadSoFar'
    BY <1>2, <2>1, NoneTaken
  <2> QED
    BY <1>2, <1>b, <2>1, <2>2
<1>3. CASE ReadFile
  <2> DEFINE file == target.files[at]
             read == [extraction EXCEPT !.at = at + 1, !.taken = extraction.taken \cup {at},
                                   !.total_lines = extraction.total_lines + file.lines]
             large == [extraction EXCEPT !.at = at + 1]
             skip == [extraction EXCEPT !.at = AfterMisfit(at), !.skipped = extraction.skipped \cup {at}]
  <2>0. /\ More /\ at \in 1..N /\ InProgress /\ target' = target /\ outcome' = outcome
        /\ \/ file.large /\ extraction' = large
           \/ ~file.large /\ Fits(file) /\ extraction' = read
           \/ ~Fits(file) /\ extraction' = skip
    BY <1>3 DEF ReadFile, More
  <2>1. CASE file.large /\ extraction' = large
    <3>1. /\ large \in ExtractionType /\ large.taken = extraction.taken /\ large.total_lines = extraction.total_lines
          /\ large.at = at + 1 /\ large.failed = extraction.failed /\ large.skipped = extraction.skipped
      BY <1>a DEF ExtractionType
    <3> HIDE DEF large
    <3>2. \A i \in 1..N : at <= i /\ i < large.at => i = at
      BY <1>a, <3>1
    <3> QED
      BY <1>2, <1>a, <2>0, <2>1, <3>1, <3>2
  <2>2. CASE ~Fits(file) /\ extraction' = skip
    <3>0. AfterMisfit(at) \in Nat /\ at < AfterMisfit(at) /\ AfterMisfit(at) <= N + 1
      BY <1>a, <2>0 DEF AfterMisfit
    <3>1. /\ skip \in ExtractionType /\ skip.taken = extraction.taken /\ skip.total_lines = extraction.total_lines
          /\ skip.at = AfterMisfit(at) /\ skip.failed = extraction.failed /\ skip.skipped = extraction.skipped \cup {at}
      BY <1>a, <3>0 DEF ExtractionType
    <3> HIDE DEF skip
    <3>2. extraction.total_lines + file.lines > MaxLines0
      <4>1. MaxLines0 \in Nat
        BY ReviewAssumption
      <4> QED
        BY <1>a, <2>0, <2>2, <4>1 DEF Fits
    <3>3. ASSUME NEW i \in 1..N, at <= i, i < skip.at
          PROVE  i = at \/ (target.where = "github" /\ \E j \in skip.skipped : j < i)
      <4>1. CASE target.where = "local"
        BY <1>a, <3>1, <3>3, <4>1 DEF AfterMisfit
      <4>2. CASE target.where # "local"
        <5>1. target.where = "github"
          BY <1>0, <4>2 DEF ReviewTyped
        <5>2. at \in skip.skipped /\ (i # at => at < i)
          BY <1>a, <3>1, <3>3
        <5> QED
          BY <5>1, <5>2
      <4> QED
        BY <4>1, <4>2
    <3> QED
      BY <1>2, <1>a, <2>0, <2>2, <3>0, <3>1, <3>2, <3>3
  <2>3. CASE ~file.large /\ Fits(file) /\ extraction' = read
    <3>0. /\ extraction.taken \cup {at} \in SUBSET Nat /\ at \notin extraction.taken
          /\ extraction.total_lines + file.lines \in Nat /\ at + 1 \in Nat
      BY <1>0, <1>a, <2>0 DEF ReadSoFar, ExtractionType
    <3>1. /\ read \in ExtractionType /\ read.taken = extraction.taken \cup {at}
          /\ read.total_lines = extraction.total_lines + file.lines /\ read.at = at + 1
          /\ read.failed = extraction.failed /\ read.skipped = extraction.skipped
      BY <1>a, <2>0, <3>0 DEF ExtractionType
    <3> HIDE DEF read
    <3> DEFINE now == LinesUpTo(target.files, extraction.taken \cup {at})
    <3>2. \A n \in 0..N : now[n] = lines[n] + (IF n >= at THEN file.lines ELSE 0)
      BY <1>0, <2>0, <3>0, LinesWithOneMore DEF ReviewTyped
    <3>3. lines \in [0..N -> Nat]
      BY <1>0, LinesAreSummed DEF ReviewTyped
    <3>4. \A n \in 0..N : n + 1 >= at => lines[n] = extraction.total_lines
      BY <1>0 DEF ReadSoFar
    <3>5. now = LinesUpTo(target'.files, extraction'.taken)
      BY <2>0, <2>3, <3>1
    <3> HIDE DEF now, lines
    <3>6. ASSUME NEW n \in 0..N, n + 1 >= read.at
          PROVE  now[n] = extraction'.total_lines
      <4>1. n >= at /\ n + 1 >= at
        BY <1>a, <3>1, <3>6
      <4> QED
        BY <2>3, <3>1, <3>2, <3>4, <4>1
    <3>7. ASSUME target.found, NEW i \in 1..N \ read.taken, i < read.at
          PROVE  LeftOut(i)'
      <4>1. i < at /\ i \notin extraction.taken
        BY <1>a, <3>1, <3>7
      <4>2. LeftOut(i)
        BY <1>0, <3>7, <4>1 DEF ReadSoFar
      <4>3. now[i - 1] = lines[i - 1]
        <5>1. i - 1 \in 0..N /\ ~(i - 1 >= at)
          BY <1>a, <4>1
        <5> QED
          BY <3>2, <3>3, <5>1
      <4> QED
        BY <2>0, <2>3, <3>1, <3>5, <4>2, <4>3 DEF LeftOut, lines
    <3>8. extraction'.total_lines <= MaxLines0
      BY <2>3, <3>1 DEF Fits
    <3>9. extraction'.at # 0 /\ extraction'.at <= Len(target'.files) + 1
          /\ \A i \in extraction'.taken : i \in 1..Len(target'.files) /\ i < extraction'.at
      BY <1>0, <1>a, <2>0, <2>3, <3>1 DEF ReadSoFar
    <3>10. ReadSoFar'
      BY <2>0, <2>3, <3>1, <3>5, <3>6, <3>7, <3>8, <3>9 DEF ReadSoFar
    <3> QED
      BY <1>b, <2>0, <2>3, <3>1, <3>10
  <2> QED
    BY <2>0, <2>1, <2>2, <2>3
<1>4. CASE ReadFails
  <2> DEFINE e == [extraction EXCEPT !.at = at + 1, !.failed = extraction.failed \cup {at}]
  <2>1. More /\ extraction' = e /\ target' = target /\ outcome' = outcome
    BY <1>4 DEF ReadFails
  <2>2. /\ e \in ExtractionType /\ e.taken = extraction.taken /\ e.total_lines = extraction.total_lines
        /\ e.at = at + 1 /\ e.failed = extraction.failed \cup {at} /\ e.skipped = extraction.skipped
    <3>1. extraction.failed \cup {at} \in SUBSET Nat /\ at + 1 \in Nat
      BY <1>a DEF ExtractionType
    <3> QED
      BY <1>a, <3>1 DEF ExtractionType
  <2> HIDE DEF e
  <2>3. ASSUME NEW i \in 1..N, at <= i, i < e.at
        PROVE  i \in e.failed
    <3>1. i = at
      BY <1>a, <2>2, <2>3
    <3> QED
      BY <2>2, <3>1
  <2>4. at <= e.at /\ e.at <= N + 1
    BY <1>a, <2>1, <2>2 DEF More
  <2> QED
    BY <1>2, <2>1, <2>2, <2>3, <2>4
<1>5. CASE NothingToReview
  <2>1. Extracted /\ extraction.taken = {} /\ outcome' = [NoOutcome EXCEPT !.status = "success"]
        /\ target' = target /\ extraction' = extraction
    BY <1>5 DEF NothingToReview
  <2>2. outcome'.status = "success" /\ outcome'.files = {}
    BY <2>1 DEF NoOutcome
  <2>3. at > 0 /\ (at \in 1..N => extraction.total_lines >= MaxLines0)
    BY <1>a, <2>1 DEF Extracted, More
  <2> QED
    BY <1>c, <2>1, <2>2, <2>3 DEF ReviewEnded
<1>6. ASSUME NEW form \in {"json", "markdown", "other"}, NEW items \in Items, AnswerReview(form, items)
      PROVE  ReviewInv'
  <2>1. Extracted /\ extraction.taken # {} /\ answered' = [form |-> form, items |-> items]
        /\ target' = target /\ extraction' = extraction
        /\ outcome' = [status |-> "success", files |-> extraction.taken, findings |-> Parsed(form, items)]
    BY <1>6 DEF AnswerReview
  <2>2. at > 0 /\ (at \in 1..N => extraction.total_lines >= MaxLines0)
    BY <1>a, <2>1 DEF Extracted, More
  <2>3. outcome'.findings = {} => answered'.form = "other" \/ \A k \in DOMAIN answered'.items : ~answered'.items[k]
    BY <2>1 DEF Parsed
  <2> QED
    BY <1>c, <2>1, <2>2, <2>3 DEF ReviewEnded
<1>7. CASE AskFails
  BY <1>7, <1>c DEF AskFails, ReviewEnded, NoOutcome
<1>8. CASE UNCHANGED reviewVars
  BY <1>0, <1>8 DEF reviewVars, ReviewInv, ReviewTyped, ReadSoFar, ReviewEnded, LeftOut
<1> QED
  BY <1>1, <1>3, <1>4, <1>5, <1>6, <1>7, <1>8 DEF ReviewNext

LEMMA ReviewAlways == ReviewSpec => []ReviewInv
BY ReviewStart, ReviewStep, PTL DEF ReviewSpec

\* A file that a review left out is missing for a cause, and so are findings of a review without any.
LEMMA ReviewIsExplained ==
    ASSUME ReviewInv
    PROVE  ReviewedOrNoRoom /\ NoFindingsHasACause
<1>0. ReviewTyped /\ ReadSoFar /\ ReviewEnded
  BY DEF ReviewInv
<1>1. NoFindingsHasACause
  BY <1>0 DEF NoFindingsHasACause, ReviewEnded
<1>2. ASSUME outcome.status = "success", target.found
      PROVE  LET lines == LinesUpTo(target.files, extraction.taken) IN
             /\ lines[Len(target.files)] <= MaxLines0
             /\ \A i \in DOMAIN target.files \ extraction.taken :
                 \/ target.files[i].large \/ i \in extraction.failed
                 \/ lines[i - 1] >= MaxLines0 \/ lines[i - 1] + target.files[i].lines > MaxLines0
                 \/ target.where = "github" /\ \E j \in extraction.skipped : j < i
  <2> DEFINE N == Len(target.files)
             lines == LinesUpTo(target.files, extraction.taken)
             at == extraction.at
  <2>1. N \in Nat /\ DOMAIN target.files = 1..N /\ at \in Nat /\ extraction.total_lines \in Nat /\ MaxLines0 \in Nat
    BY <1>0, ReviewAssumption DEF ReviewTyped, ExtractionType
  <2>2. lines \in [0..N -> Nat] /\ lines[0] = 0 /\ \A k \in 1..N : lines[k] = lines[k - 1] + LinesAt(target.files, extraction.taken, k)
    BY <1>0, LinesAreSummed DEF ReviewTyped
  <2>3. at > 0 /\ (at \in 1..N => extraction.total_lines >= MaxLines0) /\ extraction.total_lines <= MaxLines0
    BY <1>0, <1>2 DEF ReviewEnded, ReadSoFar
  <2>4. \A n \in 0..N : n + 1 >= at => lines[n] = extraction.total_lines
    BY <1>0 DEF ReadSoFar
  <2>5. \A i \in 1..N \ extraction.taken : i < at => LeftOut(i)
    BY <1>0, <1>2 DEF ReadSoFar
  <2> HIDE DEF lines
  <2>6. lines[N] <= MaxLines0
    <3>1. N + 1 >= at
      BY <1>0, <2>1 DEF ReadSoFar
    <3>2. N \in 0..N
      BY <2>1
    <3> QED
      BY <2>3, <2>4, <3>1, <3>2
  <2>7. ASSUME NEW i \in 1..N \ extraction.taken
        PROVE  LeftOut(i)
    <3>1. CASE i < at
      BY <2>5, <3>1
    <3>2. CASE i >= at
      <4>1. at \in 1..N /\ i - 1 \in 0..N /\ i - 1 + 1 >= at
        BY <2>1, <2>3, <3>2
      <4>2. lines[i - 1] = extraction.total_lines
        BY <2>4, <4>1
      <4> QED
        BY <2>3, <4>1, <4>2 DEF LeftOut, lines
    <3> QED
      BY <2>1, <3>1, <3>2
  <2> QED
    BY <2>1, <2>6, <2>7 DEF LeftOut, lines
<1> QED
  BY <1>1, <1>2 DEF ReviewedOrNoRoom

-----------------------------------------------------------------------------
(* The report of a swarm.                                                    *)

MergeSpec == MergeInit /\ [][MergeNext]_mergeVars

\* A finding, or an entry of the report that stands for several, and what is known of the report.
FindingType == [kind : Nat, first : Nat, last : Nat, severity : Nat, by : SUBSET Critics, of : SUBSET Nat]
MergeTyped ==
    /\ reading \in Critics \cup {"none"}
    /\ reviewersDone \in [ok : SUBSET Critics, failed : SUBSET Critics] /\ reviewersDone.ok \cap reviewersDone.failed = {}
    /\ report \in Seq(FindingType) /\ given \in Seq(FindingType) /\ removed \in Nat
    /\ Len(report) + removed = Len(given) /\ Len(given) <= MaxFindings

\* An entry is at least as severe as a finding, names its reviewers and covers its lines.
StandsFor(entry, f) == entry.severity <= f.severity /\ f.by \subseteq entry.by /\ entry.first <= f.first /\ f.last <= entry.last
\* The entries divide the findings among them, and each stands for its own.
Divided ==
    /\ \A i \in DOMAIN report : report[i].of # {} /\ report[i].of \subseteq DOMAIN given
    /\ \A i \in DOMAIN report : \A k \in report[i].of : StandsFor(report[i], given[k])
    /\ \A i, j \in DOMAIN report : i # j => report[i].of \cap report[j].of = {}
    /\ \A k \in DOMAIN given : \E i \in DOMAIN report : k \in report[i].of

\* An entry that was merged stands for two findings or more.
Wide(entry) == \E k, l \in entry.of : k # l

\* Two entries that are duplicates of each other are so because one was widened after it was compared.
Compared == \A i, j \in DOMAIN report :
    i # j /\ IsDuplicate(report[i], report[j]) => Wide(report[i]) \/ Wide(report[j])
MergeInv == MergeTyped /\ Divided /\ Compared

\* The report is empty, as no reviewer is read.
LEMMA MergeStart == MergeInit => MergeInv
BY FindingsAssumption DEF MergeInit, MergeInv, MergeTyped, Divided, Compared

\* The merge of two findings covers both.
LEMMA MergedEntry ==
    ASSUME NEW e \in FindingType, NEW f \in FindingType
    PROVE  LET m == MergeFindings(e, f) IN
           /\ m \in FindingType /\ m.of = e.of \cup f.of
           /\ \A g \in FindingType : StandsFor(e, g) => StandsFor(m, g)
           /\ StandsFor(m, f)
<1> DEFINE m == MergeFindings(e, f)
           b == Base(e, f)
<1>1. /\ b \in FindingType /\ b.severity <= e.severity /\ b.severity <= f.severity
  BY DEF Base, FindingType
<1>2. /\ Lower(e.first, f.first) \in Nat /\ Higher(e.last, f.last) \in Nat
      /\ Lower(e.first, f.first) <= e.first /\ Lower(e.first, f.first) <= f.first
      /\ e.last <= Higher(e.last, f.last) /\ f.last <= Higher(e.last, f.last)
  BY DEF Lower, Higher, FindingType
<1> HIDE DEF b
<1>3. m = [b EXCEPT !.first = Lower(e.first, f.first), !.last = Higher(e.last, f.last),
                    !.by = e.by \cup f.by, !.of = e.of \cup f.of]
  BY DEF MergeFindings, b
<1>4. /\ m \in FindingType /\ m.of = e.of \cup f.of /\ m.by = e.by \cup f.by /\ m.severity = b.severity
      /\ m.first = Lower(e.first, f.first) /\ m.last = Higher(e.last, f.last)
  <2>1. e.by \cup f.by \in SUBSET Critics /\ e.of \cup f.of \in SUBSET Nat
    BY DEF FindingType
  <2> HIDE DEF m
  <2> QED
    BY <1>1, <1>2, <1>3, <2>1 DEF FindingType
<1> HIDE DEF m
<1>5. ASSUME NEW g \in FindingType, StandsFor(e, g)
      PROVE  StandsFor(m, g)
  <2>1. m.severity <= g.severity
    BY <1>1, <1>4, <1>5 DEF StandsFor, FindingType
  <2>2. m.first <= g.first /\ g.last <= m.last
    BY <1>2, <1>4, <1>5 DEF StandsFor, FindingType
  <2> QED
    BY <1>4, <1>5, <2>1, <2>2 DEF StandsFor
<1>6. StandsFor(m, f)
  BY <1>1, <1>2, <1>4 DEF StandsFor
<1> QED
  BY <1>4, <1>5, <1>6 DEF m

\* One more finding, merged into the first entry it repeats or put last, keeps the report whole.
LEMMA TakenFinding ==
    ASSUME MergeInv, NEW f \in FindingType, f.of = {Len(given) + 1}, TakeFinding(f), Len(given) < MaxFindings
    PROVE  MergeInv'
<1>0. MergeTyped /\ Divided /\ Compared
  BY DEF MergeInv
<1> DEFINE new == Len(given) + 1
<1>1. /\ given' = Append(given, f) /\ given' \in Seq(FindingType) /\ Len(given') = new /\ given'[new] = f
      /\ DOMAIN given' = DOMAIN given \cup {new} /\ new \notin DOMAIN given /\ new \in Nat
      /\ \A k \in DOMAIN given : given'[k] = given[k] /\ given[k] \in FindingType
      /\ reading' = reading /\ reviewersDone' = reviewersDone
      /\ DOMAIN report = 1..Len(report) /\ Len(report) \in Nat /\ \A i \in DOMAIN report : report[i] \in FindingType
  BY <1>0 DEF TakeFinding, MergeTyped
<1>2. \A i \in DOMAIN report : new \notin report[i].of
  BY <1>0, <1>1 DEF Divided
<1>5. Len(given') <= MaxFindings
  <2>1. Len(given) \in Nat /\ MaxFindings \in Nat
    BY <1>0, FindingsAssumption DEF MergeTyped
  <2> QED
    BY <1>1, <2>1
<1> HIDE DEF new
<1>3. CASE Repeated(f) # {} /\ MergeFirst(f) /\ removed' = removed + 1
  <2>1. PICK i \in Repeated(f) : report' = [report EXCEPT ![i] = MergeFindings(@, f)]
    BY <1>3 DEF MergeFirst
  <2> DEFINE m == MergeFindings(report[i], f)
  <2>2. /\ i \in DOMAIN report /\ report' = [report EXCEPT ![i] = m] /\ report[i] \in FindingType
    BY <1>1, <2>1 DEF Repeated
  <2>3. /\ m \in FindingType /\ m.of = report[i].of \cup {new} /\ StandsFor(m, f)
        /\ \A g \in FindingType : StandsFor(report[i], g) => StandsFor(m, g)
    BY <2>2, MergedEntry DEF new
  <2> HIDE DEF m
  <2>4. /\ report' \in Seq(FindingType) /\ DOMAIN report' = DOMAIN report /\ Len(report') = Len(report)
        /\ report'[i] = m /\ \A j \in DOMAIN report \ {i} : report'[j] = report[j]
    BY <1>0, <2>2, <2>3 DEF MergeTyped
  <2>5. MergeTyped'
    <3>1. Len(report') + removed' = Len(given') /\ removed' \in Nat
      <4>1. /\ Len(report) \in Nat /\ removed \in Nat /\ Len(given) \in Nat /\ Len(report) + removed = Len(given)
            /\ Len(given') = Len(given) + 1
        BY <1>0, <1>1 DEF MergeTyped, new
      <4> QED
        BY <1>3, <2>4, <4>1
    <3> QED
      BY <1>0, <1>1, <1>5, <2>4, <3>1 DEF MergeTyped
  <2>6. Divided'
    <3>1. \A j \in DOMAIN report' : report'[j].of # {} /\ report'[j].of \subseteq DOMAIN given'
      BY <1>0, <1>1, <2>2, <2>3, <2>4 DEF Divided
    <3>2. ASSUME NEW j \in DOMAIN report', NEW k \in report'[j].of
          PROVE  StandsFor(report'[j], given'[k])
      <4>1. CASE j # i
        BY <1>0, <1>1, <2>4, <3>2, <4>1 DEF Divided
      <4>2. CASE j = i /\ k = new
        BY <1>1, <2>3, <2>4, <4>2
      <4>3. CASE j = i /\ k # new
        <5>1. k \in report[i].of /\ k \in DOMAIN given /\ StandsFor(report[i], given[k])
          BY <1>0, <2>2, <2>3, <2>4, <3>2, <4>3 DEF Divided
        <5> QED
          BY <1>1, <2>3, <2>4, <4>3, <5>1
      <4> QED
        BY <4>1, <4>2, <4>3
    <3>3. \A j, l \in DOMAIN report' : j # l => report'[j].of \cap report'[l].of = {}
      <4>1. \A j \in DOMAIN report \ {i} : report[j].of \cap m.of = {}
        BY <1>0, <1>2, <2>2, <2>3 DEF Divided
      <4> QED
        BY <1>0, <2>2, <2>4, <4>1 DEF Divided
    <3>4. ASSUME NEW k \in DOMAIN given'
          PROVE  \E j \in DOMAIN report' : k \in report'[j].of
      <4>1. CASE k = new
        BY <2>2, <2>3, <2>4, <4>1
      <4>2. CASE k # new
        <5>1. PICK j \in DOMAIN report : k \in report[j].of
          BY <1>0, <1>1, <4>2 DEF Divided
        <5> QED
          BY <2>2, <2>3, <2>4, <5>1
      <4> QED
        BY <4>1, <4>2
    <3> QED
      BY <3>1, <3>2, <3>3, <3>4 DEF Divided
  <2>7. Compared'
    <3>1. Wide(m)
      <4>1. PICK k \in report[i].of : k # new
        BY <1>0, <1>2, <2>2 DEF Divided
      <4> QED
        BY <2>3, <4>1 DEF Wide
    <3>2. ASSUME NEW j \in DOMAIN report', NEW l \in DOMAIN report', j # l, IsDuplicate(report'[j], report'[l])
          PROVE  Wide(report'[j]) \/ Wide(report'[l])
      <4>1. CASE j = i \/ l = i
        BY <2>4, <3>1, <4>1
      <4>2. CASE j # i /\ l # i
        BY <1>0, <2>4, <3>2, <4>2 DEF Compared
      <4> QED
        BY <4>1, <4>2
    <3> QED
      BY <3>2 DEF Compared
  <2> QED
    BY <2>5, <2>6, <2>7 DEF MergeInv
<1>4. CASE Repeated(f) = {} /\ report' = Append(report, f) /\ removed' = removed
  <2> DEFINE place == Len(report) + 1
  <2>1. /\ report' \in Seq(FindingType) /\ Len(report') = place /\ report'[place] = f
        /\ DOMAIN report' = DOMAIN report \cup {place} /\ place \notin DOMAIN report
        /\ \A j \in DOMAIN report : report'[j] = report[j]
    BY <1>0, <1>4 DEF MergeTyped
  <2>2. MergeTyped'
    <3>1. Len(report') + removed' = Len(given') /\ removed' \in Nat
      BY <1>0, <1>1, <1>4, <2>1 DEF MergeTyped, new
    <3> QED
      BY <1>0, <1>1, <1>5, <2>1, <3>1 DEF MergeTyped
  <2> HIDE DEF place
  <2>3. Divided'
    <3>1. \A j \in DOMAIN report' : report'[j].of # {} /\ report'[j].of \subseteq DOMAIN given'
      BY <1>0, <1>1, <2>1 DEF Divided, new
    <3>2. ASSUME NEW j \in DOMAIN report', NEW k \in report'[j].of
          PROVE  StandsFor(report'[j], given'[k])
      <4>1. CASE j # place
        BY <1>0, <1>1, <2>1, <3>2, <4>1 DEF Divided
      <4>2. CASE j = place
        <5>1. k = new /\ report'[j] = f /\ given'[k] = f
          BY <1>1, <2>1, <3>2, <4>2 DEF new
        <5> QED
          BY <5>1 DEF StandsFor, FindingType
      <4> QED
        BY <4>1, <4>2
    <3>3. \A j, l \in DOMAIN report' : j # l => report'[j].of \cap report'[l].of = {}
      BY <1>0, <1>2, <2>1 DEF Divided, new
    <3>4. \A k \in DOMAIN given' : \E j \in DOMAIN report' : k \in report'[j].of
      <4>1. new \in report'[place].of /\ place \in DOMAIN report'
        BY <2>1 DEF new
      <4>2. \A k \in DOMAIN given : \E j \in DOMAIN report' : k \in report'[j].of
        BY <1>0, <2>1 DEF Divided
      <4> QED
        BY <1>1, <4>1, <4>2
    <3> QED
      BY <3>1, <3>2, <3>3, <3>4 DEF Divided
  <2>4. Compared'
    <3>1. \A j \in DOMAIN report : ~IsDuplicate(f, report[j]) /\ ~IsDuplicate(report[j], f)
      BY <1>4 DEF Repeated, IsDuplicate, LinesOverlap, Alike
    <3>2. ASSUME NEW j \in DOMAIN report', NEW l \in DOMAIN report', j # l, IsDuplicate(report'[j], report'[l])
          PROVE  Wide(report'[j]) \/ Wide(report'[l])
      <4>1. j # place /\ l # place
        BY <2>1, <3>1, <3>2
      <4> QED
        BY <1>0, <2>1, <3>2, <4>1 DEF Compared
    <3> QED
      BY <3>2 DEF Compared
  <2> QED
    BY <2>2, <2>3, <2>4 DEF MergeInv
<1> QED
  BY <1>3, <1>4 DEF TakeFinding

\* A reviewer begins, one finding of it is taken, or it ends.
LEMMA MergeStep == MergeInv /\ [MergeNext]_mergeVars => MergeInv'
<1> SUFFICES ASSUME MergeInv, [MergeNext]_mergeVars
             PROVE  MergeInv'
  OBVIOUS
<1>0. MergeTyped /\ Divided /\ Compared
  BY DEF MergeInv
<1>1. CASE NextFinding
  <2>1. PICK kind \in 1..MaxKind, severity \in 1..MaxSeverity, p \in Places :
            TakeFinding([kind |-> kind, first |-> p[1], last |-> p[2], severity |-> severity,
                         by |-> {reading}, of |-> {Len(given) + 1}])
    BY <1>1 DEF NextFinding
  <2> DEFINE f == [kind |-> kind, first |-> p[1], last |-> p[2], severity |-> severity,
                   by |-> {reading}, of |-> {Len(given) + 1}]
  <2>2. kind \in Nat /\ severity \in Nat /\ p[1] \in Nat /\ p[2] \in Nat /\ reading \in Critics /\ Len(given) + 1 \in Nat
        /\ Len(given) < MaxFindings
    BY <1>0, <1>1, FindingsAssumption DEF NextFinding, Places, MergeTyped
  <2>3. f \in FindingType /\ f.of = {Len(given) + 1}
    BY <2>2 DEF FindingType
  <2> HIDE DEF f
  <2>4. TakeFinding(f)
    BY <2>1 DEF f
  <2> QED
    BY <2>2, <2>3, <2>4, TakenFinding
<1>2. ASSUME NEW r \in Critics, ReadResult(r)
      PROVE  MergeInv'
  BY <1>0, <1>2 DEF ReadResult, MergeInv, MergeTyped, Divided, Compared
<1>3. CASE UNCHANGED mergeVars
  BY <1>0, <1>3 DEF mergeVars, MergeInv, MergeTyped, Divided, Compared
<1> QED
  BY <1>1, <1>2, <1>3 DEF MergeNext

LEMMA MergeAlways == MergeSpec => []MergeInv
BY MergeStart, MergeStep, PTL DEF MergeSpec

\* Three entries of findings, two of which stand for two, are of four findings or more.
LEMMA ThreeFindings ==
    ASSUME NEW S, IsFiniteSet(S), NEW a \in S, NEW b \in S, NEW c \in S, a # b, a # c, b # c
    PROVE  Cardinality(S) > 2
<1>1. {a, b, c} \subseteq S
  OBVIOUS
<1>2. IsFiniteSet({a}) /\ Cardinality({a}) = 1 /\ IsFiniteSet({a, b}) /\ Cardinality({a, b}) = 2
  <2>1. IsFiniteSet({a}) /\ Cardinality({a}) = 1
    BY FS_Singleton
  <2>2. {a, b} = {a} \cup {b} /\ b \notin {a}
    OBVIOUS
  <2> QED
    BY <2>1, <2>2, FS_AddElement
<1>3. IsFiniteSet({a, b, c}) /\ Cardinality({a, b, c}) = 3
  <2>1. {a, b, c} = {a, b} \cup {c} /\ c \notin {a, b}
    OBVIOUS
  <2> QED
    BY <1>2, <2>1, FS_AddElement, SMTT(30)
<1>4. Cardinality({a, b, c}) <= Cardinality(S) /\ Cardinality(S) \in Nat
  BY <1>1, FS_Subset, FS_CardinalityType
<1> QED
  BY <1>3, <1>4

\* The report keeps each finding in an entry that stands for it, and repeats only what was widened.
LEMMA ReportIsWhole ==
    ASSUME MergeInv
    PROVE  MergeTypeOK /\ FindingsKept /\ RepeatsWereWidened
<1>0. MergeTyped /\ Divided /\ Compared
  BY DEF MergeInv
<1>1. MergeTypeOK
  BY <1>0, FindingsAssumption DEF MergeTyped, MergeTypeOK
<1>2. FindingsKept
  <2>1. ASSUME NEW k \in DOMAIN given
        PROVE  \E i \in DOMAIN report :
                 /\ k \in report[i].of /\ \A j \in DOMAIN report \ {i} : k \notin report[j].of
                 /\ report[i].severity <= given[k].severity /\ given[k].by \subseteq report[i].by
                 /\ report[i].first <= given[k].first /\ given[k].last <= report[i].last
    <3>1. PICK i \in DOMAIN report : k \in report[i].of
      BY <1>0 DEF Divided
    <3>2. StandsFor(report[i], given[k]) /\ \A j \in DOMAIN report \ {i} : k \notin report[j].of
      BY <1>0, <3>1 DEF Divided
    <3> QED
      BY <3>1, <3>2 DEF StandsFor
  <2> QED
    BY <1>0, <2>1 DEF FindingsKept, MergeTyped
<1>3. ASSUME NEW i \in DOMAIN report, NEW j \in DOMAIN report, i # j, IsDuplicate(report[i], report[j])
      PROVE  Cardinality(report[i].of \cup report[j].of) > 2
  <2> DEFINE S == report[i].of \cup report[j].of
  <2>1. IsFiniteSet(S)
    <3>1. S \subseteq 1..Len(given) /\ Len(given) \in Nat
      BY <1>0 DEF Divided, MergeTyped
    <3>2. IsFiniteSet(1..Len(given))
      <4>1. 1 \in Int /\ Len(given) \in Int
        BY <3>1
      <4> QED
        BY <4>1, FS_Interval
    <3> QED
      BY <3>1, <3>2, FS_Subset
  <2>2. report[i].of # {} /\ report[j].of # {} /\ report[i].of \cap report[j].of = {}
    BY <1>0, <1>3 DEF Divided
  <2>3. \E a, b, c \in S : a # b /\ a # c /\ b # c
    BY <1>0, <1>3, <2>2 DEF Compared, Wide
  <2> HIDE DEF S
  <2>4. Cardinality(S) > 2
    BY <2>1, <2>3, ThreeFindings
  <2> QED
    BY <2>4 DEF S
<1> QED
  BY <1>1, <1>2, <1>3 DEF RepeatsWereWidened

-----------------------------------------------------------------------------
(* The session of a swarm as it is shown.                                    *)

SwarmSpec == StatusInit /\ [][StatusNext]_statusVars

\* Where the session of a swarm is, and what its hash may say.
SwarmSteps == {"none", "start", "look", "wait", "aggregate", "gather", "again", "complete", "report", "fail", "ended"}
HashStates == {"absent", "none", "pending", "in_progress", "aggregating", "complete", "failed"}
Reports == SUBSET (InRegistry \cup {"none"})
SwarmTyped ==
    /\ finishing \in SwarmSteps /\ raises \in Nat
    /\ gathered \subseteq InRegistry /\ inResults \subseteq InRegistry /\ reviewing \subseteq InRegistry
    /\ sessionHash \in [whole : BOOLEAN, status : HashStates, report : Reports]
\* Of a swarm that was not asked for there is nothing.
NotTriggered == finishing = "none" =>
    /\ reviewing = {} /\ inResults = {} /\ inProgress = {} /\ sessionHash = NoHash /\ poll = NoPoll
    /\ ~response.read
\* Only the step before the report writes complete, and a failure after it is another's.
CompleteInOrder ==
    /\ finishing \in {"none", "start", "look", "wait", "aggregate", "gather", "again", "complete"}
        => sessionHash.status # "complete"
    /\ sessionHash.status = "complete" /\ sessionHash.report = Unreported =>
        finishing = "report" \/ (finishing = "fail" /\ raises >= 1) \/ raises >= 2

\* Complete without a report is what a failure between the two writes leaves.
Reportless(what) == what.status = "complete" /\ what.report = Unreported =>
    what.during \in {"report", "fail"} \/ raises >= 2

\* Nobody was late, and the results have not expired.
OnTime == ~timedOut /\ "results" \notin expired
PastWait == {"aggregate", "gather", "again", "complete", "report"}
Awaited ==
    /\ reviewing \subseteq awaited /\ inResults \subseteq awaited
    /\ OnTime => inProgress \subseteq inResults
\* What follows the wait has the results of all, unless some were late or expired.
AllGathered == OnTime =>
    /\ finishing \in PastWait \/ sessionHash.status = "complete" => awaited \subseteq inResults
    /\ finishing \in {"again", "complete", "report"} => gathered = awaited
    /\ sessionHash.report # Unreported => sessionHash.report = awaited

\* What the poll read before the results expired is of all of them.
PollInTime == OnTime =>
    /\ poll.status = "complete" => awaited \subseteq inResults
    /\ poll.report # Unreported => poll.report = awaited

\* So is the answer, if it says complete.
AnswerInTime == OnTime /\ response.read /\ response.status = "complete" =>
    /\ response.shown = awaited
    /\ response.report # Unreported => response.report = awaited

\* A session that is not found has not begun, or its hash has expired.
GoneIsExpired ==
    /\ finishing # "none" /\ ~sessionHash.whole => "session" \in expired
    /\ response.code \in {404, 500} => "session" \in expired

\* The invariant in two parts: of the hash of the session, and of the results that it sums up.
SwarmHashInv == SwarmTyped /\ NotTriggered /\ CompleteInOrder /\ Reportless(poll) /\ Reportless(response)
SwarmResultsInv == Awaited /\ AllGathered /\ PollInTime /\ AnswerInTime
SwarmInv == SwarmHashInv /\ SwarmResultsInv /\ GoneIsExpired

\* No swarm is triggered.
LEMMA SwarmStart == StatusInit => SwarmInv
BY DEF StatusInit, SwarmInv, SwarmHashInv, SwarmResultsInv, SwarmTyped, SwarmSteps, HashStates, Reports, NotTriggered,
    CompleteInOrder, Reportless, OnTime, PastWait, Awaited, AllGathered, PollInTime, AnswerInTime, GoneIsExpired,
    NoHash, NoPoll, NoResponse, Unreported

\* Each step of the dispatcher, of a reviewer, of the expiry and of a poll keeps what the hash says.
LEMMA SwarmHashStep == SwarmHashInv /\ [StatusNext]_statusVars => SwarmHashInv'
<1> SUFFICES ASSUME SwarmHashInv, [StatusNext]_statusVars
             PROVE  SwarmHashInv'
  OBVIOUS
<1>0. SwarmTyped /\ NotTriggered /\ CompleteInOrder /\ Reportless(poll) /\ Reportless(response)
  BY DEF SwarmHashInv
<1> USE DEF SwarmTyped, SwarmSteps, HashStates, Reports, NotTriggered, CompleteInOrder, Reportless, Unreported,
        swarmKeys, pollVars
<1>1. CASE EnsureComponents
  BY <1>0, <1>1 DEF EnsureComponents, SwarmHashInv
<1>2. CASE StartReviewers
  BY <1>0, <1>2 DEF StartReviewers, SwarmHashInv, PutStatus
<1>3. CASE AwaitReviewers
  BY <1>0, <1>3 DEF AwaitReviewers, SwarmHashInv
<1>4. CASE BackgroundStep
  <2>1. /\ finishing' = IF SessionIsRead(finishing) THEN AfterStep(finishing) ELSE "fail"
        /\ gathered' = IF finishing = "gather" THEN inResults ELSE gathered
        /\ finishing \in {"look", "aggregate", "gather", "again", "complete", "report", "fail"}
        /\ UNCHANGED <<components, awaited, inResults, inProgress, reviewing, pollVars, raises, timedOut, expired>>
    BY <1>4 DEF BackgroundStep
  <2>2. CASE finishing = "look"
    BY <1>0, <1>4, <2>1, <2>2 DEF SwarmHashInv, BackgroundStep, AfterStep
  <2>3. CASE finishing = "aggregate"
    BY <1>0, <1>4, <2>1, <2>3 DEF SwarmHashInv, BackgroundStep, AfterStep, PutStatus, SessionIsRead
  <2>4. CASE finishing = "gather"
    BY <1>0, <1>4, <2>1, <2>4 DEF SwarmHashInv, BackgroundStep, AfterStep, SessionIsRead
  <2>5. CASE finishing = "again"
    BY <1>0, <1>4, <2>1, <2>5 DEF SwarmHashInv, BackgroundStep, AfterStep
  <2>6. CASE finishing = "complete"
    BY <1>0, <1>4, <2>1, <2>6 DEF SwarmHashInv, BackgroundStep, AfterStep, PutStatus, SessionIsRead
  <2>7. CASE finishing = "report"
    <3>1. gathered # {"none"}
      BY <1>0, SwarmAssumption
    <3>2. /\ sessionHash'.report = gathered /\ sessionHash' \in [whole : BOOLEAN, status : HashStates, report : Reports]
      BY <1>0, <1>4, <2>7 DEF BackgroundStep, PutReport
    <3> QED
      BY <1>0, <2>1, <2>7, <3>1, <3>2 DEF SwarmHashInv, AfterStep, SessionIsRead
  <2>8. CASE finishing = "fail"
    BY <1>0, <1>4, <2>1, <2>8 DEF SwarmHashInv, BackgroundStep, AfterStep, PutStatus, SessionIsRead
  <2> QED
    BY <2>1, <2>2, <2>3, <2>4, <2>5, <2>6, <2>7, <2>8
<1>5. CASE BackgroundRaises
  BY <1>0, <1>5 DEF BackgroundRaises, SwarmHashInv
<1>6. CASE ExpireKey
  <2>1. sessionHash' \in {sessionHash, NoHash}
        /\ UNCHANGED <<components, awaited, reviewing, finishing, gathered, pollVars, raises, timedOut>>
        /\ inResults' \in {inResults, {}} /\ inProgress' \in {inProgress, {}}
    BY <1>6 DEF ExpireKey
  <2>2. NoHash \in [whole : BOOLEAN, status : HashStates, report : Reports] /\ NoHash.status = "absent"
    BY DEF NoHash
  <2>3. SwarmTyped' /\ CompleteInOrder'
    BY <1>0, <2>1, <2>2
  <2>4. NotTriggered' /\ Reportless(poll)' /\ Reportless(response)'
    BY <1>0, <2>1
  <2> QED
    BY <2>3, <2>4 DEF SwarmHashInv
<1>7. CASE PollSession
  BY <1>0, <1>7 DEF PollSession, SwarmHashInv, NoResponse
<1>8. CASE PollResults
  <2>1. /\ response'.status = poll.status /\ response'.report = poll.report /\ response'.during = poll.during
        /\ poll' = NoPoll /\ poll # NoPoll /\ raises' \in {raises, raises + 1}
        /\ UNCHANGED <<components, awaited, swarmKeys, reviewing, finishing, gathered, polls, timedOut, expired>>
    BY <1>8 DEF PollResults, StatusTold, NoPoll
  <2>2. Reportless(response)' /\ Reportless(poll)'
    BY <1>0, <2>1 DEF NoPoll
  <2>3. SwarmTyped' /\ NotTriggered' /\ CompleteInOrder'
    BY <1>0, <2>1
  <2> QED
    BY <2>2, <2>3 DEF SwarmHashInv
<1>9. ASSUME NEW v \in InRegistry, ReviewerEnds(v) \/ ReviewerCounts(v)
      PROVE  SwarmHashInv'
  BY <1>0, <1>9 DEF ReviewerEnds, ReviewerCounts, SwarmHashInv
<1>10. ASSUME NEW kind \in Targets, Refuse(kind)
       PROVE  SwarmHashInv'
  BY <1>0, <1>10 DEF Refuse, SwarmHashInv, NoResponse
<1>11. ASSUME NEW kind \in Targets, NEW types \in Listable, Trigger(kind, types)
       PROVE  SwarmHashInv'
  BY <1>0, <1>11 DEF Trigger, SwarmHashInv
<1>12. CASE UNCHANGED statusVars
  BY <1>0, <1>12 DEF statusVars, SwarmHashInv
<1> QED
  BY <1>1, <1>2, <1>3, <1>4, <1>5, <1>6, <1>7, <1>8, <1>9, <1>10, <1>11, <1>12 DEF StatusNext

\* And what was gathered is of all the reviewers that were waited for.
LEMMA SwarmResultsStep == SwarmInv /\ [StatusNext]_statusVars => SwarmResultsInv' /\ GoneIsExpired'
<1> SUFFICES ASSUME SwarmInv, [StatusNext]_statusVars
             PROVE  SwarmResultsInv' /\ GoneIsExpired'
  OBVIOUS
<1>0. /\ SwarmTyped /\ NotTriggered /\ CompleteInOrder
      /\ Awaited /\ AllGathered /\ PollInTime /\ AnswerInTime /\ GoneIsExpired
  BY DEF SwarmInv, SwarmHashInv, SwarmResultsInv
<1> USE DEF SwarmTyped, SwarmSteps, HashStates, Reports, NotTriggered, CompleteInOrder, Unreported, OnTime, PastWait, Awaited,
        AllGathered, PollInTime, AnswerInTime, GoneIsExpired, swarmKeys, pollVars
<1>1. CASE EnsureComponents
  BY <1>0, <1>1 DEF EnsureComponents, SwarmResultsInv
<1>2. CASE StartReviewers
  BY <1>0, <1>2 DEF StartReviewers, SwarmResultsInv, PutStatus
<1>3. CASE AwaitReviewers
  BY <1>0, <1>3 DEF AwaitReviewers, SwarmResultsInv, AllDone
<1>4. CASE BackgroundStep
  <2>1. /\ finishing' = IF SessionIsRead(finishing) THEN AfterStep(finishing) ELSE "fail"
        /\ gathered' = IF finishing = "gather" THEN inResults ELSE gathered
        /\ finishing \in {"look", "aggregate", "gather", "again", "complete", "report", "fail"}
        /\ UNCHANGED <<components, awaited, inResults, inProgress, reviewing, pollVars, raises, timedOut, expired>>
    BY <1>4 DEF BackgroundStep
  <2>2. CASE finishing = "look"
    BY <1>0, <1>4, <2>1, <2>2 DEF SwarmResultsInv, BackgroundStep, AfterStep
  <2>3. CASE finishing = "aggregate"
    BY <1>0, <1>4, <2>1, <2>3 DEF SwarmResultsInv, BackgroundStep, AfterStep, PutStatus, SessionIsRead
  <2>4. CASE finishing = "gather"
    BY <1>0, <1>4, <2>1, <2>4 DEF SwarmResultsInv, BackgroundStep, AfterStep, SessionIsRead
  <2>5. CASE finishing = "again"
    BY <1>0, <1>4, <2>1, <2>5 DEF SwarmResultsInv, BackgroundStep, AfterStep
  <2>6. CASE finishing = "complete"
    BY <1>0, <1>4, <2>1, <2>6 DEF SwarmResultsInv, BackgroundStep, AfterStep, PutStatus, SessionIsRead
  <2>7. CASE finishing = "report"
    <3>1. /\ sessionHash'.report = gathered /\ sessionHash'.whole = sessionHash.whole
          /\ finishing' = "ended" /\ gathered' = gathered
      BY <1>0, <1>4, <2>1, <2>7 DEF BackgroundStep, AfterStep, PutReport, SessionIsRead
    <3>2. AllGathered' /\ Awaited'
      BY <1>0, <2>1, <2>7, <3>1
    <3>3. PollInTime' /\ AnswerInTime' /\ GoneIsExpired'
      BY <1>0, <2>1, <2>7, <3>1
    <3> QED
      BY <3>2, <3>3 DEF SwarmResultsInv
  <2>8. CASE finishing = "fail"
    BY <1>0, <1>4, <2>1, <2>8 DEF SwarmResultsInv, BackgroundStep, AfterStep, PutStatus, SessionIsRead
  <2> QED
    BY <2>1, <2>2, <2>3, <2>4, <2>5, <2>6, <2>7, <2>8
<1>5. CASE BackgroundRaises
  BY <1>0, <1>5 DEF BackgroundRaises, SwarmResultsInv
<1>6. CASE ExpireKey
  BY <1>0, <1>6 DEF ExpireKey, SwarmResultsInv, NoHash
<1>7. CASE PollSession
  BY <1>0, <1>7 DEF PollSession, SwarmResultsInv, NoResponse
<1>8. CASE PollResults
  <2>1. /\ response'.status = poll.status /\ response'.report = poll.report /\ response'.code = 200
        /\ response'.read => response'.shown = inResults \cap awaited
        /\ poll' = NoPoll /\ poll # NoPoll
        /\ UNCHANGED <<components, awaited, swarmKeys, reviewing, finishing, gathered, polls, timedOut, expired>>
    BY <1>8 DEF PollResults, StatusTold, NoPoll
  <2>2. PollInTime' /\ AnswerInTime' /\ GoneIsExpired'
    BY <1>0, <2>1 DEF NoPoll
  <2>3. Awaited' /\ AllGathered'
    BY <1>0, <2>1
  <2> QED
    BY <2>2, <2>3 DEF SwarmResultsInv
<1>9. ASSUME NEW v \in InRegistry, ReviewerEnds(v) \/ ReviewerCounts(v)
      PROVE  SwarmResultsInv' /\ GoneIsExpired'
  BY <1>0, <1>9 DEF ReviewerEnds, ReviewerCounts, SwarmResultsInv
<1>10. ASSUME NEW kind \in Targets, Refuse(kind)
       PROVE  SwarmResultsInv' /\ GoneIsExpired'
  BY <1>0, <1>10 DEF Refuse, SwarmResultsInv, NoResponse
<1>11. ASSUME NEW kind \in Targets, NEW types \in Listable, Trigger(kind, types)
       PROVE  SwarmResultsInv' /\ GoneIsExpired'
  <2>1. /\ reviewing = {} /\ inResults = {} /\ inProgress = {} /\ poll = NoPoll /\ ~response.read
        /\ sessionHash' = [whole |-> TRUE, status |-> "pending", report |-> Unreported] /\ finishing' = "start"
        /\ UNCHANGED <<components, inResults, inProgress, reviewing, gathered, pollVars, raises, timedOut, expired>>
    BY <1>0, <1>11 DEF Trigger
  <2> QED
    BY <1>0, <2>1 DEF SwarmResultsInv, NoPoll
<1>12. CASE UNCHANGED statusVars
  BY <1>0, <1>12 DEF statusVars, SwarmResultsInv
<1> QED
  BY <1>1, <1>2, <1>3, <1>4, <1>5, <1>6, <1>7, <1>8, <1>9, <1>10, <1>11, <1>12 DEF StatusNext

LEMMA SwarmAlways == SwarmSpec => []SwarmInv
<1>1. SwarmInv /\ [StatusNext]_statusVars => SwarmInv'
  BY SwarmHashStep, SwarmResultsStep DEF SwarmInv
<1> QED
  BY SwarmStart, <1>1, PTL DEF SwarmSpec

\* A status without a report, with reviewers missing, or of no session has its cause.
LEMMA SwarmIsShown ==
    ASSUME SwarmInv
    PROVE  ReportlessHasACause /\ MissingIsLate /\ GoneHasACause
BY DEF SwarmInv, SwarmHashInv, SwarmResultsInv, Reportless, AnswerInTime, OnTime, GoneIsExpired,
    ReportlessHasACause, MissingIsLate, GoneHasACause

-----------------------------------------------------------------------------
(* Items of a list that are selected one by one.                             *)

\* What selects the items at the given places one by one.
Selects(g, a, places, n) ==
    g[0] = <<>> /\ \A k \in 1..n : g[k] = IF k \in places THEN Append(g[k - 1], a[k]) ELSE g[k - 1]

\* There is such a function: one for n items is extended to the next.
LEMMA SelectionsExist ==
    ASSUME NEW N \in Nat, NEW X, NEW a, NEW places, \A k \in 1..N : a[k] \in X
    PROVE  \E g \in [0..N -> Seq(X)] : Selects(g, a, places, N)
<1> USE DEF Selects
<1> DEFINE Selected(n, g) == Selects(g, a, places, n)
           S == {n \in Nat : n <= N => \E g \in [0..n -> Seq(X)] : Selected(n, g)}
<1>1. 0 \in S
  <2> DEFINE z == [k \in 0..0 |-> <<>>]
  <2>1. z \in [0..0 -> Seq(X)] /\ Selected(0, z)
    <3>1. <<>> \in Seq(X) /\ 0 \in 0..0
      OBVIOUS
    <3> QED
      BY <3>1
  <2> HIDE DEF z
  <2> QED
    BY <2>1
<1>2. ASSUME NEW n \in Nat, n \in S
      PROVE  n + 1 \in S
  <2> HIDE DEF Selected
  <2> SUFFICES ASSUME n + 1 <= N
               PROVE  \E g \in [0..(n + 1) -> Seq(X)] : Selected(n + 1, g)
    OBVIOUS
  <2>0. n <= N
    OBVIOUS
  <2>1. PICK f \in [0..n -> Seq(X)] : Selected(n, f)
    BY <1>2, <2>0
  <2> USE DEF Selected
  <2>2. PICK more : more = IF n + 1 \in places THEN Append(f[n], a[n + 1]) ELSE f[n]
    OBVIOUS
  <2>3. f[n] \in Seq(X) /\ a[n + 1] \in X
    BY <2>1
  <2>4. more \in Seq(X)
    BY <2>2, <2>3
  <2> DEFINE g == [k \in 0..(n + 1) |-> IF k = n + 1 THEN more ELSE f[k]]
  <2>5. g \in [0..(n + 1) -> Seq(X)]
    BY <2>1, <2>4
  <2>6. g[n + 1] = more /\ \A k \in 0..n : g[k] = f[k]
    OBVIOUS
  <2> HIDE DEF g
  <2>7. Selected(n + 1, g)
    <3>1. g[0] = <<>>
      BY <2>1, <2>6
    <3>2. ASSUME NEW k \in 1..(n + 1)
          PROVE  g[k] = IF k \in places THEN Append(g[k - 1], a[k]) ELSE g[k - 1]
      <4>1. CASE k = n + 1
        <5>1. g[k] = more /\ g[k - 1] = f[n]
          BY <2>6, <4>1
        <5> QED
          BY <2>2, <4>1, <5>1, Zenon
      <4>2. CASE k # n + 1
        <5>1. k \in 1..n /\ k - 1 \in 0..n
          BY <4>2
        <5>2. g[k] = f[k] /\ g[k - 1] = f[k - 1]
          BY <2>6, <5>1
        <5>3. f[k] = IF k \in places THEN Append(f[k - 1], a[k]) ELSE f[k - 1]
          BY <2>1, <5>1
        <5> QED
          BY <5>2, <5>3, Zenon
      <4> QED
        BY <4>1, <4>2
    <3> QED
      BY <3>1, <3>2
  <2> QED
    BY <2>5, <2>7
<1> HIDE DEF Selects
<1>3. N \in S
  <2>1. Nat \subseteq S
    <3> HIDE DEF S
    <3> QED
      BY <1>1, <1>2, AllNumbers
  <2> QED
    BY <2>1
<1> QED
  BY <1>3

\* Where each item that was selected stood: at a place that was given, in the same order, and
\* of each place of those before n there is one.
StoodAt(s, a, places, n, at) ==
    /\ at \in [1..Len(s) -> 1..n]
    /\ \A m \in 1..Len(s) : s[m] = a[at[m]] /\ at[m] \in places
    /\ \A m, l \in 1..Len(s) : m < l => at[m] < at[l]
    /\ \A k \in 1..n : k \in places => \E m \in 1..Len(s) : at[m] = k

\* What was selected up to n stood at the places given, by induction over n.
LEMMA SelectionsKeep ==
    ASSUME NEW N \in Nat, NEW X, NEW a, NEW places, NEW g \in [0..N -> Seq(X)],
           \A k \in 1..N : a[k] \in X, Selects(g, a, places, N)
    PROVE  \E at : StoodAt(g[N], a, places, N, at)
<1> USE DEF Selects
<1> DEFINE S == {n \in Nat : n <= N => \E at : StoodAt(g[n], a, places, n, at)}
<1>1. 0 \in S
  <2>1. StoodAt(<<>>, a, places, 0, [m \in 1..0 |-> m])
    BY DEF StoodAt
  <2> QED
    BY <2>1
<1>2. ASSUME NEW n \in Nat, n \in S
      PROVE  n + 1 \in S
  <2> SUFFICES ASSUME n + 1 <= N
               PROVE  \E at : StoodAt(g[n + 1], a, places, n + 1, at)
    OBVIOUS
  <2>1. PICK at : StoodAt(g[n], a, places, n, at)
    BY <1>2
  <2>2. g[n] \in Seq(X) /\ Len(g[n]) \in Nat /\ a[n + 1] \in X
    OBVIOUS
  <2>3. g[n + 1] = IF n + 1 \in places THEN Append(g[n], a[n + 1]) ELSE g[n]
    <3>1. PICK k \in 1..N : k = n + 1
      OBVIOUS
    <3>2. k - 1 = n
      BY <3>1
    <3> QED
      BY <3>1, <3>2
  <2> HIDE DEF Selects
  <2> DEFINE L == Len(g[n])
  <2>4. CASE n + 1 \notin places
    <3>1. g[n + 1] = g[n]
      BY <2>3, <2>4
    <3>2. at \in [1..L -> 1..n] /\ 1..n \subseteq 1..(n + 1) /\ \A k \in 1..(n + 1) : k \in places => k \in 1..n
      BY <2>1, <2>4 DEF StoodAt
    <3>3. at \in [1..L -> 1..(n + 1)]
      <4> HIDE DEF L
      <4> QED
        BY <3>2
    <3>4. StoodAt(g[n], a, places, n + 1, at)
      BY <2>1, <3>2, <3>3 DEF StoodAt
    <3> QED
      BY <3>1, <3>4
  <2>5. CASE n + 1 \in places
    <3> DEFINE more == [m \in 1..(L + 1) |-> IF m = L + 1 THEN n + 1 ELSE at[m]]
    <3>1. g[n + 1] = Append(g[n], a[n + 1])
      BY <2>3, <2>5
    <3>2. /\ Len(g[n + 1]) = L + 1 /\ g[n + 1][L + 1] = a[n + 1]
          /\ \A m \in 1..L : g[n + 1][m] = g[n][m]
      BY <2>2, <3>1
    <3>3. more[L + 1] = n + 1 /\ \A m \in 1..L : more[m] = at[m]
      BY <2>2
    <3>4. \A m \in 1..L : at[m] \in 1..n /\ at[m] \in places /\ g[n][m] = a[at[m]]
      BY <2>1 DEF StoodAt
    <3>5. more \in [1..(L + 1) -> 1..(n + 1)]
      <4>1. \A m \in 1..(L + 1) : (IF m = L + 1 THEN n + 1 ELSE at[m]) \in 1..(n + 1)
        BY <2>2, <3>4
      <4> QED
        BY <4>1
    <3> HIDE DEF more, L
    <3>0. L \in Nat
      BY <2>2 DEF L
    <3>6. \A m \in 1..(L + 1) : g[n + 1][m] = a[more[m]] /\ more[m] \in places
      <4>1. \A m \in 1..(L + 1) : m = L + 1 \/ m \in 1..L
        BY <3>0
      <4> QED
        BY <2>5, <3>2, <3>3, <3>4, <4>1
    <3>7. \A m, l \in 1..(L + 1) : m < l => more[m] < more[l]
      <4> TAKE m, l \in 1..(L + 1)
      <4> SUFFICES ASSUME m < l PROVE more[m] < more[l]
        OBVIOUS
      <4>0. m \in 1..L
        BY <3>0
      <4>1. m \in 1..L /\ at[m] \in 1..n /\ more[m] = at[m]
        BY <3>3, <3>4, <4>0
      <4>2. CASE l = L + 1
        BY <3>3, <4>1, <4>2
      <4>3. CASE l # L + 1
        <5>0. l \in 1..L
          BY <3>0, <4>3
        <5>1. l \in 1..L /\ more[l] = at[l]
          BY <3>3, <5>0
        <5>2. at[m] < at[l]
          BY <2>1, <4>1, <5>1 DEF StoodAt, L
        <5> QED
          BY <4>1, <5>1, <5>2
      <4> QED
        BY <4>2, <4>3
    <3>8. \A k \in 1..(n + 1) : k \in places => \E m \in 1..(L + 1) : more[m] = k
      <4> TAKE k \in 1..(n + 1)
      <4> SUFFICES ASSUME k \in places PROVE \E m \in 1..(L + 1) : more[m] = k
        OBVIOUS
      <4>1. CASE k = n + 1
        BY <3>0, <3>3, <4>1
      <4>2. CASE k # n + 1
        <5>1. PICK m \in 1..L : at[m] = k
          BY <2>1, <4>2 DEF StoodAt, L
        <5>2. m \in 1..(L + 1) /\ more[m] = k
          BY <3>0, <3>3, <5>1
        <5> QED
          BY <5>2
      <4> QED
        BY <4>1, <4>2
    <3>9. StoodAt(g[n + 1], a, places, n + 1, more)
      BY <3>2, <3>5, <3>6, <3>7, <3>8 DEF StoodAt, L
    <3> QED
      BY <3>9
  <2> QED
    BY <2>4, <2>5
<1>3. Nat \subseteq S
  <2> HIDE DEF S
  <2> QED
    BY <1>1, <1>2, AllNumbers
<1> QED
  BY <1>3

\* There is a function that selects, and any that does so keeps the items at the places.
LEMMA SelectionFound ==
    ASSUME NEW X, NEW a \in Seq(X), NEW places
    PROVE  \E g : g = [n \in 0..Len(a) |-> IF n = 0 THEN <<>> ELSE IF n \in places THEN Append(g[n - 1], a[n]) ELSE g[n - 1]]
<1> DEFINE N == Len(a)
<1>1. N \in Nat /\ \A k \in 1..N : a[k] \in X
  OBVIOUS
<1>2. PICK g \in [0..N -> Seq(X)] : Selects(g, a, places, N)
  BY <1>1, SelectionsExist
<1>3. \A n \in 0..N : n = 0 \/ n \in 1..N
  BY <1>1
<1>4. \A n \in 1..N : n # 0
  BY <1>1
<1>5. \A n \in 0..N : g[n] = IF n = 0 THEN <<>> ELSE IF n \in places THEN Append(g[n - 1], a[n]) ELSE g[n - 1]
  <2> HIDE DEF N
  <2> QED
    BY <1>2, <1>3, <1>4, Zenon DEF Selects
<1>6. g = [n \in 0..N |-> IF n = 0 THEN <<>> ELSE IF n \in places THEN Append(g[n - 1], a[n]) ELSE g[n - 1]]
  <2> HIDE DEF N
  <2> QED
    BY <1>2, <1>5
<1> QED
  BY <1>6

\* So the function as label_taxonomy_service and prd_generator go through their lists.
LEMMA SelectionKeeps ==
    ASSUME NEW X, NEW a \in Seq(X), NEW places, NEW f,
           f = [n \in 0..Len(a) |-> IF n = 0 THEN <<>> ELSE IF n \in places THEN Append(f[n - 1], a[n]) ELSE f[n - 1]]
    PROVE  f[Len(a)] \in Seq(X) /\ \E at : StoodAt(f[Len(a)], a, places, Len(a), at)
<1> DEFINE N == Len(a)
<1>1. N \in Nat /\ \A k \in 1..N : a[k] \in X
  OBVIOUS
<1>2. \A n \in 0..N : f[n] = IF n = 0 THEN <<>> ELSE IF n \in places THEN Append(f[n - 1], a[n]) ELSE f[n - 1]
  <2> DEFINE g == [n \in 0..N |-> IF n = 0 THEN <<>> ELSE IF n \in places THEN Append(f[n - 1], a[n]) ELSE f[n - 1]]
  <2>1. f = g
    OBVIOUS
  <2>2. \A n \in 0..N : g[n] = IF n = 0 THEN <<>> ELSE IF n \in places THEN Append(f[n - 1], a[n]) ELSE f[n - 1]
    OBVIOUS
  <2> HIDE DEF g, N
  <2> QED
    BY <2>1, <2>2, Zenon
<1>a. f[0] = <<>> /\ \A n \in 1..N : f[n] = IF n \in places THEN Append(f[n - 1], a[n]) ELSE f[n - 1]
  <2>1. 0 \in 0..N /\ \A n \in 1..N : n \in 0..N /\ n # 0
    BY <1>1
  <2> HIDE DEF N
  <2> QED
    BY <1>2, <2>1, Zenon
<1>3. Selects(f, a, places, N)
  BY <1>a, Zenon DEF Selects
<1>4. DOMAIN f = 0..N /\ f = [n \in 0..N |-> f[n]]
  BY <1>2
<1>5. f \in [0..N -> Seq(X)]
  <2> DEFINE S == {n \in Nat : n <= N => f[n] \in Seq(X)}
  <2>1. 0 \in S
    BY <1>a
  <2>2. ASSUME NEW n \in Nat, n \in S
        PROVE  n + 1 \in S
    <3> SUFFICES ASSUME n + 1 <= N PROVE f[n + 1] \in Seq(X)
      OBVIOUS
    <3>1. PICK m \in 1..N : m = n + 1
      BY <1>1
    <3>2. m - 1 = n /\ f[n] \in Seq(X) /\ a[m] \in X
      BY <1>1, <2>2, <3>1
    <3>3. f[m] = IF m \in places THEN Append(f[n], a[m]) ELSE f[n]
      BY <1>a, <3>2
    <3>4. Append(f[n], a[m]) \in Seq(X)
      BY <3>2
    <3>5. f[m] \in Seq(X)
      BY <3>2, <3>3, <3>4, Zenon
    <3> QED
      BY <3>1, <3>5
  <2>3. Nat \subseteq S
    <3> HIDE DEF S
    <3> QED
      BY <2>1, <2>2, AllNumbers
  <2>4. \A n \in 0..N : f[n] \in Seq(X)
    BY <1>1, <2>3
  <2> HIDE DEF N
  <2> QED
    BY <1>4, <2>4
<1>6. \E at : StoodAt(f[N], a, places, N, at)
  <2> HIDE DEF N
  <2> QED
    BY <1>1, <1>3, <1>5, SelectionsKeep
<1>7. N \in 0..N
  BY <1>1
<1> QED
  BY <1>5, <1>6, <1>7

-----------------------------------------------------------------------------
(* The labels of an idea.                                                    *)

LabelsSpec == IdeaInit /\ [][IdeaNext]_ideaVars

\* A call, as far as it is.
EditType ==
    [at : {"new", "result", "model", "store", "write", "done"}, does : {"none", "classify", "add", "remove"},
     forced : BOOLEAN, class : Classification, labels : SUBSET Labels, adds : SUBSET Labels]
\* Only a classification reads a result, asks the model or stores what it answered.
IdeaTyped ==
    /\ IdeaTypeOK /\ edit \in [IdeaCalls -> EditType] /\ relabelled \in BOOLEAN /\ apart \in BOOLEAN
    /\ \A c \in IdeaCalls : edit[c].at \in {"result", "model", "store"} => edit[c].does = "classify"
\* Since a person chose, no classification goes on to the model.
ChoiceIsAlone == choice # NoChoice =>
    /\ choice # Undetermined /\ result # NoResult
    /\ \A c \in IdeaCalls : edit[c].does = "classify" => edit[c].at \in {"new", "result", "done"}
\* A classification that stored its result, and has its document to write.
Writing(c) == edit[c].does = "classify" /\ edit[c].at = "write"
\* One classification at a time is about to write the document, of the result it stored.
ResultIsWritten == ~apart =>
    /\ \A c, d \in IdeaCalls : Writing(c) /\ Writing(d) => c = d
    /\ \A c \in IdeaCalls : Writing(c) => result.class = edit[c].class
    /\ (\A c \in IdeaCalls : ~Writing(c)) /\ result # NoResult /\ idea.there => idea.class = result.class
\* Who holds labels holds those of the document.
HeldAreThere == ~relabelled /\ idea.there =>
    /\ idea.labels = wanted
    /\ \A c \in IdeaCalls : HoldsLabels(c) => edit[c].labels = idea.labels
\* The invariant of the labels of an idea.
IdeaInv == IdeaTyped /\ ChoiceIsAlone /\ ChoiceStays /\ ResultIsWritten /\ HeldAreThere

\* At first there is no result, and nobody holds labels.
LEMMA LabelsStart == IdeaInit => IdeaInv
<1> SUFFICES ASSUME IdeaInit
             PROVE  IdeaInv
  OBVIOUS
<1>1. NoEdit \in EditType
  BY DEF NoEdit, EditType, Classification
<1>2. IdeaTyped
  BY <1>1 DEF IdeaInit, IdeaTyped, IdeaTypeOK, NoEdit
<1>3. ChoiceIsAlone /\ ChoiceStays
  BY DEF IdeaInit, ChoiceIsAlone, ChoiceStays
<1>4. ResultIsWritten /\ HeldAreThere
  BY DEF IdeaInit, ResultIsWritten, HeldAreThere, Writing, HoldsLabels, NoEdit
<1> QED
  BY <1>2, <1>3, <1>4 DEF IdeaInv

\* One call goes on, and the others stay as they are.
LEMMA EditGoesOn ==
    ASSUME IdeaTyped, NEW c \in IdeaCalls, NEW e \in EditType, edit' = [edit EXCEPT ![c] = e],
           e.at \in {"result", "model", "store"} => e.does = "classify"
    PROVE  /\ edit' \in [IdeaCalls -> EditType] /\ edit'[c] = e
           /\ \A d \in IdeaCalls \ {c} : edit'[d] = edit[d]
           /\ \A d \in IdeaCalls : edit'[d].at \in {"result", "model", "store"} => edit'[d].does = "classify"
<1>1. edit \in [IdeaCalls -> EditType]
  BY DEF IdeaTyped
<1>2. edit'[c] = e /\ \A d \in IdeaCalls \ {c} : edit'[d] = edit[d]
  BY <1>1
<1> QED
  BY <1>1, <1>2 DEF IdeaTyped

\* A call goes on by a read, an answer, a result that is stored or a document that is written,
\* and a person chooses a class.
LEMMA LabelsStep == IdeaInv /\ [IdeaNext]_ideaVars => IdeaInv'
<1> SUFFICES ASSUME IdeaInv, [IdeaNext]_ideaVars
             PROVE  IdeaInv'
  OBVIOUS
<1>0. IdeaTyped /\ ChoiceIsAlone /\ ChoiceStays /\ ResultIsWritten /\ HeldAreThere
  BY DEF IdeaInv
<1>a. /\ idea \in [there : BOOLEAN, class : Classification, labels : SUBSET Labels]
      /\ result = NoResult \/ result \in [class : Classification, labels : SUBSET Labels]
      /\ edit \in [IdeaCalls -> EditType]
  BY <1>0 DEF IdeaTyped, IdeaTypeOK
<1>1. CASE UNCHANGED ideaVars
  BY <1>0, <1>1 DEF ideaVars, IdeaInv, IdeaTyped, IdeaTypeOK, ChoiceIsAlone, ChoiceStays, ResultIsWritten, Writing, HeldAreThere, HoldsLabels
<1>2. CASE DeleteIdea
  <2>1. /\ idea.there /\ idea' = [idea EXCEPT !.there = FALSE] /\ ~idea'.there
        /\ result' = result /\ edit' = edit /\ choice' = choice /\ wanted' = wanted /\ relabelled' = relabelled /\ apart' = apart
    BY <1>a, <1>2 DEF DeleteIdea, SameHistory
  <2>2. IdeaTyped'
    BY <1>0, <2>1 DEF IdeaTyped, IdeaTypeOK
  <2> QED
    BY <1>0, <2>1, <2>2 DEF IdeaInv, ChoiceIsAlone, ChoiceStays, ResultIsWritten, Writing, HeldAreThere
<1>3. ASSUME NEW class \in Classification, ChooseClass(class)
      PROVE  IdeaInv'
  <2>1. /\ idea.there /\ idea' = [idea EXCEPT !.class = class] /\ apart' = TRUE
        /\ choice' = IF class # Undetermined /\ result # NoResult /\ Classifying = {} THEN class ELSE NoChoice
        /\ result' = result /\ edit' = edit /\ wanted' = wanted /\ relabelled' = relabelled
    BY <1>3 DEF ChooseClass
  <2>2. idea'.class = class /\ idea'.there = idea.there /\ idea'.labels = idea.labels
        /\ idea' \in [there : BOOLEAN, class : Classification, labels : SUBSET Labels]
    BY <1>a, <2>1
  <2>3. IdeaTyped'
    BY <1>0, <2>1, <2>2 DEF IdeaTyped, IdeaTypeOK
  <2>4. ChoiceIsAlone' /\ ChoiceStays'
    BY <1>a, <2>1, <2>2 DEF ChoiceIsAlone, ChoiceStays, Classifying
  <2>5. ResultIsWritten'
    BY <2>1 DEF ResultIsWritten
  <2>6. HeldAreThere'
    BY <1>0, <2>1, <2>2 DEF HeldAreThere, HoldsLabels
  <2> QED
    BY <2>3, <2>4, <2>5, <2>6 DEF IdeaInv
<1>4. ASSUME NEW labels \in SUBSET Labels, SetLabels(labels)
      PROVE  IdeaInv'
  <2>1. /\ idea' = [idea EXCEPT !.labels = labels] /\ wanted' = labels
        /\ relabelled' = (relabelled \/ \E c \in IdeaCalls : HoldsLabels(c))
        /\ result' = result /\ edit' = edit /\ choice' = choice /\ apart' = apart
    BY <1>4 DEF SetLabels
  <2>2. idea'.class = idea.class /\ idea'.there = idea.there /\ idea'.labels = labels
        /\ idea' \in [there : BOOLEAN, class : Classification, labels : SUBSET Labels]
    BY <1>a, <2>1
  <2>3. IdeaTyped'
    BY <1>0, <2>1, <2>2 DEF IdeaTyped, IdeaTypeOK
  <2>4. ChoiceIsAlone' /\ ChoiceStays'
    BY <1>0, <2>1, <2>2 DEF ChoiceIsAlone, ChoiceStays
  <2>5. ResultIsWritten'
    BY <1>0, <2>1, <2>2 DEF ResultIsWritten, Writing
  <2>6. HeldAreThere'
    BY <1>0, <2>1, <2>2 DEF HeldAreThere, HoldsLabels
  <2> QED
    BY <2>3, <2>4, <2>5, <2>6 DEF IdeaInv
<1>5. ASSUME NEW c \in IdeaCalls, NEW what \in {"classify", "add", "remove"}, NEW forced \in BOOLEAN,
             NEW labels \in SUBSET Labels, ReadIdea(c, what, forced, labels)
      PROVE  IdeaInv'
  <2>0. /\ edit[c].at = "new" /\ edit[c] \in EditType
        /\ idea' = idea /\ result' = result /\ wanted' = wanted /\ relabelled' = relabelled /\ apart' = apart
        /\ choice' = IF what = "classify" /\ forced THEN NoChoice ELSE choice
    BY <1>a, <1>5 DEF ReadIdea
  <2>1. CASE ~idea.there
    <3> DEFINE e == [edit[c] EXCEPT !.at = "done"]
    <3>1. e \in EditType /\ e.at = "done" /\ e.does = edit[c].does
      BY <2>0 DEF EditType
    <3>2. edit' = [edit EXCEPT ![c] = e]
      BY <1>5, <2>1 DEF ReadIdea
    <3> HIDE DEF e
    <3>3. /\ edit' \in [IdeaCalls -> EditType] /\ edit'[c] = e /\ \A d \in IdeaCalls \ {c} : edit'[d] = edit[d]
          /\ \A d \in IdeaCalls : edit'[d].at \in {"result", "model", "store"} => edit'[d].does = "classify"
      BY <1>0, <3>1, <3>2, EditGoesOn
    <3>4. IdeaTyped'
      BY <1>0, <2>0, <3>3 DEF IdeaTyped, IdeaTypeOK
    <3>5. ChoiceIsAlone' /\ ChoiceStays'
      BY <1>0, <2>0, <2>1, <3>1, <3>3 DEF ChoiceIsAlone, ChoiceStays
    <3>6. ResultIsWritten'
      BY <1>0, <2>0, <2>1, <3>1, <3>3 DEF ResultIsWritten, Writing
    <3>7. HeldAreThere'
      BY <2>0, <2>1 DEF HeldAreThere
    <3> QED
      BY <3>4, <3>5, <3>6, <3>7 DEF IdeaInv
  <2>2. CASE idea.there
    <3> DEFINE at == IF what # "classify" THEN "write"
                     ELSE IF forced \/ idea.class = Undetermined THEN "model" ELSE "result"
               e == [at |-> at, does |-> what, forced |-> forced, class |-> idea.class, labels |-> idea.labels, adds |-> labels]
    <3>1. e \in EditType /\ e.at = at /\ e.does = what /\ e.labels = idea.labels
      BY <1>a DEF EditType
    <3>2. edit' = [edit EXCEPT ![c] = e]
      BY <1>5, <2>2 DEF ReadIdea
    <3>3. /\ at \in {"result", "model", "write"} /\ (at = "write" <=> what # "classify")
          /\ at = "model" => forced \/ idea.class = Undetermined
      OBVIOUS
    <3> HIDE DEF e, at
    <3>4. /\ edit' \in [IdeaCalls -> EditType] /\ edit'[c] = e /\ \A d \in IdeaCalls \ {c} : edit'[d] = edit[d]
          /\ \A d \in IdeaCalls : edit'[d].at \in {"result", "model", "store"} => edit'[d].does = "classify"
      BY <1>0, <3>1, <3>2, <3>3, EditGoesOn
    <3>5. IdeaTyped'
      BY <1>0, <2>0, <3>4 DEF IdeaTyped, IdeaTypeOK
    <3>6. ChoiceStays'
      BY <1>0, <2>0 DEF ChoiceStays
    <3>7. ChoiceIsAlone'
      BY <1>0, <2>0, <2>2, <3>1, <3>3, <3>4 DEF ChoiceIsAlone, ChoiceStays
    <3>8. ResultIsWritten'
      <4>1. \A d \in IdeaCalls : Writing(d)' <=> Writing(d)
        BY <2>0, <3>1, <3>3, <3>4 DEF Writing
      <4>2. \A d \in IdeaCalls : Writing(d) => edit'[d] = edit[d]
        BY <2>0, <3>4 DEF Writing
      <4> QED
        BY <1>0, <2>0, <4>1, <4>2 DEF ResultIsWritten
    <3>9. HeldAreThere'
      BY <1>0, <2>0, <3>1, <3>4 DEF HeldAreThere, HoldsLabels
    <3> QED
      BY <3>5, <3>6, <3>7, <3>8, <3>9 DEF IdeaInv
  <2> QED
    BY <2>1, <2>2
<1>6. ASSUME NEW c \in IdeaCalls, GetResult(c)
      PROVE  IdeaInv'
  <2> DEFINE e == [edit[c] EXCEPT !.at = IF result = NoResult THEN "model" ELSE "done"]
  <2>0. /\ edit[c].at = "result" /\ edit[c] \in EditType /\ edit' = [edit EXCEPT ![c] = e] /\ idea' = idea /\ result' = result
        /\ wanted' = wanted /\ relabelled' = relabelled /\ apart' = apart /\ choice' = choice
    BY <1>a, <1>6 DEF GetResult, LookForResult, SameHistory
  <2>1. /\ e \in EditType /\ e.does = "classify" /\ e.labels = edit[c].labels /\ e.at \in {"model", "done"}
        /\ e.at = "model" => result = NoResult
    BY <1>0, <2>0 DEF EditType, IdeaTyped
  <2> HIDE DEF e
  <2>2. /\ edit' \in [IdeaCalls -> EditType] /\ edit'[c] = e /\ \A d \in IdeaCalls \ {c} : edit'[d] = edit[d]
        /\ \A d \in IdeaCalls : edit'[d].at \in {"result", "model", "store"} => edit'[d].does = "classify"
    BY <1>0, <2>0, <2>1, EditGoesOn
  <2>3. IdeaTyped'
    BY <1>0, <2>0, <2>2 DEF IdeaTyped, IdeaTypeOK
  <2>4. ChoiceIsAlone' /\ ChoiceStays'
    BY <1>0, <2>0, <2>1, <2>2 DEF ChoiceIsAlone, ChoiceStays
  <2>5. ResultIsWritten'
    <3>1. \A d \in IdeaCalls : Writing(d)' <=> Writing(d)
      BY <2>0, <2>1, <2>2 DEF Writing
    <3>2. \A d \in IdeaCalls : Writing(d) => edit'[d] = edit[d]
      BY <2>0, <2>2 DEF Writing
    <3> QED
      BY <1>0, <2>0, <3>1, <3>2 DEF ResultIsWritten
  <2>6. HeldAreThere'
    BY <1>0, <2>0, <2>1, <2>2 DEF HeldAreThere, HoldsLabels
  <2> QED
    BY <2>3, <2>4, <2>5, <2>6 DEF IdeaInv
<1>7. ASSUME NEW c \in IdeaCalls, NEW class \in Classification, NEW labels \in SUBSET Labels, ModelAnswers(c, class, labels)
      PROVE  IdeaInv'
  <2> DEFINE e == [edit[c] EXCEPT !.at = "store", !.class = class, !.adds = labels]
  <2>0. /\ edit[c].at = "model" /\ edit[c] \in EditType /\ edit' = [edit EXCEPT ![c] = e] /\ idea' = idea /\ result' = result
        /\ wanted' = wanted /\ relabelled' = relabelled /\ apart' = apart /\ choice' = choice
    BY <1>a, <1>7 DEF ModelAnswers, SameHistory
  <2>1. e \in EditType /\ e.does = "classify" /\ e.labels = edit[c].labels /\ e.at = "store"
    BY <1>0, <2>0 DEF EditType, IdeaTyped
  <2> HIDE DEF e
  <2>2. /\ edit' \in [IdeaCalls -> EditType] /\ edit'[c] = e /\ \A d \in IdeaCalls \ {c} : edit'[d] = edit[d]
        /\ \A d \in IdeaCalls : edit'[d].at \in {"result", "model", "store"} => edit'[d].does = "classify"
    BY <1>0, <2>0, <2>1, EditGoesOn
  <2>3. IdeaTyped'
    BY <1>0, <2>0, <2>2 DEF IdeaTyped, IdeaTypeOK
  <2>4. ChoiceIsAlone' /\ ChoiceStays'
    BY <1>0, <2>0, <2>1, <2>2 DEF ChoiceIsAlone, ChoiceStays, IdeaTyped
  <2>5. ResultIsWritten'
    <3>1. \A d \in IdeaCalls : Writing(d)' <=> Writing(d)
      BY <2>0, <2>1, <2>2 DEF Writing
    <3>2. \A d \in IdeaCalls : Writing(d) => edit'[d] = edit[d]
      BY <2>0, <2>2 DEF Writing
    <3> QED
      BY <1>0, <2>0, <3>1, <3>2 DEF ResultIsWritten
  <2>6. HeldAreThere'
    BY <1>0, <2>0, <2>1, <2>2 DEF HeldAreThere, HoldsLabels
  <2> QED
    BY <2>3, <2>4, <2>5, <2>6 DEF IdeaInv
<1>8. ASSUME NEW c \in IdeaCalls, KeepResult(c)
      PROVE  IdeaInv'
  <2> DEFINE e == [edit[c] EXCEPT !.at = "write"]
  <2>0. /\ edit[c].at = "store" /\ edit[c] \in EditType /\ edit' = [edit EXCEPT ![c] = e] /\ idea' = idea
        /\ result' = [class |-> edit[c].class, labels |-> edit[c].adds]
        /\ wanted' = wanted /\ relabelled' = relabelled /\ choice' = choice
        /\ apart' = (apart \/ \E d \in IdeaCalls \ {c} : Writing(d))
    BY <1>a, <1>8 DEF KeepResult, Writing
  <2>1. e \in EditType /\ e.does = "classify" /\ e.labels = edit[c].labels /\ e.at = "write" /\ e.class = edit[c].class
    BY <1>0, <2>0 DEF EditType, IdeaTyped
  <2> HIDE DEF e
  <2>2. /\ edit' \in [IdeaCalls -> EditType] /\ edit'[c] = e /\ \A d \in IdeaCalls \ {c} : edit'[d] = edit[d]
        /\ \A d \in IdeaCalls : edit'[d].at \in {"result", "model", "store"} => edit'[d].does = "classify"
    BY <1>0, <2>0, <2>1, EditGoesOn
  <2>3. result' \in [class : Classification, labels : SUBSET Labels] /\ result'.class = edit[c].class
    BY <2>0 DEF EditType
  <2>4. apart' \in BOOLEAN
    BY <1>0, <2>0 DEF IdeaTyped
  <2>5. IdeaTyped'
    BY <1>0, <2>0, <2>2, <2>3, <2>4 DEF IdeaTyped, IdeaTypeOK
  <2>6. choice' = NoChoice
    BY <1>0, <2>0 DEF ChoiceIsAlone, IdeaTyped
  <2>7. ChoiceIsAlone' /\ ChoiceStays'
    BY <2>6 DEF ChoiceIsAlone, ChoiceStays
  <2>8. ResultIsWritten'
    <3> SUFFICES ASSUME ~apart'
                 PROVE  /\ \A d, f \in IdeaCalls : Writing(d)' /\ Writing(f)' => d = f
                        /\ \A d \in IdeaCalls : Writing(d)' => result'.class = edit'[d].class
                        /\ \E d \in IdeaCalls : Writing(d)'
      BY DEF ResultIsWritten
    <3>1. \A d \in IdeaCalls \ {c} : ~Writing(d)'
      BY <2>0, <2>2 DEF Writing
    <3>2. Writing(c)' /\ result'.class = edit'[c].class
      BY <2>1, <2>2, <2>3 DEF Writing
    <3> QED
      BY <3>1, <3>2
  <2>9. HeldAreThere'
    BY <1>0, <2>0, <2>1, <2>2 DEF HeldAreThere, HoldsLabels
  <2> QED
    BY <2>5, <2>7, <2>8, <2>9 DEF IdeaInv
<1>9. ASSUME NEW c \in IdeaCalls, WriteIdea(c)
      PROVE  IdeaInv'
  <2> DEFINE e == [edit[c] EXCEPT !.at = "done"]
  <2>0. /\ edit[c].at = "write" /\ edit[c] \in EditType /\ edit' = [edit EXCEPT ![c] = e]
        /\ idea' = IF idea.there THEN [idea EXCEPT !.class = ClassAfter(c), !.labels = LabelsAfter(c)] ELSE idea
        /\ wanted' = IF edit[c].does = "remove" THEN wanted \ edit[c].adds ELSE wanted \cup edit[c].adds
        /\ relabelled' = (relabelled \/ \E d \in IdeaCalls \ {c} : HoldsLabels(d))
        /\ result' = result /\ apart' = apart /\ choice' = choice
    BY <1>a, <1>9 DEF WriteIdea, Over
  <2>1. e \in EditType /\ e.does = edit[c].does /\ e.at = "done"
    BY <2>0 DEF EditType
  <2> HIDE DEF e
  <2>2. /\ edit' \in [IdeaCalls -> EditType] /\ edit'[c] = e /\ \A d \in IdeaCalls \ {c} : edit'[d] = edit[d]
        /\ \A d \in IdeaCalls : edit'[d].at \in {"result", "model", "store"} => edit'[d].does = "classify"
    BY <1>0, <2>0, <2>1, EditGoesOn
  <2>3. /\ edit[c].class \in Classification /\ edit[c].labels \subseteq Labels /\ edit[c].adds \subseteq Labels
    BY <2>0 DEF EditType
  <2>4. ClassAfter(c) \in Classification /\ LabelsAfter(c) \in SUBSET Labels
    BY <1>a, <2>3 DEF ClassAfter, LabelsAfter
  <2>5. /\ idea' \in [there : BOOLEAN, class : Classification, labels : SUBSET Labels] /\ idea'.there = idea.there
        /\ idea.there => idea'.class = ClassAfter(c) /\ idea'.labels = LabelsAfter(c)
    BY <1>a, <2>0, <2>4
  <2>6. relabelled' \in BOOLEAN
    BY <1>0, <2>0 DEF IdeaTyped
  <2>7. IdeaTyped'
    BY <1>0, <2>0, <2>2, <2>5, <2>6 DEF IdeaTyped, IdeaTypeOK
  <2>8. ChoiceIsAlone' /\ ChoiceStays'
    BY <1>0, <2>0, <2>1, <2>2, <2>5 DEF ChoiceIsAlone, ChoiceStays, ClassAfter
  <2>9. ResultIsWritten'
    <3> SUFFICES ASSUME ~apart
                 PROVE  ResultIsWritten'
      BY <2>0 DEF ResultIsWritten
    <3>1. /\ \A d \in IdeaCalls \ {c} : Writing(d)' <=> Writing(d)
          /\ ~Writing(c)'
      BY <2>1, <2>2 DEF Writing
    <3>2. CASE edit[c].does = "classify"
      <4>1. Writing(c) /\ result.class = edit[c].class /\ \A d \in IdeaCalls : ~Writing(d)'
        BY <1>0, <2>0, <3>1, <3>2 DEF Writing, ResultIsWritten
      <4>2. idea.there => idea'.class = result.class
        BY <2>5, <3>2, <4>1 DEF ClassAfter
      <4> QED
        BY <2>0, <2>5, <4>1, <4>2 DEF ResultIsWritten
    <3>3. CASE edit[c].does # "classify"
      <4>1. ~Writing(c)
        BY <3>3 DEF Writing
      <4>2. idea'.class = idea.class
        BY <2>0, <2>5, <3>3 DEF ClassAfter
      <4>3. \A d \in IdeaCalls : (Writing(d)' <=> Writing(d)) /\ (Writing(d) => edit'[d] = edit[d])
        BY <2>2, <3>1, <4>1
      <4> QED
        BY <1>0, <2>0, <2>5, <4>2, <4>3 DEF ResultIsWritten
    <3> QED
      BY <3>2, <3>3
  <2>10. HeldAreThere'
    <3> SUFFICES ASSUME ~relabelled', idea'.there
                 PROVE  /\ idea'.labels = wanted'
                        /\ \A d \in IdeaCalls : ~HoldsLabels(d)'
      BY DEF HeldAreThere
    <3>1. ~relabelled /\ idea.there /\ \A d \in IdeaCalls \ {c} : ~HoldsLabels(d)
      BY <2>0, <2>5
    <3>2. idea.labels = wanted /\ edit[c].labels = wanted
      BY <1>0, <2>0, <3>1 DEF HeldAreThere, HoldsLabels
    <3>3. idea'.labels = wanted'
      BY <2>0, <2>5, <3>1, <3>2 DEF LabelsAfter
    <3>4. \A d \in IdeaCalls : ~HoldsLabels(d)'
      BY <2>1, <2>2, <3>1 DEF HoldsLabels
    <3> QED
      BY <3>3, <3>4
  <2> QED
    BY <2>7, <2>8, <2>9, <2>10 DEF IdeaInv
<1>10. ASSUME NEW c \in IdeaCalls, WriteFails(c)
       PROVE  IdeaInv'
  <2> DEFINE e == [edit[c] EXCEPT !.at = "done"]
  <2>0. /\ edit[c].at \in {"store", "write"} /\ edit[c] \in EditType /\ edit' = [edit EXCEPT ![c] = e]
        /\ apart' = (apart \/ Writing(c))
        /\ idea' = idea /\ wanted' = wanted /\ relabelled' = relabelled /\ result' = result /\ choice' = choice
    BY <1>a, <1>10 DEF WriteFails, Over, Writing
  <2>1. e \in EditType /\ e.does = edit[c].does /\ e.at = "done"
    BY <2>0 DEF EditType
  <2> HIDE DEF e
  <2>2. /\ edit' \in [IdeaCalls -> EditType] /\ edit'[c] = e /\ \A d \in IdeaCalls \ {c} : edit'[d] = edit[d]
        /\ \A d \in IdeaCalls : edit'[d].at \in {"result", "model", "store"} => edit'[d].does = "classify"
    BY <1>0, <2>0, <2>1, EditGoesOn
  <2>3. apart' \in BOOLEAN
    BY <1>0, <2>0 DEF IdeaTyped, Writing
  <2>4. IdeaTyped'
    BY <1>0, <2>0, <2>2, <2>3 DEF IdeaTyped, IdeaTypeOK
  <2>5. ChoiceIsAlone' /\ ChoiceStays'
    BY <1>0, <2>0, <2>1, <2>2 DEF ChoiceIsAlone, ChoiceStays
  <2>6. ResultIsWritten'
    <3> SUFFICES ASSUME ~apart, ~Writing(c)
                 PROVE  ResultIsWritten'
      BY <2>0 DEF ResultIsWritten
    <3>1. \A d \in IdeaCalls : (Writing(d)' <=> Writing(d)) /\ (Writing(d) => edit'[d] = edit[d])
      BY <2>1, <2>2 DEF Writing
    <3> QED
      BY <1>0, <2>0, <3>1 DEF ResultIsWritten
  <2>7. HeldAreThere'
    BY <1>0, <2>0, <2>1, <2>2 DEF HeldAreThere, HoldsLabels
  <2> QED
    BY <2>4, <2>5, <2>6, <2>7 DEF IdeaInv
<1>11. ASSUME NEW c \in IdeaCalls,
              \/ \E forced \in BOOLEAN : ReadIdea(c, "classify", forced, {})
              \/ \E what \in {"add", "remove"}, labels \in (SUBSET Labels) \ {{}} : ReadIdea(c, what, FALSE, labels)
              \/ \E class \in Classification, labels \in SUBSET Labels : ModelAnswers(c, class, labels)
              \/ GetResult(c) \/ KeepResult(c) \/ WriteIdea(c) \/ WriteFails(c)
       PROVE  IdeaInv'
  <2>1. ASSUME NEW forced \in BOOLEAN, ReadIdea(c, "classify", forced, {}) PROVE IdeaInv'
    BY <1>5, <2>1
  <2>2. ASSUME NEW what \in {"add", "remove"}, NEW labels \in (SUBSET Labels) \ {{}}, ReadIdea(c, what, FALSE, labels) PROVE IdeaInv'
    <3>1. what \in {"classify", "add", "remove"} /\ FALSE \in BOOLEAN /\ labels \in SUBSET Labels
      BY <2>2
    <3> QED
      BY <1>5, <2>2, <3>1
  <2> QED
    BY <1>6, <1>7, <1>8, <1>9, <1>10, <1>11, <2>1, <2>2
<1> QED
  BY <1>1, <1>2, <1>3, <1>4, <1>11 DEF IdeaNext

\* The invariant holds of every behaviour.
LEMMA LabelsAlways == LabelsSpec => []IdeaInv
BY LabelsStart, LabelsStep, PTL DEF LabelsSpec

\* What MCStudies states of the labels of an idea follows.
LEMMA IdeaIsKept ==
    ASSUME IdeaInv
    PROVE  IdeaTypeOK /\ ChoiceStays /\ ResultIsOfIdea /\ LabelsAreKept
<1>1. IdeaTyped /\ ChoiceStays /\ ResultIsWritten /\ HeldAreThere
  BY DEF IdeaInv
<1>2. (\A c \in Classifying : edit[c].at # "write") => \A c \in IdeaCalls : ~Writing(c)
  BY DEF Writing, Classifying
<1> QED
  BY <1>1, <1>2 DEF IdeaTyped, ResultIsWritten, HeldAreThere, ResultIsOfIdea, LabelsAreKept

-----------------------------------------------------------------------------
(* The taxonomy of the labels.                                               *)

TaxonomySpec == TaxonomyInit /\ [][TaxonomyNext]_taxonomyVars

\* A call that changes the taxonomy, and a classification that uses it, as far as they are.
ChangeType ==
    [at : {"new", "read", "done"}, does : {"none", "add", "update", "delete"}, id : LabelIds, label : TaxLabel,
     labels : Seq(TaxLabel)]
SortingType ==
    [at : {"new", "sift", "model", "done"}, known : SUBSET LabelIds, apt : SUBSET LabelIds, told : SUBSET LabelIds,
     labels : SUBSET LabelIds, by : {"none", "model", "nobody", "rules"}]
\* The types of both, and of the taxonomy as it is stored.
TaxonomyTyped ==
    /\ taxonomy = NotStored \/ taxonomy \in Seq(TaxLabel)
    /\ intended \in Seq(TaxLabel) /\ change \in [TaxonomyCalls -> ChangeType] /\ sorting \in SortingType
    /\ {overlaid, renamed, moved} \subseteq BOOLEAN
    /\ \A c \in TaxonomyCalls : change[c].at = "read" => change[c].does # "none"
\* Until a change is written over another's, who holds labels holds the stored ones.
HeldIsStored == ~overlaid =>
    /\ TaxonomyRead = intended
    /\ \A c \in TaxonomyCalls : change[c].at = "read" => change[c].labels = TaxonomyRead
\* Also labels that are held have one id each.
HeldDiffer == ~renamed =>
    /\ AllDiffer(TaxonomyRead)
    /\ \A c \in TaxonomyCalls : change[c].at = "read" => AllDiffer(change[c].labels)
\* While the taxonomy stays, a classification knows the stored labels.
SortingKnows == ~moved =>
    /\ sorting.at \in {"sift", "model"} => sorting.known = IdsOf(TaxonomyRead) /\ sorting.apt \subseteq sorting.known
    /\ sorting.at = "model" => sorting.told = sorting.known
    /\ sorting.at = "done" => sorting.labels \subseteq sorting.told /\ (sorting.by = "rules" => sorting.labels = sorting.apt)
\* The invariant of the taxonomy.
TaxonomyInv == TaxonomyTyped /\ HeldIsStored /\ HeldDiffer /\ SortingKnows

\* The labels that are read, and their ids.
LEMMA DefaultIsTyped == Default \in Seq(TaxLabel) /\ Len(Default) = 1 /\ AllDiffer(Default) /\ Default[1] \in TaxLabel
<1>1. Default[1] \in TaxLabel
  BY TaxonomyAssumption DEF Default, TaxLabel
<1>2. Len(Default) = 1 /\ DOMAIN Default = {1}
  BY DEF Default
<1>3. Default \in Seq(TaxLabel)
  BY <1>1 DEF Default
<1> QED
  BY <1>1, <1>2, <1>3 DEF AllDiffer

\* What is read is what is stored, or the default.
LEMMA ReadIsTyped ==
    ASSUME taxonomy = NotStored \/ taxonomy \in Seq(TaxLabel)
    PROVE  TaxonomyRead \in Seq(TaxLabel)
BY DefaultIsTyped DEF TaxonomyRead

\* What is stored is read.
LEMMA StoredIsRead ==
    ASSUME NEW labels \in Seq(TaxLabel)
    PROVE  labels # NotStored
<1> SUFFICES ASSUME labels = NotStored PROVE FALSE
  OBVIOUS
<1>1. Len(NotStored) = 1 /\ NotStored[1].id = "none"
  BY DEF NotStored
<1>2. labels[1] \in TaxLabel
  BY <1>1
<1> QED
  BY <1>1, <1>2, TaxonomyAssumption DEF TaxLabel

\* An id that a list has is that of one of its labels.
LEMMA IdsAreOfPlaces ==
    ASSUME NEW labels \in Seq(TaxLabel)
    PROVE  /\ IdsOf(labels) \subseteq LabelIds
           /\ \A i \in 1..Len(labels) : labels[i].id \in IdsOf(labels)
           /\ \A id \in IdsOf(labels) : \E i \in 1..Len(labels) : labels[i].id = id
<1>1. \A i \in 1..Len(labels) : labels[i] \in TaxLabel
  OBVIOUS
<1> QED
  BY <1>1 DEF IdsOf, ToSet, TaxLabel

\* The index of the first is one.
LEMMA FirstIsPlace ==
    ASSUME NEW labels \in Seq(TaxLabel), NEW id \in IdsOf(labels)
    PROVE  LET i == SelectInSeq(labels, LAMBDA l : l.id = id) IN i \in 1..Len(labels) /\ labels[i].id = id
<1> DEFINE S == {i \in 1..Len(labels) : labels[i].id = id}
<1>1. S # {} /\ S \subseteq Nat
  BY IdsAreOfPlaces
<1>2. \E x \in S : \A y \in S : x <= y
  <2> HIDE DEF S
  <2> QED
    BY <1>1, Least
<1>3. Min(S) \in S
  BY <1>2 DEF Min
<1>4. SelectInSeq(labels, LAMBDA l : l.id = id) = Min(S)
  BY <1>1 DEF SelectInSeq
<1> QED
  BY <1>3, <1>4

\* delete_label leaves the labels of other ids, in their order.
LEMMA WithoutSelects ==
    ASSUME NEW labels \in Seq(TaxLabel), NEW id
    PROVE  /\ Without(labels, id) \in Seq(TaxLabel)
           /\ \E at : StoodAt(Without(labels, id), labels, {i \in 1..Len(labels) : labels[i].id # id}, Len(labels), at)
<1> DEFINE N == Len(labels)
           places == {i \in 1..N : labels[i].id # id}
           Selecting(f) == [n \in 0..N |-> IF n = 0 THEN <<>> ELSE IF n \in places THEN Append(f[n - 1], labels[n]) ELSE f[n - 1]]
           Keeping(f) == [n \in 0..N |-> IF n = 0 THEN <<>> ELSE IF labels[n].id = id THEN f[n - 1] ELSE Append(f[n - 1], labels[n])]
           staying == CHOOSE f : f = Keeping(f)
<1>1. ASSUME NEW f
      PROVE  Keeping(f) = Selecting(f)
  <2>1. N \in Nat
    OBVIOUS
  <2>2. \A n \in 0..N : n = 0 \/ (n \in places <=> labels[n].id # id)
    BY <2>1
  <2>3. \A n \in 0..N : (IF n = 0 THEN <<>> ELSE IF labels[n].id = id THEN f[n - 1] ELSE Append(f[n - 1], labels[n]))
          = IF n = 0 THEN <<>> ELSE IF n \in places THEN Append(f[n - 1], labels[n]) ELSE f[n - 1]
    <3> HIDE DEF places, N
    <3> QED
      BY <2>2, Zenon
  <2> HIDE DEF places, N
  <2> QED
    BY <2>3
<1>2. \E g : g = Selecting(g)
  BY SelectionFound
<1>3. staying = Keeping(staying)
  <2> HIDE DEF Selecting, Keeping
  <2> QED
    BY <1>1, <1>2, Zenon
<1>4. Without(labels, id) = staying[N]
  BY DEF Without
<1> HIDE DEF staying
<1>5. staying = Selecting(staying)
  <2> HIDE DEF Selecting, Keeping
  <2> QED
    BY <1>1, <1>3, Zenon
<1>6. staying[N] \in Seq(TaxLabel) /\ \E at : StoodAt(staying[N], labels, places, N, at)
  <2> HIDE DEF places
  <2> QED
    BY <1>5, SelectionKeeps
<1> QED
  BY <1>4, <1>6

\* A change that is not refused leaves labels, and those of different ids so unless one is
\* given the id of another.
LEMMA ChangedIsTyped ==
    ASSUME NEW does \in {"add", "update", "delete"}, NEW id \in LabelIds, NEW label \in TaxLabel,
           NEW labels \in Seq(TaxLabel), ~Refused(does, id, label, labels)
    PROVE  /\ Changed(does, id, label, labels) \in Seq(TaxLabel)
           /\ AllDiffer(labels) /\ ~(does = "update" /\ label.id # id /\ label.id \in IdsOf(labels))
                => AllDiffer(Changed(does, id, label, labels))
<1> DEFINE new == Changed(does, id, label, labels)
           N == Len(labels)
<1>0. N \in Nat /\ DOMAIN labels = 1..N /\ \A i \in 1..N : labels[i] \in TaxLabel
  OBVIOUS
<1>1. CASE does = "add"
  <2>1. new = Append(labels, label)
    BY <1>1 DEF Changed
  <2>2. new \in Seq(TaxLabel) /\ DOMAIN new = 1..(N + 1) /\ new[N + 1] = label /\ \A i \in 1..N : new[i] = labels[i]
    BY <2>1
  <2>3. \A i \in 1..N : labels[i].id # label.id
    BY <1>1, IdsAreOfPlaces DEF Refused
  <2>4. ASSUME AllDiffer(labels) PROVE AllDiffer(new)
    <3> SUFFICES ASSUME NEW i \in 1..(N + 1), NEW j \in 1..(N + 1), new[i].id = new[j].id
                 PROVE  i = j
      BY <2>2 DEF AllDiffer
    <3> HIDE DEF new, N
    <3>1. (i = N + 1 \/ i \in 1..N) /\ (j = N + 1 \/ j \in 1..N)
      BY <1>0
    <3> QED
      BY <1>0, <2>2, <2>3, <2>4, <3>1 DEF AllDiffer
  <2> QED
    BY <2>2, <2>4
<1>2. CASE does = "update"
  <2> DEFINE p == SelectInSeq(labels, LAMBDA l : l.id = id)
  <2>1. new = [labels EXCEPT ![p] = label]
    BY <1>2 DEF Changed, ReplaceAt
  <2>2. p \in 1..N /\ labels[p].id = id
    BY <1>2, FirstIsPlace DEF Refused
  <2> HIDE DEF p
  <2>3. new \in Seq(TaxLabel) /\ DOMAIN new = 1..N /\ new[p] = label /\ \A i \in (1..N) \ {p} : new[i] = labels[i]
    BY <2>1, <2>2
  <2>4. ASSUME AllDiffer(labels), ~(label.id # id /\ label.id \in IdsOf(labels))
        PROVE  AllDiffer(new)
    <3>1. \A i \in (1..N) \ {p} : labels[i].id # label.id
      BY <1>0, <2>2, <2>4, IdsAreOfPlaces DEF AllDiffer
    <3> HIDE DEF new, N
    <3> QED
      BY <1>0, <2>3, <2>4, <3>1 DEF AllDiffer
  <2> QED
    BY <1>2, <2>3, <2>4
<1>3. CASE does = "delete"
  <2>1. new = Without(labels, id)
    BY <1>3 DEF Changed
  <2>2. new \in Seq(TaxLabel)
    BY <2>1, WithoutSelects
  <2>3. PICK at : StoodAt(new, labels, {i \in 1..N : labels[i].id # id}, N, at)
    BY <2>1, WithoutSelects
  <2>4. /\ \A m \in 1..Len(new) : new[m] = labels[at[m]] /\ at[m] \in 1..N
        /\ \A m, l \in 1..Len(new) : m < l => at[m] < at[l]
    BY <2>3 DEF StoodAt
  <2>5. ASSUME AllDiffer(labels) PROVE AllDiffer(new)
    <3>1. DOMAIN new = 1..Len(new) /\ Len(new) \in Nat
      BY <2>2
    <3> SUFFICES ASSUME NEW i \in 1..Len(new), NEW j \in 1..Len(new), new[i].id = new[j].id
                 PROVE  i = j
      BY <3>1 DEF AllDiffer
    <3>2. at[i] = at[j] /\ at[i] \in 1..N
      BY <1>0, <2>4, <2>5 DEF AllDiffer
    <3> HIDE DEF new, N
    <3>3. i \in Nat /\ j \in Nat /\ ~(i < j) /\ ~(j < i)
      BY <1>0, <2>4, <3>1, <3>2
    <3> QED
      BY <3>3
  <2> QED
    BY <2>2, <2>5
<1> QED
  BY <1>1, <1>2, <1>3

\* Nothing is stored, and the default is read.
LEMMA TaxonomyStart == TaxonomyInit => TaxonomyInv
<1> SUFFICES ASSUME TaxonomyInit
             PROVE  TaxonomyInv
  OBVIOUS
<1>1. TaxonomyRead = Default
  BY DEF TaxonomyInit, TaxonomyRead
<1>2. NoChange \in ChangeType /\ NoChange.at = "new"
  <2>1. <<>> \in Seq(TaxLabel)
    OBVIOUS
  <2> QED
    BY <2>1, DefaultIsTyped, TaxonomyAssumption DEF NoChange, ChangeType
<1>3. TaxonomyTyped /\ \A c \in TaxonomyCalls : change[c].at = "new"
  BY <1>2, DefaultIsTyped DEF TaxonomyInit, TaxonomyTyped, SortingType
<1>4. sorting.at = "new"
  BY DEF TaxonomyInit
<1>5. HeldIsStored /\ HeldDiffer /\ SortingKnows
  BY <1>1, <1>3, <1>4, DefaultIsTyped DEF TaxonomyInit, HeldIsStored, HeldDiffer, SortingKnows
<1> QED
  BY <1>3, <1>5 DEF TaxonomyInv

\* One call goes on.
LEMMA ChangeGoesOn ==
    ASSUME TaxonomyTyped, NEW c \in TaxonomyCalls, NEW h \in ChangeType, change' = [change EXCEPT ![c] = h],
           h.at = "read" => h.does # "none"
    PROVE  /\ change' \in [TaxonomyCalls -> ChangeType] /\ change'[c] = h
           /\ \A d \in TaxonomyCalls \ {c} : change'[d] = change[d]
           /\ \A d \in TaxonomyCalls : change'[d].at = "read" => change'[d].does # "none"
<1>1. change \in [TaxonomyCalls -> ChangeType]
  BY DEF TaxonomyTyped
<1>2. change'[c] = h /\ \A d \in TaxonomyCalls \ {c} : change'[d] = change[d]
  BY <1>1
<1> QED
  BY <1>1, <1>2 DEF TaxonomyTyped

\* The taxonomy is written whole while no other call holds it, or overlaid is set; renamed is
\* set where two labels may have one id.
LEMMA WrittenWhole ==
    ASSUME TaxonomyInv, NEW c \in TaxonomyCalls, NEW labels \in Seq(TaxLabel), taxonomy' = labels,
           intended' \in Seq(TaxLabel), NEW h \in ChangeType, change' = [change EXCEPT ![c] = h], h.at = "done",
           overlaid' = (overlaid \/ Others1(c)), moved' = (moved \/ Sorting), renamed' \in BOOLEAN,
           ~overlaid' => intended' = labels,
           ~renamed' => ~renamed /\ AllDiffer(labels),
           sorting' = sorting
    PROVE  TaxonomyInv'
<1>0. TaxonomyTyped /\ HeldIsStored /\ HeldDiffer /\ SortingKnows
  BY DEF TaxonomyInv
<1>1. /\ change' \in [TaxonomyCalls -> ChangeType] /\ change'[c] = h
      /\ \A d \in TaxonomyCalls \ {c} : change'[d] = change[d]
      /\ \A d \in TaxonomyCalls : change'[d].at = "read" => change'[d].does # "none"
  BY <1>0, ChangeGoesOn
<1>2. TaxonomyRead' = labels
  BY StoredIsRead DEF TaxonomyRead
<1>3. TaxonomyTyped'
  BY <1>0, <1>1 DEF TaxonomyTyped
<1>4. HeldIsStored'
  BY <1>0, <1>1, <1>2 DEF HeldIsStored, Others1
<1>5. HeldDiffer'
  BY <1>0, <1>1, <1>2 DEF HeldDiffer
<1>6. SortingKnows'
  BY <1>0 DEF SortingKnows, Sorting, TaxonomyTyped
<1> QED
  BY <1>3, <1>4, <1>5, <1>6 DEF TaxonomyInv

\* The classification goes on.
LEMMA SortingGoesOn ==
    ASSUME TaxonomyInv, sorting' \in SortingType, SortingKnows',
           UNCHANGED <<taxonomy, change, intended, overlaid, renamed, moved>>
    PROVE  TaxonomyInv'
<1>1. TaxonomyRead' = TaxonomyRead
  BY DEF TaxonomyRead
<1> QED
  BY <1>1 DEF TaxonomyInv, TaxonomyTyped, HeldIsStored, HeldDiffer

\* A change reads the taxonomy and writes it whole; a classification reads it and goes on.
LEMMA TaxonomyStep == TaxonomyInv /\ [TaxonomyNext]_taxonomyVars => TaxonomyInv'
<1> SUFFICES ASSUME TaxonomyInv, [TaxonomyNext]_taxonomyVars
             PROVE  TaxonomyInv'
  OBVIOUS
<1>0. TaxonomyTyped /\ HeldIsStored /\ HeldDiffer /\ SortingKnows
  BY DEF TaxonomyInv
<1>a. /\ change \in [TaxonomyCalls -> ChangeType] /\ sorting \in SortingType /\ intended \in Seq(TaxLabel)
      /\ {overlaid, renamed, moved} \subseteq BOOLEAN /\ TaxonomyRead \in Seq(TaxLabel)
  BY <1>0, ReadIsTyped DEF TaxonomyTyped
<1>b. IdsOf(TaxonomyRead) \subseteq LabelIds
  BY <1>a, IdsAreOfPlaces
<1>1. CASE UNCHANGED taxonomyVars
  BY <1>0, <1>1 DEF taxonomyVars, TaxonomyInv, TaxonomyTyped, HeldIsStored, HeldDiffer, SortingKnows, TaxonomyRead
<1>2. CASE ReadToSift
  <2> DEFINE apt == {label.id : label \in {l \in ToSet(TaxonomyRead) : l.apt}}
  <2>1. apt \subseteq IdsOf(TaxonomyRead)
    BY DEF IdsOf
  <2> HIDE DEF apt
  <2>2. sorting' = [sorting EXCEPT !.at = "sift", !.known = IdsOf(TaxonomyRead), !.apt = apt]
    BY <1>2 DEF ReadToSift, apt
  <2>3. UNCHANGED <<taxonomy, change, intended, overlaid, renamed, moved>> /\ TaxonomyRead' = TaxonomyRead
    BY <1>2 DEF ReadToSift, TaxonomyRead
  <2>4. sorting' \in SortingType /\ sorting'.at = "sift" /\ sorting'.known = IdsOf(TaxonomyRead) /\ sorting'.apt = apt
    BY <1>a, <1>b, <2>1, <2>2 DEF SortingType
  <2>5. SortingKnows'
    BY <2>1, <2>3, <2>4 DEF SortingKnows
  <2> QED
    BY <2>3, <2>4, <2>5, SortingGoesOn
<1>3. CASE TellModel
  <2>1. sorting.at = "sift" /\ sorting' = [sorting EXCEPT !.at = "model", !.told = IdsOf(TaxonomyRead)]
    BY <1>3 DEF TellModel
  <2>2. UNCHANGED <<taxonomy, change, intended, overlaid, renamed, moved>> /\ TaxonomyRead' = TaxonomyRead
    BY <1>3 DEF TellModel, TaxonomyRead
  <2>3. /\ sorting' \in SortingType /\ sorting'.at = "model" /\ sorting'.told = IdsOf(TaxonomyRead)
        /\ sorting'.known = sorting.known /\ sorting'.apt = sorting.apt
    BY <1>a, <1>b, <2>1 DEF SortingType
  <2>4. SortingKnows'
    BY <1>0, <2>1, <2>2, <2>3 DEF SortingKnows
  <2> QED
    BY <2>2, <2>3, <2>4, SortingGoesOn
<1>4. ASSUME NEW by \in {"model", "nobody", "rules"}, NEW labels \in SUBSET LabelIds, Sorted(by, labels),
             ~moved => labels \subseteq sorting.told /\ (by = "rules" => labels = sorting.apt)
      PROVE  TaxonomyInv'
  <2>1. sorting.at = "model" /\ sorting' = [sorting EXCEPT !.at = "done", !.labels = labels, !.by = by]
    BY <1>4 DEF Sorted
  <2>2. UNCHANGED <<taxonomy, change, intended, overlaid, renamed, moved>>
    BY <1>4 DEF Sorted
  <2>3. /\ sorting' \in SortingType /\ sorting'.at = "done" /\ sorting'.told = sorting.told
        /\ sorting'.apt = sorting.apt /\ sorting'.labels = labels /\ sorting'.by = by
    BY <1>a, <2>1 DEF SortingType
  <2>4. SortingKnows'
    BY <1>4, <2>2, <2>3 DEF SortingKnows
  <2> QED
    BY <2>2, <2>3, <2>4, SortingGoesOn
<1>5. CASE UnreadableAnswer
  BY <1>4, <1>5 DEF UnreadableAnswer
<1>6. CASE RulesSort
  <2>1. sorting.apt \in SUBSET LabelIds /\ Sorted("rules", sorting.apt)
    BY <1>a, <1>6 DEF RulesSort, ByRules, SortingType
  <2>2. ~moved => sorting.apt \subseteq sorting.told
    BY <1>0, <2>1 DEF SortingKnows, Sorted
  <2> QED
    BY <1>4, <2>1, <2>2
<1>7. ASSUME NEW named \in SUBSET LabelIds, ModelSorts(named)
      PROVE  TaxonomyInv'
  <2>1. Sifted(named) \in SUBSET LabelIds /\ Sorted("model", Sifted(named))
    BY <1>7 DEF ModelSorts, Sifted
  <2>2. ~moved => Sifted(named) \subseteq sorting.told
    BY <1>0, <2>1 DEF SortingKnows, Sorted, Sifted
  <2> QED
    BY <1>4, <2>1, <2>2
<1>8. ASSUME NEW c \in TaxonomyCalls, NEW does \in {"add", "update", "delete"}, NEW id \in LabelIds, NEW label \in TaxLabel,
             ReadTaxonomy(c, does, id, label)
      PROVE  TaxonomyInv'
  <2> DEFINE h == [at |-> "read", does |-> does, id |-> id, label |-> label, labels |-> TaxonomyRead]
  <2>1. /\ change[c].at = "new" /\ change' = [change EXCEPT ![c] = h]
        /\ UNCHANGED <<taxonomy, intended, overlaid, renamed, sorting, moved>> /\ TaxonomyRead' = TaxonomyRead
    BY <1>8 DEF ReadTaxonomy, TaxonomyRead
  <2>2. h \in ChangeType /\ h.at = "read" /\ h.does # "none" /\ h.labels = TaxonomyRead
    BY <1>a DEF ChangeType
  <2> HIDE DEF h
  <2>3. /\ change' \in [TaxonomyCalls -> ChangeType] /\ change'[c] = h
        /\ \A d \in TaxonomyCalls \ {c} : change'[d] = change[d]
        /\ \A d \in TaxonomyCalls : change'[d].at = "read" => change'[d].does # "none"
    BY <1>0, <2>1, <2>2, ChangeGoesOn
  <2>4. TaxonomyTyped'
    BY <1>0, <2>1, <2>3 DEF TaxonomyTyped
  <2>5. HeldIsStored' /\ HeldDiffer' /\ SortingKnows'
    BY <1>0, <2>1, <2>2, <2>3 DEF HeldIsStored, HeldDiffer, SortingKnows
  <2> QED
    BY <2>4, <2>5 DEF TaxonomyInv
<1>9. ASSUME NEW c \in TaxonomyCalls, WriteTaxonomy(c)
      PROVE  TaxonomyInv'
  <2> DEFINE h == change[c]
             e == [h EXCEPT !.at = "done"]
             new == Changed(h.does, h.id, h.label, h.labels)
  <2>1. /\ h.at = "read" /\ h.does \in {"add", "update", "delete"} /\ h \in ChangeType
        /\ h.id \in LabelIds /\ h.label \in TaxLabel /\ h.labels \in Seq(TaxLabel)
    BY <1>0, <1>a, <1>9 DEF WriteTaxonomy, ChangeType, TaxonomyTyped
  <2>2. e \in ChangeType /\ e.at = "done"
    BY <2>1 DEF ChangeType
  <2>3. change' = [change EXCEPT ![c] = e] /\ sorting' = sorting
    BY <1>9 DEF WriteTaxonomy
  <2> HIDE DEF e
  <2>4. CASE Refused(h.does, h.id, h.label, h.labels)
    <3>1. UNCHANGED <<taxonomy, intended, overlaid, renamed, moved>> /\ TaxonomyRead' = TaxonomyRead
      BY <1>9, <2>4 DEF WriteTaxonomy, TaxonomyRead
    <3>2. /\ change' \in [TaxonomyCalls -> ChangeType] /\ change'[c] = e
          /\ \A d \in TaxonomyCalls \ {c} : change'[d] = change[d]
          /\ \A d \in TaxonomyCalls : change'[d].at = "read" => change'[d].does # "none"
      BY <1>0, <2>2, <2>3, ChangeGoesOn
    <3>3. TaxonomyTyped'
      BY <1>0, <2>3, <3>1, <3>2 DEF TaxonomyTyped
    <3>4. HeldIsStored' /\ HeldDiffer' /\ SortingKnows'
      BY <1>0, <2>2, <2>3, <3>1, <3>2 DEF HeldIsStored, HeldDiffer, SortingKnows
    <3> QED
      BY <3>3, <3>4 DEF TaxonomyInv
  <2>5. CASE ~Refused(h.does, h.id, h.label, h.labels)
    <3>1. /\ taxonomy' = new
          /\ intended' = IF Refused(h.does, h.id, h.label, intended) THEN intended ELSE Changed(h.does, h.id, h.label, intended)
          /\ overlaid' = (overlaid \/ Others1(c)) /\ moved' = (moved \/ Sorting)
          /\ renamed' = \/ renamed
                        \/ h.does = "update" /\ h.label.id # h.id /\ h.label.id \in IdsOf(h.labels)
      BY <1>9, <2>5 DEF WriteTaxonomy
    <3>2. /\ new \in Seq(TaxLabel)
          /\ AllDiffer(h.labels) /\ ~(h.does = "update" /\ h.label.id # h.id /\ h.label.id \in IdsOf(h.labels)) => AllDiffer(new)
      BY <2>1, <2>5, ChangedIsTyped
    <3>3. intended' \in Seq(TaxLabel)
      BY <1>a, <2>1, <3>1, ChangedIsTyped
    <3>4. ~overlaid' => h.labels = intended
      BY <1>0, <2>1, <3>1 DEF HeldIsStored
    <3>5. ~overlaid' => intended' = new
      BY <2>5, <3>1, <3>4, Zenon
    <3>6. renamed' \in BOOLEAN /\ (~renamed' => ~renamed /\ AllDiffer(new))
      BY <1>0, <1>a, <2>1, <3>1, <3>2 DEF HeldDiffer
    <3> HIDE DEF new
    <3> QED
      BY <2>2, <2>3, <3>1, <3>2, <3>3, <3>5, <3>6, WrittenWhole
  <2> QED
    BY <2>4, <2>5
<1>10. ASSUME NEW c \in TaxonomyCalls, NEW n \in 0..2, NEW labels \in [1..n -> TaxLabel], PutTaxonomy(c, labels)
       PROVE  TaxonomyInv'
  <2> DEFINE e == [change[c] EXCEPT !.at = "done"]
  <2>1. /\ taxonomy' = labels /\ intended' = labels /\ change' = [change EXCEPT ![c] = e] /\ sorting' = sorting
        /\ overlaid' = (overlaid \/ Others1(c)) /\ moved' = (moved \/ Sorting) /\ renamed' = (renamed \/ ~AllDiffer(labels))
    BY <1>10 DEF PutTaxonomy
  <2>2. e \in ChangeType /\ e.at = "done"
    BY <1>a DEF ChangeType
  <2>3. labels \in Seq(TaxLabel)
    OBVIOUS
  <2>4. renamed' \in BOOLEAN /\ (~renamed' => ~renamed /\ AllDiffer(labels))
    BY <1>a, <2>1
  <2> HIDE DEF e
  <2> QED
    BY <2>1, <2>2, <2>3, <2>4, WrittenWhole
<1>11. NoChange.label \in TaxLabel
  BY DefaultIsTyped DEF NoChange
<1>12. CASE TaxonomyNext
  <2>1. \A label \in TaxLabel : label.id \in LabelIds
    BY DEF TaxLabel
  <2> QED
    BY <1>2, <1>3, <1>5, <1>6, <1>7, <1>8, <1>9, <1>10, <1>11, <1>12, <2>1 DEF TaxonomyNext
<1> QED
  BY <1>1, <1>12

\* The invariant holds of every behaviour.
LEMMA TaxonomyAlways == TaxonomySpec => []TaxonomyInv
BY TaxonomyStart, TaxonomyStep, PTL DEF TaxonomySpec

\* What MCStudies states of the taxonomy follows.
LEMMA TaxonomyIsKept == TaxonomyInv => ChangesAreKept /\ LabelsDiffer /\ GivenAreKnown
BY DEF TaxonomyInv, HeldIsStored, HeldDiffer, SortingKnows, ChangesAreKept, LabelsDiffer, GivenAreKnown

-----------------------------------------------------------------------------
(* The requirements of an interview.                                         *)

TraceSpec == TraceInit /\ [][TraceNext]_traceVars

\* The requirements at some places, in their order.
LEMMA OnlySelects ==
    ASSUME NEW X, NEW items \in Seq(X), NEW places
    PROVE  Only(items, places) \in Seq(X) /\ \E at : StoodAt(Only(items, places), items, places, Len(items), at)
<1> DEFINE N == Len(items)
           Selecting(f) == [n \in 0..N |-> IF n = 0 THEN <<>> ELSE IF n \in places THEN Append(f[n - 1], items[n]) ELSE f[n - 1]]
           staying == CHOOSE f : f = Selecting(f)
<1>1. \E g : g = Selecting(g)
  BY SelectionFound
<1>2. staying = Selecting(staying)
  <2> HIDE DEF Selecting
  <2> QED
    BY <1>1, Zenon
<1>3. Only(items, places) = staying[N]
  BY DEF Only
<1> HIDE DEF staying
<1>4. staying[N] \in Seq(X) /\ \E at : StoodAt(staying[N], items, places, N, at)
  BY <1>2, SelectionKeeps
<1> QED
  BY <1>3, <1>4

\* What the documents hold, as far as they are made.
Extracts == [id : Nat, known : BOOLEAN]
PrdItem == [id : Nat, from : Nat, deep : BOOLEAN]
TraceTyped ==
    /\ extracted \in Seq(Extracts) /\ prd \in Seq(PrdItem)
    /\ criteria \in Seq(Seq(Nat)) /\ stories \in Seq(Seq(Nat))
\* The invariant of the documents: the fallback is what was extracted.
TraceInv == TraceTyped /\ WordsAreKept /\ (prdState = "fallback" => prd = Converted)

\* What is converted without the model is what was extracted, each as it is.
LEMMA ConvertedIsKnown ==
    ASSUME extracted \in Seq(Extracts)
    PROVE  /\ Converted \in Seq(PrdItem)
           /\ \E at \in [1..Len(Converted) -> 1..Len(extracted)] :
                /\ \A m \in 1..Len(Converted) : Converted[m] = [id |-> IdAt(at[m]), from |-> at[m], deep |-> FALSE]
                /\ \A m, l \in 1..Len(Converted) : m < l => at[m] < at[l]
                /\ \A i \in 1..Len(extracted) : extracted[i].known => \E m \in 1..Len(Converted) : at[m] = i
<1> DEFINE N == Len(extracted)
           items == [i \in DOMAIN extracted |-> [id |-> IdAt(i), from |-> i, deep |-> FALSE]]
           places == {i \in DOMAIN extracted : extracted[i].known}
<1>1. N \in Nat /\ DOMAIN extracted = 1..N /\ \A i \in 1..N : extracted[i] \in Extracts
  OBVIOUS
<1>2. \A i \in 1..N : IdAt(i) \in Nat
  BY <1>1 DEF IdAt, Extracts
<1>3. items \in Seq(PrdItem) /\ Len(items) = N /\ \A i \in 1..N : items[i] = [id |-> IdAt(i), from |-> i, deep |-> FALSE]
  <2>1. \A i \in 1..N : [id |-> IdAt(i), from |-> i, deep |-> FALSE] \in PrdItem
    BY <1>1, <1>2 DEF PrdItem
  <2>2. items \in [1..N -> PrdItem] /\ \A i \in 1..N : items[i] = [id |-> IdAt(i), from |-> i, deep |-> FALSE]
    BY <1>1, <2>1
  <2> HIDE DEF items, N
  <2> QED
    BY <1>1, <2>2
<1>4. Converted = Only(items, places)
  BY DEF Converted
<1> HIDE DEF items
<1>5. Converted \in Seq(PrdItem)
  BY <1>3, <1>4, OnlySelects
<1>6. PICK at : StoodAt(Converted, items, places, N, at)
  <2> HIDE DEF places, N
  <2> QED
    BY <1>3, <1>4, OnlySelects
<1>7. /\ at \in [1..Len(Converted) -> 1..N]
      /\ \A m \in 1..Len(Converted) : Converted[m] = items[at[m]]
      /\ \A m, l \in 1..Len(Converted) : m < l => at[m] < at[l]
      /\ \A k \in 1..N : k \in places => \E m \in 1..Len(Converted) : at[m] = k
  BY <1>6 DEF StoodAt
<1>8. \A m \in 1..Len(Converted) : Converted[m] = [id |-> IdAt(at[m]), from |-> at[m], deep |-> FALSE]
  BY <1>3, <1>7
<1>9. \A i \in 1..N : extracted[i].known => \E m \in 1..Len(Converted) : at[m] = i
  BY <1>1, <1>7
<1> QED
  BY <1>5, <1>7, <1>8, <1>9

\* What is matched is the first that was extracted of the id.
LEMMA MatchedIsFirst ==
    ASSUME extracted \in Seq(Extracts), NEW id \in Nat
    PROVE  /\ Matched(id) \in PrdItem /\ Matched(id).id = id /\ ~Matched(id).deep
           /\ Matched(id).from = 0 => ~\E i \in DOMAIN extracted : extracted[i].known /\ IdAt(i) = id
           /\ \A i \in DOMAIN extracted : Matched(id).from > i /\ IdAt(i) = id => ~extracted[i].known
<1> DEFINE C == Converted
           N == Len(extracted)
           S == {m \in 1..Len(C) : C[m].id = id}
<1>1. C \in Seq(PrdItem) /\ Len(C) \in Nat /\ DOMAIN C = 1..Len(C)
  <2>1. C \in Seq(PrdItem)
    BY ConvertedIsKnown
  <2> HIDE DEF C
  <2> QED
    BY <2>1
<1>2. PICK at \in [1..Len(C) -> 1..N] :
        /\ \A m \in 1..Len(C) : C[m] = [id |-> IdAt(at[m]), from |-> at[m], deep |-> FALSE]
        /\ \A m, l \in 1..Len(C) : m < l => at[m] < at[l]
        /\ \A i \in 1..N : extracted[i].known => \E m \in 1..Len(C) : at[m] = i
  BY ConvertedIsKnown
<1>3. DOMAIN extracted = 1..N /\ N \in Nat
  OBVIOUS
<1>4. (\E r \in Range(C) : r.id = id) <=> S # {}
  <2> HIDE DEF C
  <2> QED
    BY <1>1 DEF Range
<1>5. CASE S = {}
  <2>1. Matched(id) = OfModel(id)
    BY <1>4, <1>5 DEF Matched
  <2>2. ~\E i \in DOMAIN extracted : extracted[i].known /\ IdAt(i) = id
    <3> SUFFICES ASSUME NEW i \in DOMAIN extracted, extracted[i].known, IdAt(i) = id
                 PROVE  FALSE
      OBVIOUS
    <3>1. PICK m \in 1..Len(C) : at[m] = i
      BY <1>2, <1>3
    <3>2. C[m].id = id
      <4>1. C[m] = [id |-> IdAt(at[m]), from |-> at[m], deep |-> FALSE] /\ IdAt(at[m]) = IdAt(i)
        BY <1>2, <3>1, Zenon
      <4> QED
        BY <4>1
    <3> QED
      BY <1>5, <3>2
  <2> QED
    BY <1>3, <2>1, <2>2 DEF OfModel, PrdItem
<1>6. CASE S # {}
  <2> DEFINE first == Min(S)
  <2>1. \E x \in S : \A y \in S : x <= y
    <3>1. S \subseteq Nat
      BY <1>1
    <3> HIDE DEF S
    <3> QED
      BY <1>6, <3>1, Least
  <2>2. first \in S /\ \A y \in S : first <= y
    BY <2>1 DEF Min
  <2>3. SelectInSeq(C, LAMBDA r : r.id = id) = first
    BY <1>6 DEF SelectInSeq
  <2>4. Matched(id) = C[first]
    BY <1>4, <1>6, <2>3 DEF Matched
  <2> HIDE DEF first
  <2>5. /\ first \in 1..Len(C) /\ C[first].id = id /\ at[first] \in 1..N
        /\ C[first] = [id |-> IdAt(at[first]), from |-> at[first], deep |-> FALSE]
    BY <1>2, <2>2
  <2>6. ASSUME NEW i \in DOMAIN extracted, at[first] > i, IdAt(i) = id
        PROVE  ~extracted[i].known
    <3> SUFFICES ASSUME extracted[i].known PROVE FALSE
      OBVIOUS
    <3>1. PICK m \in 1..Len(C) : at[m] = i
      BY <1>2, <1>3
    <3>2. C[m].id = id
      <4>1. C[m] = [id |-> IdAt(at[m]), from |-> at[m], deep |-> FALSE] /\ IdAt(at[m]) = IdAt(i)
        BY <1>2, <3>1, Zenon
      <4> QED
        BY <2>6, <4>1
    <3>3. first <= m
      BY <2>2, <3>2
    <3>4. at[first] <= at[m]
      <4>1. first = m \/ first < m
        BY <1>1, <2>5, <3>3
      <4>2. first < m => at[first] < at[m]
        BY <1>2, <2>5
      <4>3. at[first] \in Nat /\ at[m] \in Nat
        BY <1>2, <2>5
      <4> QED
        BY <4>1, <4>2, <4>3
    <3> QED
      BY <1>3, <2>5, <2>6, <3>1, <3>4
  <2>7. C[first] \in PrdItem
    <3>1. C \in Seq(PrdItem) /\ first \in 1..Len(C)
      BY <1>1, <2>5
    <3> HIDE DEF C
    <3> QED
      BY <3>1
  <2> QED
    BY <1>3, <2>4, <2>5, <2>6, <2>7
<1> QED
  BY <1>5, <1>6

\* A sequence of a bounded length is one.
LEMMA BoundedIsSeq ==
    ASSUME NEW X, NEW n \in Nat, NEW s \in BoundedSeq(X, n)
    PROVE  s \in Seq(X)
<1>1. PICK m \in 0..n : s \in [1..m -> X]
  BY DEF BoundedSeq, SeqOf
<1>2. m \in Nat
  OBVIOUS
<1> QED
  BY <1>1, <1>2

\* Before the interview is extracted there are no documents.
LEMMA TraceStart == TraceInit => TraceInv
<1> SUFFICES ASSUME TraceInit
             PROVE  TraceInv
  OBVIOUS
<1>0. MaxExtracted \in Nat
  BY TraceAssumption
<1>1. extracted \in Seq([id : 0..MaxExtracted, known : BOOLEAN])
  <2>1. extracted \in BoundedSeq([id : 0..MaxExtracted, known : BOOLEAN], MaxExtracted)
    BY DEF TraceInit
  <2> DEFINE X == [id : 0..MaxExtracted, known : BOOLEAN]
  <2> HIDE DEF X
  <2>2. extracted \in BoundedSeq(X, MaxExtracted)
    BY <2>1 DEF X
  <2>3. extracted \in Seq(X)
    BY <1>0, <2>2, BoundedIsSeq
  <2> QED
    BY <2>3 DEF X
<1>2. [id : 0..MaxExtracted, known : BOOLEAN] \subseteq Extracts
  BY <1>0 DEF Extracts
<1>3. extracted \in Seq(Extracts)
  <2> DEFINE X == [id : 0..MaxExtracted, known : BOOLEAN]
  <2>1. extracted \in Seq(X) /\ X \subseteq Extracts
    BY <1>1, <1>2
  <2> HIDE DEF X
  <2> QED
    BY <2>1
<1>4. prd = <<>> /\ prdState = "none" /\ criteria = <<>> /\ stories = <<>>
  BY DEF TraceInit
<1> QED
  BY <1>3, <1>4 DEF TraceInv, TraceTyped, WordsAreKept

\* What the model placed is in the words it was extracted in.
LEMMA PlacedIsKept ==
    ASSUME TraceTyped, NEW placed \in Seq(Placements), GeneratePrd(placed)
    PROVE  TraceInv'
<1>0. /\ extracted \in Seq(Extracts) /\ prd \in Seq(PrdItem) /\ criteria \in Seq(Seq(Nat)) /\ stories \in Seq(Seq(Nat))
      /\ UNCHANGED <<extracted, criteria, stories>>
  BY DEF TraceTyped, GeneratePrd
<1>1. CASE \E i \in DOMAIN placed : placed[i].deep /\ ~placed[i].known
  <2>1. prdState' = "failed" /\ prd' = prd
    BY <1>1 DEF GeneratePrd
  <2> QED
    BY <1>0, <2>1 DEF TraceInv, TraceTyped, WordsAreKept
<1>2. CASE ~\E i \in DOMAIN placed : placed[i].deep /\ ~placed[i].known
  <2> DEFINE staying == Only(placed, {i \in DOMAIN placed : ~Skipped(placed[i])})
  <2>1. prdState' = "answered" /\ prd' = [i \in DOMAIN staying |-> PlacedRequirement(staying[i])]
    BY <1>2 DEF GeneratePrd
  <2>2. staying \in Seq(Placements)
    BY OnlySelects
  <2> HIDE DEF staying
  <2>3. DOMAIN staying = 1..Len(staying) /\ Len(staying) \in Nat /\ \A i \in 1..Len(staying) : staying[i] \in Placements
    BY <2>2
  <2>4. \A p \in Placements : p.id \in Nat /\ p.deep \in BOOLEAN
    BY TraceAssumption DEF Placements, RequirementIds
  <2>5. ASSUME NEW p \in Placements
        PROVE  LET r == PlacedRequirement(p) IN
               /\ r \in PrdItem
               /\ r.from = 0 /\ ~r.deep => ~\E i \in DOMAIN extracted : extracted[i].known /\ IdAt(i) = r.id
               /\ \A i \in DOMAIN extracted : r.from > i /\ IdAt(i) = r.id => ~extracted[i].known
    <3>1. CASE p.deep
      <4>1. PlacedRequirement(p) = [id |-> p.id, from |-> 0, deep |-> TRUE]
        BY <3>1 DEF PlacedRequirement, OfModel
      <4>2. \A i \in DOMAIN extracted : ~(0 > i)
        BY <1>0
      <4> QED
        BY <2>4, <4>1, <4>2 DEF PrdItem
    <3>2. CASE ~p.deep
      <4>1. PlacedRequirement(p) = Matched(p.id)
        BY <3>2 DEF PlacedRequirement
      <4> QED
        BY <1>0, <2>4, <4>1, MatchedIsFirst
    <3> QED
      BY <3>1, <3>2
  <2>6. prd' \in Seq(PrdItem) /\ DOMAIN prd' = 1..Len(staying) /\ \A i \in 1..Len(staying) : prd'[i] = PlacedRequirement(staying[i])
    <3>1. prd' \in [1..Len(staying) -> PrdItem] /\ \A i \in 1..Len(staying) : prd'[i] = PlacedRequirement(staying[i])
      BY <2>1, <2>3, <2>5
    <3> QED
      BY <2>3, <3>1
  <2>7. DOMAIN extracted' = DOMAIN extracted /\ extracted' = extracted /\ \A i : IdAt(i)' = IdAt(i)
    BY <1>0 DEF IdAt
  <2>8. WordsAreKept'
    <3>1. ASSUME NEW n \in DOMAIN prd', prd'[n].from = 0, ~prd'[n].deep, NEW i \in DOMAIN extracted, extracted[i].known
          PROVE  IdAt(i) # prd'[n].id
      BY <2>3, <2>5, <2>6, <3>1
    <3>2. ASSUME NEW n \in DOMAIN prd', NEW i \in DOMAIN extracted, prd'[n].from > i, IdAt(i) = prd'[n].id
          PROVE  ~extracted[i].known
      BY <2>3, <2>5, <2>6, <3>2
    <3> QED
      BY <2>7, <3>1, <3>2 DEF WordsAreKept
  <2> QED
    BY <1>0, <2>1, <2>6, <2>8 DEF TraceInv, TraceTyped
<1> QED
  BY <1>1, <1>2

\* The documents are made one of the other.
LEMMA TraceStep == TraceInv /\ [TraceNext]_traceVars => TraceInv'
<1> SUFFICES ASSUME TraceInv, [TraceNext]_traceVars
             PROVE  TraceInv'
  OBVIOUS
<1>0. TraceTyped /\ WordsAreKept /\ (prdState = "fallback" => prd = Converted)
  BY DEF TraceInv
<1>a. extracted \in Seq(Extracts) /\ prd \in Seq(PrdItem) /\ criteria \in Seq(Seq(Nat)) /\ stories \in Seq(Seq(Nat))
  BY <1>0 DEF TraceTyped
<1>1. ASSUME UNCHANGED <<extracted, prd, prdState>>, criteria' \in Seq(Seq(Nat)), stories' \in Seq(Seq(Nat))
      PROVE  TraceInv'
  <2>1. Converted' = Converted /\ \A i : IdAt(i)' = IdAt(i)
    BY <1>1 DEF Converted, IdAt
  <2>2. WordsAreKept'
    BY <1>0, <1>1, <2>1 DEF WordsAreKept
  <2> QED
    BY <1>0, <1>1, <2>1, <2>2 DEF TraceInv, TraceTyped
<1>2. CASE UNCHANGED traceVars
  BY <1>a, <1>1, <1>2 DEF traceVars
<1>3. ASSUME NEW placed \in BoundedSeq(Placements, MaxPlaced), GeneratePrd(placed)
      PROVE  TraceInv'
  <2>1. placed \in Seq(Placements)
    BY TraceAssumption, BoundedIsSeq
  <2> QED
    BY <1>0, <1>3, <2>1, PlacedIsKept
<1>4. CASE FallbackPrd
  <2>1. prdState' = "fallback" /\ prd' = Converted /\ UNCHANGED <<extracted, criteria, stories>>
    BY <1>4 DEF FallbackPrd, Fallback
  <2>2. Converted' = Converted
    BY <2>1 DEF Converted, IdAt
  <2>3. Converted \in Seq(PrdItem)
    BY <1>a, ConvertedIsKnown
  <2> QED
    BY <1>0, <2>1, <2>2, <2>3 DEF TraceInv, TraceTyped, WordsAreKept
<1>5. Links \subseteq Seq(Nat)
  <2>1. MaxExtracted + 1 \in Nat
    BY TraceAssumption
  <2>2. <<>> \in Seq(Nat) /\ <<1>> \in Seq(Nat) /\ <<1, 1>> \in Seq(Nat) /\ <<1, 2>> \in Seq(Nat) /\ <<MaxExtracted + 1>> \in Seq(Nat)
    BY <2>1
  <2> QED
    BY <2>2 DEF Links
<1>6. ASSUME NEW answer \in BoundedSeq(Links \ {<<>>}, MaxTraced), WriteCriteria(answer)
      PROVE  TraceInv'
  <2>1. answer \in Seq(Seq(Nat))
    <3>1. answer \in Seq(Links \ {<<>>})
      BY TraceAssumption, BoundedIsSeq
    <3>2. Links \ {<<>>} \subseteq Seq(Nat)
      BY <1>5
    <3> DEFINE X == Links \ {<<>>}
    <3> HIDE DEF X
    <3> QED
      BY <3>1, <3>2 DEF X
  <2>2. [i \in DOMAIN prd |-> <<prd[i].id>>] \in Seq(Seq(Nat))
    <3>0. Len(prd) \in Nat /\ DOMAIN prd = 1..Len(prd) /\ \A i \in 1..Len(prd) : prd[i] \in PrdItem
      BY <1>a
    <3>1. Len(prd) \in Nat /\ DOMAIN prd = 1..Len(prd) /\ \A i \in 1..Len(prd) : prd[i].id \in Nat
      BY <3>0 DEF PrdItem
    <3>2. \A i \in 1..Len(prd) : <<prd[i].id>> \in Seq(Nat)
      BY <3>1
    <3>3. [i \in 1..Len(prd) |-> <<prd[i].id>>] \in [1..Len(prd) -> Seq(Nat)]
      BY <3>2
    <3> QED
      BY <3>1, <3>3
  <2>3. criteria' \in Seq(Seq(Nat)) /\ UNCHANGED <<extracted, prd, prdState, stories>>
    BY <1>6, <2>1, <2>2 DEF WriteCriteria
  <2> QED
    BY <1>a, <1>1, <2>3
<1>7. ASSUME NEW answer \in BoundedSeq(Links, MaxTraced), ExtractStories(answer)
      PROVE  TraceInv'
  <2>1. answer \in Seq(Seq(Nat))
    <3>1. answer \in Seq(Links)
      BY TraceAssumption, BoundedIsSeq
    <3> QED
      BY <1>5, <3>1
  <2>2. stories' = answer /\ UNCHANGED <<extracted, prd, prdState, criteria>>
    BY <1>7 DEF ExtractStories
  <2> QED
    BY <1>a, <1>1, <2>1, <2>2
<1>8. CASE TraceNext
  BY <1>3, <1>4, <1>6, <1>7, <1>8 DEF TraceNext
<1> QED
  BY <1>2, <1>8

\* The invariant holds of every behaviour.
LEMMA TraceAlways == TraceSpec => []TraceInv
BY TraceStart, TraceStep, PTL DEF TraceSpec

\* Each requirement that is converted is there once.
LEMMA ConvertedOnce ==
    ASSUME extracted \in Seq(Extracts), NEW i \in DOMAIN extracted, extracted[i].known
    PROVE  Cardinality({n \in DOMAIN Converted : Converted[n].from = i}) = 1
<1> DEFINE C == Converted
           N == Len(extracted)
<1>1. C \in Seq(PrdItem) /\ Len(C) \in Nat /\ DOMAIN C = 1..Len(C)
  <2>1. C \in Seq(PrdItem)
    BY ConvertedIsKnown
  <2> HIDE DEF C
  <2> QED
    BY <2>1
<1>2. PICK at \in [1..Len(C) -> 1..N] :
        /\ \A m \in 1..Len(C) : C[m] = [id |-> IdAt(at[m]), from |-> at[m], deep |-> FALSE]
        /\ \A m, l \in 1..Len(C) : m < l => at[m] < at[l]
        /\ \A k \in 1..N : extracted[k].known => \E m \in 1..Len(C) : at[m] = k
  BY ConvertedIsKnown
<1>3. i \in 1..N /\ N \in Nat
  OBVIOUS
<1>4. PICK m \in 1..Len(C) : at[m] = i
  BY <1>2, <1>3
<1>5. \A n \in 1..Len(C) : C[n].from = at[n] /\ at[n] \in Nat
  <2> HIDE DEF C
  <2>1. ASSUME NEW n \in 1..Len(C)
        PROVE  C[n].from = at[n]
    <3>1. C[n] = [id |-> IdAt(at[n]), from |-> at[n], deep |-> FALSE]
      BY <1>2, Zenon
    <3> QED
      BY <3>1
  <2>2. \A n \in 1..Len(C) : at[n] \in 1..N
    BY <1>2
  <2> QED
    BY <1>3, <2>1, <2>2
<1>6. \A n \in 1..Len(C) : at[n] = i => n = m
  <2> SUFFICES ASSUME NEW n \in 1..Len(C), at[n] = i
               PROVE  n = m
    OBVIOUS
  <2>1. ~(n < m) /\ ~(m < n)
    BY <1>2, <1>4, <1>5
  <2> QED
    BY <1>1, <2>1
<1>7. {n \in DOMAIN C : C[n].from = i} = {m}
  <2> HIDE DEF C
  <2> QED
    BY <1>1, <1>4, <1>5, <1>6
<1> QED
  BY <1>7, FS_Singleton

\* So the fallback keeps all that was extracted.
LEMMA FallbackIsWhole == TraceInv => FallbackKeepsAll
BY ConvertedOnce DEF TraceInv, TraceTyped, FallbackKeepsAll

\* A part of a finite set that is not less in number is the whole.
LEMMA FullIsOfGiven == TraceTyped => FullLeavesNone
<1> SUFFICES ASSUME TraceTyped, StoriesFull, UncoveredByStories # {}, Linked \ GivenIds = {}
             PROVE  FALSE
  BY DEF FullLeavesNone
<1>1. IsFiniteSet(GivenIds)
  <2> DEFINE N == Len(extracted)
             ids == {e.id : e \in Range(extracted)}
             idAt == [i \in 1..N |-> extracted[i].id]
  <2>1. N \in Nat /\ DOMAIN extracted = 1..N
    BY DEF TraceTyped
  <2>2. idAt \in [1..N -> ids] /\ \A x \in ids : \E i \in 1..N : idAt[i] = x
    BY <2>1 DEF Range
  <2>3. idAt \in Surjection(1..N, ids)
    <3> HIDE DEF idAt, ids, N
    <3> QED
      BY <2>2 DEF Surjection
  <2>4. IsFiniteSet(1..N)
    BY <2>1, FS_Interval
  <2>5. IsFiniteSet(ids)
    BY <2>3, <2>4, FS_Surjection
  <2> QED
    BY <2>5, FS_Subset DEF GivenIds
<1>2. Linked \in SUBSET GivenIds /\ Linked # GivenIds
  BY DEF UncoveredByStories
<1>3. Cardinality(Linked) <= Cardinality(GivenIds) /\ Cardinality(GivenIds) # Cardinality(Linked)
  BY <1>1, <1>2, FS_Subset
<1>4. Cardinality(Linked) >= Cardinality(GivenIds)
  BY DEF StoriesFull
<1>5. Cardinality(Linked) \in Nat /\ Cardinality(GivenIds) \in Nat
  BY <1>1, <1>2, FS_Subset, FS_CardinalityType
<1> QED
  BY <1>3, <1>4, <1>5

\* Sums of numbers grow, by at least what is added, and where one only is not zero they are it.
LEMMA SumsGrow ==
    ASSUME NEW N \in Nat, NEW a, NEW g \in [0..N -> Nat], \A k \in 1..N : a[k] \in Nat,
           g[0] = 0, \A k \in 1..N : g[k] = g[k - 1] + a[k]
    PROVE  \A n \in 0..N, k \in 0..N : k <= n => g[k] <= g[n]
<1> DEFINE S == {n \in Nat : n <= N => \A k \in 0..n : g[k] <= g[n]}
<1>1. 0 \in S
  OBVIOUS
<1>2. ASSUME NEW n \in Nat, n \in S
      PROVE  n + 1 \in S
  <2> SUFFICES ASSUME n + 1 <= N, NEW k \in 0..(n + 1) PROVE g[k] <= g[n + 1]
    OBVIOUS
  <2>1. PICK m \in 1..N : m = n + 1
    OBVIOUS
  <2>2. g[m] = g[n] + a[m] /\ a[m] \in Nat /\ g[n] \in Nat /\ g[m] \in Nat
    BY <2>1
  <2>3. CASE k = n + 1
    BY <2>1, <2>2, <2>3
  <2>4. CASE k # n + 1
    <3>1. k \in 0..n /\ g[k] <= g[n] /\ g[k] \in Nat
      BY <1>2, <2>4
    <3> QED
      BY <2>1, <2>2, <3>1
  <2> QED
    BY <2>3, <2>4
<1>3. Nat \subseteq S
  <2> HIDE DEF S
  <2> QED
    BY <1>1, <1>2, AllNumbers
<1> QED
  BY <1>3

\* A running sum of the numbers up to n.
Summed(g, a, n) == g[0] = 0 /\ \A k \in 1..n : g[k] = g[k - 1] + a[k]

\* A sum where all but one of the numbers are zero is that one.
LEMMA SumsOfOne ==
    ASSUME NEW N \in Nat, NEW a, NEW g \in [0..N -> Nat], \A k \in 1..N : a[k] \in Nat, Summed(g, a, N),
           NEW i \in Nat, \A k \in 1..N : k # i => a[k] = 0
    PROVE  (i \in 1..N => g[N] = a[i]) /\ (i \notin 1..N => g[N] = 0)
<1> USE DEF Summed
<1> DEFINE S == {n \in Nat : n <= N => g[n] = IF i \in 1..n THEN a[i] ELSE 0}
<1>1. 0 \in S
  OBVIOUS
<1>2. ASSUME NEW n \in Nat, n \in S
      PROVE  n + 1 \in S
  <2> SUFFICES ASSUME n + 1 <= N PROVE g[n + 1] = IF i \in 1..(n + 1) THEN a[i] ELSE 0
    OBVIOUS
  <2>1. PICK m \in 1..N : m = n + 1
    OBVIOUS
  <2>2. g[m] = g[n] + a[m] /\ a[m] \in Nat /\ g[n] = IF i \in 1..n THEN a[i] ELSE 0
    BY <1>2, <2>1
  <2>3. CASE i = m
    <3>1. i \notin 1..n /\ i \in 1..(n + 1)
      BY <2>1, <2>3
    <3> QED
      BY <2>1, <2>2, <2>3, <3>1
  <2>4. CASE i # m
    <3>1. (i \in 1..n <=> i \in 1..(n + 1)) /\ a[m] = 0 /\ g[n] \in Nat
      BY <2>1, <2>4
    <3> QED
      BY <2>1, <2>2, <3>1
  <2> QED
    BY <2>3, <2>4
<1>3. Nat \subseteq S
  <2> HIDE DEF S
  <2> QED
    BY <1>1, <1>2, AllNumbers
<1> QED
  BY <1>3

\* How often a criterion names an id.
NamedBy(n, id) == Cardinality({j \in DOMAIN criteria[n] : criteria[n][j] = id})

\* An id is named if it is among those of the criterion, and twice if one is there twice.
LEMMA NamedAtLeastOnce ==
    ASSUME criteria \in Seq(Seq(Nat)), NEW n \in 1..Len(criteria), NEW id
    PROVE  /\ NamedBy(n, id) \in Nat /\ (NamedBy(n, id) > 0 <=> id \in Range(criteria[n]))
           /\ NamedBy(n, id) >= 2 => Cardinality(Range(criteria[n])) < Len(criteria[n])
<1> DEFINE c == criteria[n]
           S == {j \in DOMAIN c : c[j] = id}
<1>1. c \in Seq(Nat)
  OBVIOUS
<1> HIDE DEF c
<1>2. Len(c) \in Nat /\ DOMAIN c = 1..Len(c) /\ IsFiniteSet(1..Len(c)) /\ Cardinality(1..Len(c)) = Len(c)
  <2>1. Len(c) \in Nat /\ DOMAIN c = 1..Len(c)
    BY <1>1
  <2>2. PICK l \in Nat : l = Len(c)
    BY <2>1
  <2>3. IsFiniteSet(1..l) /\ Cardinality(1..l) = IF 1 > l THEN 0 ELSE l - 1 + 1
    BY FS_Interval
  <2>4. Cardinality(1..l) = l
    BY <2>3
  <2> QED
    BY <2>1, <2>2, <2>3, <2>4
<1>3. IsFiniteSet(S)
  BY <1>2, FS_Subset
<1>4. Cardinality(S) \in Nat /\ (Cardinality(S) = 0 <=> S = {})
  BY <1>3, FS_CardinalityType, FS_EmptySet
<1>5. id \in Range(c) <=> S # {}
  BY DEF Range
<1>6. ASSUME Cardinality(S) >= 2
      PROVE  Cardinality(Range(c)) < Len(c)
  <2>1. PICK j \in S, k \in S : j # k
    <3> SUFFICES ASSUME \A j, k \in S : j = k PROVE FALSE
      OBVIOUS
    <3>1. PICK j : j \in S
      BY <1>4, <1>6
    <3>2. S = {j}
      BY <3>1
    <3>3. Cardinality(S) = 1
      BY <3>2, FS_Singleton
    <3> QED
      BY <1>6, <3>3
  <2>2. c \in Surjection(1..Len(c), Range(c))
    BY <1>1, <1>2 DEF Surjection, Range
  <2>3. c \notin Injection(1..Len(c), Range(c))
    BY <1>2, <2>1 DEF Injection, IsInjective
  <2>4. /\ Cardinality(Range(c)) <= Cardinality(1..Len(c)) /\ IsFiniteSet(Range(c))
        /\ Cardinality(Range(c)) # Cardinality(1..Len(c))
    BY <1>2, <2>2, <2>3, FS_Surjection
  <2>5. Cardinality(Range(c)) \in Nat
    BY <2>4, FS_CardinalityType
  <2> QED
    BY <1>2, <2>4, <2>5
<1> QED
  BY <1>4, <1>5, <1>6 DEF NamedBy, c

\* Mentions (RequirementTrace) is the sum of how often each criterion names an id.
LEMMA MentionsAreSummed ==
    ASSUME criteria \in Seq(Seq(Nat)), NEW id
    PROVE  \E g \in [0..Len(criteria) -> Nat] :
             /\ g[0] = 0 /\ \A k \in 1..Len(criteria) : g[k] = g[k - 1] + NamedBy(k, id)
             /\ Mentions(id) = g[Len(criteria)]
<1> DEFINE N == Len(criteria)
           a == [k \in 1..N |-> NamedBy(k, id)]
           Adds(f) == [n \in 0..N |-> IF n = 0 THEN 0 ELSE f[n - 1] + Cardinality({j \in DOMAIN criteria[n] : criteria[n][j] = id})]
           made == CHOOSE f : f = Adds(f)
<1>0. N \in Nat /\ \A k \in 1..N : NamedBy(k, id) \in Nat
  BY NamedAtLeastOnce
<1>1. PICK g \in [0..N -> Nat] : g[0] = 0 /\ \A k \in 1..N : g[k] = g[k - 1] + a[k]
  <2>1. N \in Nat /\ \A k \in 1..N : a[k] \in Nat
    BY <1>0
  <2> HIDE DEF a, N
  <2> QED
    BY <2>1, SumsExist
<1>2. \A f : Adds(f) = [n \in 0..N |-> IF n = 0 THEN 0 ELSE f[n - 1] + NamedBy(n, id)]
  BY Zenon DEF NamedBy
<1>3. g = [n \in 0..N |-> IF n = 0 THEN 0 ELSE g[n - 1] + NamedBy(n, id)]
  BY <1>0, <1>1
<1>4. made = Adds(made)
  <2>1. g = Adds(g)
    <3> HIDE DEF Adds, N
    <3> QED
      BY <1>2, <1>3, Zenon
  <2> HIDE DEF Adds
  <2> QED
    BY <2>1, Zenon
<1>5. Mentions(id) = made[N]
  BY DEF Mentions
<1> HIDE DEF made
<1>6. made = [n \in 0..N |-> IF n = 0 THEN 0 ELSE made[n - 1] + NamedBy(n, id)]
  <2> HIDE DEF Adds, N
  <2> QED
    BY <1>2, <1>4, Zenon
<1> HIDE DEF Adds
<1>7. made[0] = 0 /\ \A k \in 1..N : made[k] = made[k - 1] + NamedBy(k, id)
  <2> DEFINE h == [n \in 0..N |-> IF n = 0 THEN 0 ELSE made[n - 1] + NamedBy(n, id)]
  <2>1. h[0] = 0 /\ \A k \in 1..N : h[k] = made[k - 1] + NamedBy(k, id)
    BY <1>0
  <2>2. made = h
    BY <1>6
  <2> HIDE DEF h
  <2> QED
    BY <2>1, <2>2, Zenon
<1>8. \A n \in 0..N : made[n] = g[n]
  <2> DEFINE S == {n \in Nat : n <= N => made[n] = g[n]}
  <2>1. 0 \in S
    BY <1>1, <1>7
  <2>2. ASSUME NEW n \in Nat, n \in S
        PROVE  n + 1 \in S
    <3> SUFFICES ASSUME n + 1 <= N PROVE made[n + 1] = g[n + 1]
      OBVIOUS
    <3>1. PICK m \in 1..N : m = n + 1
      BY <1>0
    <3>2. m - 1 = n /\ made[n] = g[n] /\ a[m] = NamedBy(m, id)
      BY <1>0, <2>2, <3>1
    <3>3. made[m] = made[n] + NamedBy(m, id) /\ g[m] = g[n] + a[m]
      BY <1>1, <1>7, <3>2
    <3>4. made[m] = g[m]
      BY <3>2, <3>3, Zenon
    <3> QED
      BY <3>1, <3>4
  <2>3. Nat \subseteq S
    <3> HIDE DEF S
    <3> QED
      BY <2>1, <2>2, AllNumbers
  <2> QED
    BY <1>0, <2>3
<1>9. \A k \in 1..N : a[k] = NamedBy(k, id)
  OBVIOUS
<1>10. Mentions(id) = g[N]
  BY <1>0, <1>5, <1>8
<1> QED
  <2> HIDE DEF a, N
  <2>1. \A k \in 1..N : g[k] = g[k - 1] + NamedBy(k, id)
    BY <1>1, <1>9, Zenon
  <2> QED
    BY <1>1, <1>10, <2>1 DEF N

\* An id that is mentioned twice is named by two criteria, or by one that repeats an id.
LEMMA LevelsAreCounted == TraceTyped => LevelsAreOfCriteria
<1> SUFFICES ASSUME TraceTyped, NEW id
             PROVE  LET by == {i \in DOMAIN criteria : id \in Range(criteria[i])} IN
                    /\ Level(id) = "full" => Cardinality(by) >= 2 \/ \E i \in by : Cardinality(Range(criteria[i])) < Len(criteria[i])
                    /\ Level(id) = "partial" => Cardinality(by) = 1
                    /\ Level(id) = "none" => by = {}
  BY DEF LevelsAreOfCriteria
<1> DEFINE N == Len(criteria)
           by == {i \in DOMAIN criteria : id \in Range(criteria[i])}
           a == [k \in 1..N |-> NamedBy(k, id)]
<1>0. criteria \in Seq(Seq(Nat)) /\ N \in Nat /\ DOMAIN criteria = 1..N
  BY DEF TraceTyped
<1>1. PICK g \in [0..N -> Nat] :
        g[0] = 0 /\ (\A k \in 1..N : g[k] = g[k - 1] + NamedBy(k, id)) /\ Mentions(id) = g[N]
  BY <1>0, MentionsAreSummed
<1>2. /\ \A k \in 1..N : a[k] = NamedBy(k, id) /\ a[k] \in Nat /\ (a[k] > 0 <=> k \in by)
      /\ \A k \in 1..N : a[k] >= 2 => Cardinality(Range(criteria[k])) < Len(criteria[k])
  BY <1>0, NamedAtLeastOnce
<1>3. by \subseteq 1..N /\ IsFiniteSet(by) /\ Cardinality(by) \in Nat
  <2>1. by \subseteq 1..N
    BY <1>0
  <2>2. IsFiniteSet(1..N)
    BY <1>0, FS_Interval
  <2> HIDE DEF by, N
  <2> QED
    BY <2>1, <2>2, FS_Subset, FS_CardinalityType
<1> HIDE DEF a, by, N
<1>4. \A k \in 1..N : g[k] = g[k - 1] + a[k]
  BY <1>1, <1>2
<1>5. \A n, k \in 0..N : k <= n => g[k] <= g[n]
  BY <1>0, <1>1, <1>2, <1>4, SumsGrow
<1>6. ASSUME NEW k \in by
      PROVE  g[N] >= 1
  <2>1. k \in 1..N /\ k \in 0..N /\ N \in 0..N /\ k - 1 \in 0..N
    BY <1>0, <1>3
  <2>2. g[k] = g[k - 1] + a[k] /\ g[k] <= g[N] /\ a[k] >= 1 /\ g[k - 1] \in Nat /\ g[N] \in Nat
    BY <1>0, <1>1, <1>2, <1>4, <1>5, <2>1
  <2> QED
    BY <1>2, <2>1, <2>2
<1>7. ASSUME NEW k \in by, NEW l \in by, k < l
      PROVE  g[N] >= 2
  <2>1. k \in 1..N /\ k \in 0..N /\ N \in 0..N /\ k - 1 \in 0..N /\ l \in 1..N /\ l - 1 \in 0..N /\ l \in 0..N /\ k <= l - 1
    BY <1>0, <1>3, <1>7
  <2>2. a[k] \in Nat /\ a[k] >= 1 /\ a[l] \in Nat /\ a[l] >= 1
    BY <1>2, <2>1
  <2>3. g[k] = g[k - 1] + a[k] /\ g[l] = g[l - 1] + a[l] /\ g[k] <= g[l - 1] /\ g[l] <= g[N]
    BY <1>0, <1>4, <1>5, <2>1
  <2>4. g[k - 1] \in Nat /\ g[k] \in Nat /\ g[l - 1] \in Nat /\ g[l] \in Nat /\ g[N] \in Nat
    BY <1>1, <2>1
  <2> QED
    BY <2>2, <2>3, <2>4
<1>8. ASSUME NEW i \in Nat, by \subseteq {i}
      PROVE  (i \in 1..N => g[N] = a[i]) /\ (i \notin 1..N => g[N] = 0)
  <2>1. \A k \in 1..N : k # i => a[k] = 0
    BY <1>2, <1>8
  <2>2. N \in Nat /\ g \in [0..N -> Nat] /\ \A k \in 1..N : a[k] \in Nat
    BY <1>0, <1>1, <1>2
  <2>3. Summed(g, a, N)
    BY <1>1, <1>4, Zenon DEF Summed
  <2> QED
    BY <2>1, <2>2, <2>3, SumsOfOne
<1>9. g[N] \in Nat /\ Mentions(id) = g[N]
  BY <1>0, <1>1
<1>10. CASE by = {}
  <2>1. g[N] = 0
    <3>1. 0 \notin 1..N /\ by \subseteq {0}
      BY <1>10
    <3> QED
      BY <1>8, <3>1
  <2>2. Level(id) = "none"
    BY <1>9, <2>1 DEF Level
  <2> QED
    BY <1>10, <2>2 DEF by
<1>11. ASSUME NEW i \in 1..N, by = {i}
       PROVE  /\ Level(id) = "full" => \E k \in by : Cardinality(Range(criteria[k])) < Len(criteria[k])
              /\ Level(id) # "none" /\ Cardinality(by) = 1
  <2>1. g[N] = a[i] /\ a[i] >= 1 /\ a[i] \in Nat
    BY <1>0, <1>2, <1>8, <1>11
  <2>2. Level(id) = "full" => a[i] >= 2
    BY <1>9, <2>1 DEF Level
  <2>3. Level(id) # "none"
    BY <1>9, <2>1 DEF Level
  <2> QED
    BY <1>2, <1>11, <2>2, <2>3, FS_Singleton
<1>12. ASSUME NEW i \in by, NEW j \in by, i # j
       PROVE  Level(id) = "full" /\ Cardinality(by) >= 2
  <2>1. i \in Nat /\ j \in Nat /\ (i < j \/ j < i)
    <3>1. i \in 1..N /\ j \in 1..N
      BY <1>3
    <3> QED
      BY <1>0, <1>12, <3>1
  <2>2. g[N] >= 2
    BY <1>7, <2>1
  <2>3. Cardinality({i, j}) = 2 /\ {i, j} \in SUBSET by
    <3>1. IsFiniteSet({i}) /\ Cardinality({i}) = 1
      BY FS_Singleton
    <3>2. {i, j} = {i} \cup {j} /\ j \notin {i}
      BY <1>12
    <3>3. Cardinality({i} \cup {j}) = Cardinality({i}) + 1
      BY <3>1, <3>2, FS_AddElement
    <3>4. Cardinality({i} \cup {j}) = 2
      <4>1. Cardinality({i} \cup {j}) = 1 + 1
        BY <3>1, <3>3, Zenon
      <4>2. 1 + 1 = 2
        OBVIOUS
      <4> QED
        BY <4>1, <4>2, Zenon
    <3>5. PICK both : both = {i, j}
      OBVIOUS
    <3>6. both = {i} \cup {j}
      BY <3>2, <3>5
    <3>7. Cardinality(both) = 2
      BY <3>4, <3>6
    <3> QED
      BY <3>5, <3>7
  <2>4. Cardinality(by) >= 2
    BY <1>3, <2>3, FS_Subset
  <2>5. Level(id) = "full"
    BY <1>9, <2>2 DEF Level
  <2> QED
    BY <2>4, <2>5
<1>13. by = {} \/ (\E i \in 1..N : by = {i}) \/ \E i, j \in by : i # j
  <2>1. CASE \A i, j \in by : i = j
    <3>1. ASSUME by # {} PROVE \E i \in 1..N : by = {i}
      <4>1. PICK i : i \in by
        BY <3>1
      <4> QED
        BY <1>3, <2>1, <4>1
    <3> QED
      BY <3>1
  <2> QED
    BY <2>1
<1>14. by = {i \in DOMAIN criteria : id \in Range(criteria[i])}
  BY DEF by
<1> QED
  BY <1>10, <1>11, <1>12, <1>13, <1>14

\* What MCStudies states of the requirements follows.
LEMMA TraceIsKept == TraceInv => FallbackKeepsAll /\ WordsAreKept /\ LevelsAreOfCriteria /\ FullLeavesNone
BY FallbackIsWhole, FullIsOfGiven, LevelsAreCounted DEF TraceInv

-----------------------------------------------------------------------------
(* The chats of a session.                                                   *)

ChatSpec == ChatInit /\ [][ChatNext]_chatVars

\* Messages, ratings and a chat, as far as it is.
Message == [of : Chats, role : {"user", "assistant"}]
Rating == [Categories -> Scores \cup {0}]
ChatType ==
    [at : {"new", "creating", "history", "maturity", "asking", "question", "answer", "done", "failed"}, saw : BOOLEAN,
     told : Seq(Message), scores : Rating]
\* The types of the session, of its chats and of what the browser shows.
ChatTyped ==
    /\ session \in BOOLEAN /\ crossed \in BOOLEAN /\ drafts \in 0..MaxDrafts
    /\ messages \in Seq(Message) /\ maturity \in Rating /\ asked \in Rating
    /\ chat \in [Chats -> ChatType] /\ screen \in [shows : Seq(Message), scores : Rating]
    /\ heldLast \in [Chats -> [messages : Seq(Message), long : BOOLEAN]]
\* An answer comes after its question.
AnsweredIn(s) == \A j \in 1..Len(s) : s[j].role = "assistant" => \E i \in 1..(j - 1) : s[i] = Question(s[j].of)
\* A message is in a sequence.
HasMessage(s, m) == \E i \in 1..Len(s) : s[i] = m
\* A chat that asked has its question among the messages, and one that answered its answer.
ExchangesInv ==
    /\ AnsweredIn(messages) /\ AnsweredIn(screen.shows)
    /\ \A c \in Chats : chat[c].at = "question" => HasMessage(messages, Question(c))
    /\ \A c \in Chats : chat[c].at \in {"answer", "done"} => HasMessage(messages, AnswerOf(c))
\* While nothing crosses, a chat that holds scores holds the stored ones.
ScoresInv == ~crossed =>
    /\ maturity = asked
    /\ \A c \in Chats : HoldsMaturity(c) => chat[c].scores = maturity
\* The invariant of the chats.
ChatInv == ChatTyped /\ ExchangesInv /\ ToldTheLatest /\ ScoresInv

\* At first there are no messages.
LEMMA ChatStart == ChatInit => ChatInv
<1> SUFFICES ASSUME ChatInit
             PROVE  ChatInv
  OBVIOUS
<1>1. Zeros \in Rating /\ <<>> \in Seq(Message) /\ 0 \in 0..MaxDrafts
  BY ChatAssumption DEF Zeros, Rating
<1>2. ChatTyped
  BY <1>1 DEF ChatInit, ChatTyped, ChatType
<1>3. AnsweredIn(<<>>)
  BY DEF AnsweredIn
<1>4. ExchangesInv /\ ToldTheLatest /\ ScoresInv
  BY <1>3 DEF ChatInit, ExchangesInv, ToldTheLatest, ScoresInv, HoldsMaturity
<1> QED
  BY <1>2, <1>4 DEF ChatInv

\* Messages stay answered where others are added that are.
LEMMA AnsweredTogether ==
    ASSUME NEW s \in Seq(Message), NEW t \in Seq(Message), AnsweredIn(s), AnsweredIn(t)
    PROVE  /\ s \o t \in Seq(Message) /\ AnsweredIn(s \o t)
           /\ \A m : HasMessage(s, m) => HasMessage(s \o t, m)
<1> DEFINE u == s \o t
           L == Len(s)
           K == Len(t)
<1>1. /\ u \in Seq(Message) /\ Len(u) = L + K /\ L \in Nat /\ K \in Nat
      /\ \A i \in 1..L : u[i] = s[i]
      /\ \A i \in 1..K : u[L + i] = t[i]
  OBVIOUS
<1> HIDE DEF u, L, K
<1>2. ASSUME NEW j \in 1..(L + K), u[j].role = "assistant"
      PROVE  \E i \in 1..(j - 1) : u[i] = Question(u[j].of)
  <2>1. CASE j \in 1..L
    <3>1. PICK i \in 1..(j - 1) : s[i] = Question(s[j].of)
      BY <1>1, <1>2, <2>1 DEF AnsweredIn, L
    <3>2. i \in 1..L
      BY <1>1, <2>1
    <3> QED
      BY <1>1, <2>1, <3>1, <3>2
  <2>2. CASE j \notin 1..L
    <3>1. PICK k \in 1..K : j = L + k
      <4>1. j - L \in 1..K /\ j = L + (j - L)
        BY <1>1, <2>2
      <4> QED
        BY <4>1
    <3>2. PICK i \in 1..(k - 1) : t[i] = Question(t[k].of)
      BY <1>1, <1>2, <3>1 DEF AnsweredIn, K
    <3>3. i \in 1..K /\ L + i \in 1..(j - 1)
      BY <1>1, <3>1
    <3>4. u[L + i] = t[i] /\ u[j] = t[k]
      BY <1>1, <3>1, <3>3
    <3> QED
      BY <3>2, <3>3, <3>4
  <2> QED
    BY <2>1, <2>2
<1>3. ASSUME NEW m, HasMessage(s, m)
      PROVE  HasMessage(u, m)
  <2>1. PICK i \in 1..L : s[i] = m
    BY <1>3 DEF HasMessage, L
  <2>2. i \in 1..(L + K)
    BY <1>1
  <2> QED
    BY <1>1, <2>1, <2>2 DEF HasMessage
<1> QED
  BY <1>1, <1>2, <1>3 DEF AnsweredIn, u

\* A question may be added, and an answer where its question is.
LEMMA AnsweredOneMore ==
    ASSUME NEW s \in Seq(Message), AnsweredIn(s), NEW m \in Message, m.role = "assistant" => HasMessage(s, Question(m.of))
    PROVE  /\ Append(s, m) \in Seq(Message) /\ AnsweredIn(Append(s, m))
           /\ HasMessage(Append(s, m), m) /\ \A k : HasMessage(s, k) => HasMessage(Append(s, m), k)
<1> DEFINE u == Append(s, m)
           L == Len(s)
<1>1. /\ u \in Seq(Message) /\ Len(u) = L + 1 /\ L \in Nat
      /\ u[L + 1] = m
      /\ \A i \in 1..L : u[i] = s[i]
  OBVIOUS
<1> HIDE DEF u, L
<1>2. ASSUME NEW j \in 1..(L + 1), u[j].role = "assistant"
      PROVE  \E i \in 1..(j - 1) : u[i] = Question(u[j].of)
  <2>1. CASE j = L + 1
    <3>1. PICK i \in 1..L : s[i] = Question(m.of)
      BY <1>1, <1>2, <2>1 DEF HasMessage, L
    <3>2. i \in 1..(j - 1)
      BY <1>1, <2>1
    <3> QED
      BY <1>1, <2>1, <3>1, <3>2
  <2>2. CASE j # L + 1
    <3>0. j \in 1..L
      BY <1>1, <2>2
    <3>1. PICK i \in 1..(j - 1) : s[i] = Question(s[j].of)
      BY <1>1, <1>2, <3>0 DEF AnsweredIn, L
    <3>2. i \in 1..L
      BY <1>1, <3>0
    <3> QED
      BY <1>1, <3>0, <3>1, <3>2
  <2> QED
    BY <2>1, <2>2
<1>3. ASSUME NEW k, HasMessage(s, k)
      PROVE  HasMessage(u, k)
  <2>1. PICK i \in 1..L : s[i] = k
    BY <1>3 DEF HasMessage, L
  <2>2. i \in 1..(L + 1)
    BY <1>1
  <2> QED
    BY <1>1, <2>1, <2>2 DEF HasMessage
<1>4. HasMessage(u, m)
  <2>1. L + 1 \in 1..(L + 1)
    BY <1>1
  <2> QED
    BY <1>1, <2>1 DEF HasMessage
<1> QED
  BY <1>1, <1>2, <1>3, <1>4 DEF AnsweredIn, u

\* One chat goes on, and the others stay as they are.
LEMMA ChatGoesOn ==
    ASSUME ChatTyped, NEW c \in Chats, NEW e \in ChatType, chat' = [chat EXCEPT ![c] = e]
    PROVE  chat' \in [Chats -> ChatType] /\ chat'[c] = e /\ \A d \in Chats \ {c} : chat'[d] = chat[d]
BY DEF ChatTyped

\* Messages are added, by a chat or a draft.
LEMMA TalkGoesOn ==
    ASSUME ChatInv, chat' \in [Chats -> ChatType], messages' \in Seq(Message), AnsweredIn(messages'),
           \A m : HasMessage(messages, m) => HasMessage(messages', m),
           \A d \in Chats : chat'[d].at = "question" => chat[d].at = "question" \/ HasMessage(messages', Question(d)),
           \A d \in Chats : chat'[d].at \in {"answer", "done"} => chat[d].at \in {"answer", "done"} \/ HasMessage(messages', AnswerOf(d)),
           screen'.shows = screen.shows \/ AnsweredIn(screen'.shows)
    PROVE  ExchangesInv'
<1>1. ExchangesInv
  BY DEF ChatInv
<1>2. AnsweredIn(screen'.shows)
  BY <1>1, Zenon DEF ExchangesInv
<1>3. \A d \in Chats : chat'[d].at = "question" => HasMessage(messages', Question(d))
  BY <1>1 DEF ExchangesInv
<1>4. \A d \in Chats : chat'[d].at \in {"answer", "done"} => HasMessage(messages', AnswerOf(d))
  BY <1>1 DEF ExchangesInv
<1>5. AnsweredIn(messages)' /\ AnsweredIn(screen.shows)'
  BY <1>2 DEF AnsweredIn, Question
<1>6. \A m : HasMessage(messages, m)' = HasMessage(messages', m)
  BY DEF HasMessage
<1>7. \A d : Question(d)' = Question(d) /\ AnswerOf(d)' = AnswerOf(d)
  BY DEF Question, AnswerOf
<1> QED
  BY <1>3, <1>4, <1>5 DEF ExchangesInv, HasMessage, Question, AnswerOf

\* A chat goes on to where it neither asks nor answers, and nothing else changes but the session
\* or what it is told.
LEMMA ChatReads ==
    ASSUME ChatInv, NEW c \in Chats, NEW e \in ChatType, chat' = [chat EXCEPT ![c] = e],
           e.at \notin {"question", "answer", "done"},
           e.at = "asking" => e.scores = maturity, session' \in BOOLEAN,
           heldLast' \in [Chats -> [messages : Seq(Message), long : BOOLEAN]],
           \A d \in Chats \ {c} : heldLast'[d] = heldLast[d],
           ~heldLast'[c].long => e.told = heldLast'[c].messages,
           UNCHANGED <<messages, screen, drafts, scoreVars>>
    PROVE  ChatInv'
<1>0. ChatTyped /\ ExchangesInv /\ ToldTheLatest /\ ScoresInv
  BY DEF ChatInv
<1>1. chat' \in [Chats -> ChatType] /\ chat'[c] = e /\ \A d \in Chats \ {c} : chat'[d] = chat[d]
  BY <1>0, ChatGoesOn
<1>2. UNCHANGED <<messages, screen, drafts, maturity, asked, crossed>>
  BY DEF scoreVars
<1>3. ChatTyped'
  BY <1>0, <1>1, <1>2 DEF ChatTyped
<1>4. ExchangesInv'
  <2>1. messages' \in Seq(Message) /\ AnsweredIn(messages')
    BY <1>0, <1>2 DEF ChatTyped, ExchangesInv
  <2> QED
    BY <1>1, <1>2, <2>1, TalkGoesOn
<1>5. ToldTheLatest'
  BY <1>0, <1>1 DEF ToldTheLatest
<1>6. ScoresInv'
  <2>1. e.at \in {"asking", "question", "answer", "answered"} => e.scores = maturity
    BY DEF ChatType
  <2>2. \A d \in Chats : HoldsMaturity(d)' <=> chat'[d].at \in {"asking", "answered", "question", "answer"}
    BY DEF HoldsMaturity
  <2> QED
    BY <1>0, <1>1, <1>2, <2>1, <2>2 DEF ScoresInv, HoldsMaturity
<1> QED
  BY <1>3, <1>4, <1>5, <1>6 DEF ChatInv

\* Parts of a sequence.
LEMMA SuffixIsSeq ==
    ASSUME NEW s \in Seq(Message), NEW n \in Nat
    PROVE  Suffix(s, n) \in Seq(Message) /\ Prefix(s, n) \in Seq(Message) /\ (Len(s) <= n => Prefix(s, n) = s)
<1> DEFINE L == Len(s)
           from == IF L > n THEN L - n + 1 ELSE 1
           to == IF L > n THEN n ELSE L
<1>1. L \in Nat /\ \A i \in 1..L : s[i] \in Message
  OBVIOUS
<1>2. from \in Int /\ to \in Int /\ from >= 1 /\ to <= L
  BY <1>1
<1>3. Suffix(s, n) = SubSeq(s, from, L) /\ Prefix(s, n) = SubSeq(s, 1, to)
  BY DEF Suffix, Prefix
<1>4. (\A i \in from..L : s[i] \in Message) /\ (\A i \in 1..to : s[i] \in Message)
  BY <1>1, <1>2
<1>5. SubSeq(s, from, L) \in Seq(Message) /\ SubSeq(s, 1, to) \in Seq(Message)
  <2> HIDE DEF from, to, L
  <2> QED
    BY <1>1, <1>2, <1>4, SubSeqProperties
<1>6. ASSUME L <= n PROVE SubSeq(s, 1, to) = s
  <2>1. to = L
    BY <1>1, <1>6
  <2>2. SubSeq(s, 1, Len(s)) = s
    BY SubSeqFull
  <2> QED
    BY <2>1, <2>2
<1> QED
  BY <1>3, <1>5, <1>6

\* A chat goes on by a read, a message that is stored, an answer or scores that are kept.
LEMMA ChatStep == ChatInv /\ [ChatNext]_chatVars => ChatInv'
<1> SUFFICES ASSUME ChatInv, [ChatNext]_chatVars
             PROVE  ChatInv'
  OBVIOUS
<1>0. ChatTyped /\ ExchangesInv /\ ToldTheLatest /\ ScoresInv
  BY DEF ChatInv
<1>a. /\ session \in BOOLEAN /\ crossed \in BOOLEAN /\ drafts \in 0..MaxDrafts
      /\ messages \in Seq(Message) /\ maturity \in Rating /\ asked \in Rating
      /\ chat \in [Chats -> ChatType] /\ screen \in [shows : Seq(Message), scores : Rating]
      /\ heldLast \in [Chats -> [messages : Seq(Message), long : BOOLEAN]]
  BY <1>0 DEF ChatTyped
<1>b. \A c \in Chats : chat[c] \in ChatType /\ (~heldLast[c].long => chat[c].told = heldLast[c].messages)
  BY <1>0, <1>a DEF ToldTheLatest
<1>1. CASE UNCHANGED chatVars
  BY <1>0, <1>1 DEF chatVars, ChatInv, ChatTyped, ExchangesInv, AnsweredIn, HasMessage, Question, AnswerOf, ToldTheLatest, ScoresInv, HoldsMaturity
<1>2. ASSUME NEW c \in Chats, NEW to \in {"history", "creating", "failed"}, chat' = [chat EXCEPT ![c].at = to],
             session' \in BOOLEAN, UNCHANGED <<messages, screen, drafts, heldLast, scoreVars>>
      PROVE  ChatInv'
  <2> DEFINE e == [chat[c] EXCEPT !.at = to]
  <2>1. chat' = [chat EXCEPT ![c] = e]
    BY <1>2
  <2>2. e \in ChatType /\ e.at = to /\ e.told = chat[c].told
    BY <1>b DEF ChatType
  <2> HIDE DEF e
  <2>3. ~heldLast'[c].long => e.told = heldLast'[c].messages
    BY <1>2, <1>b, <2>2
  <2> QED
    BY <1>2, <1>a, <2>1, <2>2, <2>3, ChatReads
<1>3. ASSUME NEW c \in Chats, LookForSession(c)
      PROVE  ChatInv'
  <2>1. /\ chat' = [chat EXCEPT ![c].at = IF session THEN "history" ELSE "creating"]
        /\ UNCHANGED <<session, messages, screen, drafts, heldLast, scoreVars>>
    BY <1>3 DEF LookForSession, talkVars
  <2> QED
    BY <1>2, <1>a, <2>1
<1>4. ASSUME NEW c \in Chats, CreateSession(c)
      PROVE  ChatInv'
  BY <1>2, <1>4 DEF CreateSession, Goes
<1>5. ASSUME NEW c \in Chats, ReadHistory(c)
      PROVE  ChatInv'
  <2> DEFINE e == [chat[c] EXCEPT !.at = "maturity", !.told = Told]
             h == [messages |-> Suffix(messages, PromptWindow), long |-> Len(messages) > HistoryLimit]
  <2>1. chat' = [chat EXCEPT ![c] = e] /\ heldLast' = [heldLast EXCEPT ![c] = h] /\ UNCHANGED <<session, messages, screen, drafts, scoreVars>>
    BY <1>5 DEF ReadHistory
  <2>2. HistoryLimit \in Nat /\ PromptWindow \in Nat
    BY ChatAssumption
  <2>3. Prefix(messages, HistoryLimit) \in Seq(Message) /\ (Len(messages) <= HistoryLimit => Prefix(messages, HistoryLimit) = messages)
    BY <1>a, <2>2, SuffixIsSeq
  <2>4. Told \in Seq(Message) /\ Suffix(messages, PromptWindow) \in Seq(Message)
    BY <1>a, <2>2, <2>3, SuffixIsSeq DEF Told
  <2>5. Len(messages) \in Nat
    BY <1>a
  <2>6. ~h.long => Told = h.messages
    <3>1. ~(Len(messages) > HistoryLimit) => Len(messages) <= HistoryLimit
      BY <2>2, <2>5
    <3> QED
      BY <2>3, <3>1, Zenon DEF Told
  <2>7. e \in ChatType /\ e.at = "maturity" /\ e.told = Told /\ h \in [messages : Seq(Message), long : BOOLEAN]
    <3>1. e \in ChatType /\ e.at = "maturity" /\ e.told = Told
      BY <1>b, <2>4 DEF ChatType
    <3>2. (Len(messages) > HistoryLimit) \in BOOLEAN
      BY <2>2, <2>5
    <3>3. h \in [messages : Seq(Message), long : BOOLEAN]
      BY <2>4, <3>2
    <3> QED
      BY <3>1, <3>3
  <2> HIDE DEF e, h
  <2>8. /\ heldLast' \in [Chats -> [messages : Seq(Message), long : BOOLEAN]] /\ heldLast'[c] = h
        /\ \A d \in Chats \ {c} : heldLast'[d] = heldLast[d]
    BY <1>a, <2>1, <2>7
  <2>9. ~heldLast'[c].long => e.told = heldLast'[c].messages
    BY <2>6, <2>7, <2>8
  <2> QED
    BY <1>a, <2>1, <2>7, <2>8, <2>9, ChatReads
<1>6. ASSUME NEW c \in Chats, ReadMaturity(c)
      PROVE  ChatInv'
  <2> DEFINE e == [chat[c] EXCEPT !.at = "asking", !.scores = maturity]
  <2>1. chat' = [chat EXCEPT ![c] = e] /\ UNCHANGED <<session, messages, screen, drafts, heldLast, scoreVars>>
    BY <1>6 DEF ReadMaturity, talkVars
  <2>2. e \in ChatType /\ e.at = "asking" /\ e.told = chat[c].told /\ e.scores = maturity
    BY <1>a, <1>b DEF ChatType
  <2> HIDE DEF e
  <2>3. ~heldLast'[c].long => e.told = heldLast'[c].messages
    BY <1>b, <2>1, <2>2
  <2> QED
    BY <1>a, <2>1, <2>2, <2>3, ChatReads
<1>7. ASSUME NEW c \in Chats, NEW to \in {"question", "answer"}, NEW m \in Message, Goes(c, chat[c].at, to),
             chat[c].at \in {"asking", "question"},
             messages' = Append(messages, m), UNCHANGED <<session, screen, drafts, heldLast, scoreVars>>,
             m.role = "assistant" => HasMessage(messages, Question(m.of)),
             to = "question" => m = Question(c), to = "answer" => m = AnswerOf(c)
      PROVE  ChatInv'
  <2> DEFINE e == [chat[c] EXCEPT !.at = to]
  <2>1. chat' = [chat EXCEPT ![c] = e] /\ UNCHANGED <<session, screen, drafts, heldLast, maturity, asked, crossed>>
    BY <1>7 DEF Goes, scoreVars
  <2>2. e \in ChatType /\ e.at = to /\ e.told = chat[c].told /\ e.scores = chat[c].scores
    BY <1>b DEF ChatType
  <2> HIDE DEF e
  <2>3. chat' \in [Chats -> ChatType] /\ chat'[c] = e /\ \A d \in Chats \ {c} : chat'[d] = chat[d]
    BY <1>0, <2>1, <2>2, ChatGoesOn
  <2>4. AnsweredIn(messages)
    BY <1>0 DEF ExchangesInv
  <2>5. messages' \in Seq(Message) /\ AnsweredIn(messages') /\ HasMessage(messages', m) /\ \A k : HasMessage(messages, k) => HasMessage(messages', k)
    BY <1>7, <1>a, <2>4, AnsweredOneMore
  <2>6. ChatTyped'
    BY <1>a, <2>1, <2>3, <2>5 DEF ChatTyped
  <2>7. ExchangesInv'
    <3>1. \A d \in Chats : chat'[d].at = "question" => chat[d].at = "question" \/ HasMessage(messages', Question(d))
      BY <1>7, <2>2, <2>3, <2>5
    <3>2. \A d \in Chats : chat'[d].at \in {"answer", "done"} => chat[d].at \in {"answer", "done"} \/ HasMessage(messages', AnswerOf(d))
      BY <1>7, <2>2, <2>3, <2>5
    <3> QED
      BY <2>1, <2>3, <2>5, <3>1, <3>2, TalkGoesOn
  <2>8. ToldTheLatest'
    BY <1>0, <2>1, <2>2, <2>3 DEF ToldTheLatest
  <2>9. ScoresInv'
    BY <1>0, <1>7, <2>1, <2>2, <2>3 DEF ScoresInv, HoldsMaturity
  <2> QED
    BY <2>6, <2>7, <2>8, <2>9 DEF ChatInv
<1>8. ASSUME NEW c \in Chats, SaveQuestion(c)
      PROVE  ChatInv'
  <2>1. Question(c) \in Message /\ Question(c).role # "assistant"
    BY DEF Question, Message
  <2>2. /\ Goes(c, chat[c].at, "question") /\ chat[c].at = "asking" /\ messages' = Append(messages, Question(c))
        /\ UNCHANGED <<session, screen, drafts, heldLast, scoreVars>>
    BY <1>8 DEF SaveQuestion, Goes
  <2> QED
    BY <1>7, <2>1, <2>2
<1>9. ASSUME NEW c \in Chats, SaveAnswer(c)
      PROVE  ChatInv'
  <2>1. AnswerOf(c) \in Message /\ AnswerOf(c).of = c
    BY DEF AnswerOf, Message
  <2>2. /\ Goes(c, chat[c].at, "answer") /\ chat[c].at = "question" /\ messages' = Append(messages, AnswerOf(c))
        /\ UNCHANGED <<session, screen, drafts, heldLast, scoreVars>>
    BY <1>9 DEF SaveAnswer, Goes
  <2>3. HasMessage(messages, Question(c))
    BY <1>0, <2>2 DEF ExchangesInv
  <2> QED
    BY <1>7, <2>1, <2>2, <2>3
<1>10. ASSUME NEW c \in Chats, SaveMaturity(c)
       PROVE  ChatInv'
  <2>1. PICK cats \in SUBSET Categories, score \in Scores :
          /\ Goes(c, "answer", "done")
          /\ maturity' = Updated(c, cats, score)
          /\ asked' = [k \in Categories |-> IF k \in cats THEN score ELSE asked[k]]
          /\ crossed' = Crossed(Chats \ {c})
          /\ screen' = [shows |-> screen.shows \o <<Question(c), AnswerOf(c)>>, scores |-> maturity']
          /\ UNCHANGED <<session, messages, drafts, heldLast>>
    BY <1>10 DEF SaveMaturity
  <2> DEFINE e == [chat[c] EXCEPT !.at = "done"]
             both == <<Question(c), AnswerOf(c)>>
  <2>2. chat' = [chat EXCEPT ![c] = e] /\ chat[c].at = "answer"
    BY <2>1 DEF Goes
  <2>3. e \in ChatType /\ e.at = "done" /\ e.told = chat[c].told
    BY <1>b DEF ChatType
  <2> HIDE DEF e
  <2>4. chat' \in [Chats -> ChatType] /\ chat'[c] = e /\ \A d \in Chats \ {c} : chat'[d] = chat[d]
    BY <1>0, <2>2, <2>3, ChatGoesOn
  <2>5. chat[c].scores \in Rating
    BY <1>b DEF ChatType
  <2>6. maturity' \in Rating /\ asked' \in Rating /\ crossed' \in BOOLEAN
    BY <1>a, <2>1, <2>5 DEF Updated, Rating, Crossed
  <2>7. both \in Seq(Message) /\ AnsweredIn(both)
    <3>1. Question(c) \in Message /\ AnswerOf(c) \in Message
      BY DEF Question, AnswerOf, Message
    <3>2. both \in Seq(Message) /\ Len(both) = 2 /\ both[1] = Question(c) /\ both[2] = AnswerOf(c)
      BY <3>1
    <3>3. Question(c).role # "assistant" /\ AnswerOf(c).of = c
      BY DEF Question, AnswerOf
    <3>4. \A j \in 1..2 : both[j].role = "assistant" => \E i \in 1..(j - 1) : both[i] = Question(both[j].of)
      <4> HIDE DEF both
      <4> SUFFICES ASSUME NEW j \in 1..2, both[j].role = "assistant" PROVE \E i \in 1..(j - 1) : both[i] = Question(both[j].of)
        OBVIOUS
      <4>1. j = 2
        BY <3>2, <3>3
      <4>2. 1 \in 1..(j - 1) /\ both[1] = Question(both[j].of)
        BY <3>2, <3>3, <4>1
      <4> QED
        BY <4>2
    <3> HIDE DEF both
    <3> QED
      BY <3>2, <3>4 DEF AnsweredIn
  <2> HIDE DEF both
  <2>8. screen.shows \in Seq(Message) /\ AnsweredIn(screen.shows)
    BY <1>0, <1>a DEF ExchangesInv
  <2>9. screen'.shows \in Seq(Message) /\ AnsweredIn(screen'.shows) /\ screen' \in [shows : Seq(Message), scores : Rating]
    <3>1. screen.shows \o both \in Seq(Message) /\ AnsweredIn(screen.shows \o both)
      BY <2>7, <2>8, AnsweredTogether
    <3>2. screen' = [shows |-> screen.shows \o both, scores |-> maturity']
      BY <2>1 DEF both
    <3> QED
      BY <2>6, <3>1, <3>2
  <2>10. ChatTyped'
    BY <1>a, <2>1, <2>4, <2>6, <2>9 DEF ChatTyped
  <2>11. ExchangesInv'
    <3>1. messages' = messages /\ AnsweredIn(messages')
      BY <1>0, <2>1 DEF ExchangesInv
    <3>2. \A d \in Chats : chat'[d].at = "question" => chat[d].at = "question"
      BY <2>3, <2>4
    <3>3. \A d \in Chats : chat'[d].at \in {"answer", "done"} => chat[d].at \in {"answer", "done"}
      BY <2>2, <2>4
    <3> QED
      BY <1>a, <2>4, <2>9, <3>1, <3>2, <3>3, TalkGoesOn
  <2>12. ToldTheLatest'
    BY <1>0, <2>1, <2>3, <2>4 DEF ToldTheLatest
  <2>13. ScoresInv'
    <3> SUFFICES ASSUME ~crossed' PROVE maturity' = asked' /\ \A d \in Chats : ~(HoldsMaturity(d)')
      BY DEF ScoresInv
    <3>1. ~crossed /\ \A d \in Chats \ {c} : ~HoldsMaturity(d)
      BY <2>1 DEF Crossed
    <3>2. maturity = asked /\ chat[c].scores = maturity
      BY <1>0, <2>2, <3>1 DEF ScoresInv, HoldsMaturity
    <3>3. maturity' = asked'
      BY <2>1, <3>2 DEF Updated
    <3> QED
      BY <2>3, <2>4, <3>1, <3>3 DEF HoldsMaturity
  <2> QED
    BY <2>10, <2>11, <2>12, <2>13 DEF ChatInv
<1>11. ASSUME NEW c \in Chats, ChatFails(c)
       PROVE  ChatInv'
  <2>1. chat' = [chat EXCEPT ![c].at = "failed"] /\ UNCHANGED <<session, messages, screen, drafts, heldLast, scoreVars>>
    BY <1>11 DEF ChatFails, talkVars
  <2> QED
    BY <1>2, <1>a, <2>1
<1>12. CASE SaveDraft
  <2>1. /\ drafts < MaxDrafts /\ drafts' = drafts + 1 /\ maturity' = screen.scores /\ asked' = screen.scores
        /\ crossed' = Crossed(Chats) /\ messages' = messages \o screen.shows
        /\ UNCHANGED <<session, chat, screen, heldLast>>
    BY <1>12 DEF SaveDraft, PutAfter
  <2>2. AnsweredIn(messages) /\ AnsweredIn(screen.shows) /\ screen.shows \in Seq(Message) /\ screen.scores \in Rating
    BY <1>0, <1>a DEF ExchangesInv
  <2>3. messages' \in Seq(Message) /\ AnsweredIn(messages') /\ \A m : HasMessage(messages, m) => HasMessage(messages', m)
    BY <1>a, <2>1, <2>2, AnsweredTogether
  <2>4. drafts' \in 0..MaxDrafts
    BY <1>a, <2>1, ChatAssumption
  <2>5. ChatTyped'
    BY <1>a, <2>1, <2>2, <2>3, <2>4 DEF ChatTyped, Crossed
  <2>6. ExchangesInv'
    BY <1>a, <2>1, <2>2, <2>3, TalkGoesOn
  <2>7. ToldTheLatest'
    BY <1>0, <2>1 DEF ToldTheLatest
  <2>8. ScoresInv'
    BY <2>1 DEF ScoresInv, Crossed, HoldsMaturity
  <2> QED
    BY <2>5, <2>6, <2>7, <2>8 DEF ChatInv
<1>13. CASE ChatNext
  BY <1>3, <1>4, <1>5, <1>6, <1>8, <1>9, <1>10, <1>11, <1>12, <1>13 DEF ChatNext
<1> QED
  BY <1>1, <1>13

\* The invariant holds of every behaviour.
LEMMA ChatAlways == ChatSpec => []ChatInv
BY ChatStart, ChatStep, PTL DEF ChatSpec

\* What MCStudies states of the chats follows.
LEMMA ChatIsKept == ChatInv => ChatTypeOK /\ ExchangesAreWhole /\ ToldTheLatest /\ ScoresAreKept
<1> SUFFICES ASSUME ChatInv PROVE ChatTypeOK /\ ExchangesAreWhole /\ ToldTheLatest /\ ScoresAreKept
  OBVIOUS
<1>1. ChatTyped /\ ExchangesInv /\ ToldTheLatest /\ ScoresInv
  BY DEF ChatInv
<1>2. messages \in Seq(Message) /\ DOMAIN messages = 1..Len(messages)
  BY <1>1 DEF ChatTyped
<1>3. \A i \in DOMAIN messages : messages[i].of \in Chats
  <2>1. \A i \in DOMAIN messages : messages[i] \in Message
    BY <1>2
  <2> QED
    BY <2>1 DEF Message
<1>4. ChatTypeOK
  BY <1>1, <1>3 DEF ChatTyped, ChatTypeOK, Rating
<1>5. ExchangesAreWhole
  BY <1>1, <1>2 DEF ExchangesInv, ExchangesAreWhole, AnsweredIn, HasMessage, ToSet
<1> QED
  BY <1>1, <1>4, <1>5 DEF ScoresInv, ScoresAreKept

-----------------------------------------------------------------------------
(* When a session may be submitted.                                          *)

ReadySpec == ReadyInit /\ [][ReadyNext]_readyVars

\* Whole units of a number.
LEMMA TimesMore ==
    ASSUME NEW u \in Nat, NEW d \in Nat, NEW k \in Nat, d < k
    PROVE  u * d + u <= u * k
<1>1. PICK e \in Nat : k = d + 1 + e
  <2>1. k - d - 1 \in Nat /\ k = d + 1 + (k - d - 1)
    OBVIOUS
  <2> QED
    BY <2>1
<1>2. u * k = u * d + u + u * e
  BY <1>1
<1>3. u * e \in Nat /\ u * d \in Nat /\ u * k \in Nat
  OBVIOUS
<1> QED
  BY <1>2, <1>3

\* Whole (IdeationChat) is the largest multiple that is not above the number.
LEMMA WholeIs ==
    ASSUME NEW n \in Nat, NEW u \in Nat \ {0}
    PROVE  /\ Whole(n, u) \in Nat /\ Whole(n, u) <= n /\ n < Whole(n, u) + u
           /\ \E d \in Nat : Whole(n, u) = u * d
<1> DEFINE r == n % u
           d == n \div u
<1>1. n = u * d + r /\ d \in Nat /\ r \in Nat /\ r < u
  OBVIOUS
<1> HIDE DEF r, d
<1>2. u * d \in Nat
  BY <1>1
<1>3. PICK w \in Nat : w = u * d
  BY <1>2
<1>4. n = w + r
  BY <1>1, <1>3
<1>5. Whole(n, u) = w
  BY <1>1, <1>4 DEF Whole, r
<1>6. Whole(n, u) <= n /\ n < Whole(n, u) + u
  BY <1>1, <1>4, <1>5
<1> QED
  BY <1>1, <1>3, <1>5, <1>6

\* A multiple is reached by a number exactly if it is by its whole units.
LEMMA WholeAtBound ==
    ASSUME NEW n \in Nat, NEW u \in Nat \ {0}, NEW k \in Nat
    PROVE  n >= u * k <=> Whole(n, u) >= u * k
<1>1. PICK d \in Nat : Whole(n, u) = u * d
  BY WholeIs
<1>2. u * d <= n /\ n < u * d + u /\ u * d \in Nat /\ u * k \in Nat
  <2>1. u * d \in Nat /\ u * k \in Nat
    OBVIOUS
  <2> QED
    BY <1>1, <2>1, WholeIs
<1>3. ASSUME n >= u * k, ~(u * d >= u * k) PROVE FALSE
  <2>1. d < k
    <3> SUFFICES ASSUME ~(d < k) PROVE FALSE
      OBVIOUS
    <3>1. d = k \/ k < d
      OBVIOUS
    <3>2. k < d => u * k + u <= u * d
      BY TimesMore
    <3> QED
      BY <1>2, <1>3, <3>1, <3>2
  <2>2. u * d + u <= u * k
    BY <2>1, TimesMore
  <2> QED
    BY <1>2, <1>3, <2>2
<1> QED
  BY <1>1, <1>2, <1>3

\* Whole units of whole units are the same.
LEMMA WholeTwice ==
    ASSUME NEW n \in Nat, NEW u \in Nat \ {0}
    PROVE  Whole(Whole(n, u), u) = Whole(n, u)
<1>1. PICK d \in Nat : Whole(n, u) = u * d
  BY WholeIs
<1>2. PICK w \in Nat : w = u * d
  OBVIOUS
<1>3. PICK e \in Nat : Whole(w, u) = u * e
  BY <1>2, WholeIs
<1>4. Whole(w, u) <= w /\ (w >= u * d <=> Whole(w, u) >= u * d)
  BY <1>2, WholeIs, WholeAtBound
<1>5. Whole(w, u) \in Nat
  BY WholeIs
<1>6. Whole(w, u) = w
  BY <1>2, <1>4, <1>5
<1> QED
  BY <1>1, <1>2, <1>6

\* A total as it is added up.
AspectPoints == [Aspects -> Nat]

\* TotalOf (IdeationChat) is the running sum of the scores of the aspects.
LEMMA TotalIsSum ==
    ASSUME NEW a \in AspectPoints
    PROVE  \E g \in [0..AspectCount -> Nat] : Summed(g, a, AspectCount) /\ TotalOf(a) = g[AspectCount]
<1> DEFINE N == AspectCount
           Adds(f) == [n \in 0..N |-> IF n = 0 THEN 0 ELSE f[n - 1] + a[n]]
           total == CHOOSE f : f = Adds(f)
<1>0. N \in Nat /\ \A k \in 1..N : a[k] \in Nat
  BY ReadinessAssumption DEF AspectPoints, Aspects
<1>1. PICK g \in [0..N -> Nat] : g[0] = 0 /\ \A k \in 1..N : g[k] = g[k - 1] + a[k]
  BY <1>0, SumsExist
<1>2. g = Adds(g)
  BY <1>0, <1>1
<1>3. total = Adds(total)
  <2> HIDE DEF Adds
  <2> QED
    BY <1>2, Zenon
<1>4. TotalOf(a) = total[N]
  BY DEF TotalOf
<1> HIDE DEF total
<1>5. total[0] = 0 /\ \A k \in 1..N : total[k] = total[k - 1] + a[k]
  <2> DEFINE h == Adds(total)
  <2>1. h[0] = 0 /\ \A k \in 1..N : h[k] = total[k - 1] + a[k]
    BY <1>0
  <2>2. total = h
    BY <1>3
  <2> HIDE DEF h
  <2> QED
    BY <2>1, <2>2, Zenon
<1> HIDE DEF Adds
<1>6. \A n \in 0..N : total[n] = g[n]
  <2> DEFINE S == {n \in Nat : n <= N => total[n] = g[n]}
  <2>1. 0 \in S
    BY <1>1, <1>5
  <2>2. ASSUME NEW n \in Nat, n \in S
        PROVE  n + 1 \in S
    <3> SUFFICES ASSUME n + 1 <= N PROVE total[n + 1] = g[n + 1]
      OBVIOUS
    <3>1. PICK m \in 1..N : m = n + 1
      BY <1>0
    <3>2. m - 1 = n /\ total[n] = g[n]
      BY <1>0, <2>2, <3>1
    <3>3. total[m] = total[n] + a[m] /\ g[m] = g[n] + a[m]
      BY <1>1, <1>5, <3>2
    <3>4. total[m] = g[m]
      BY <3>2, <3>3, Zenon
    <3> QED
      BY <3>1, <3>4
  <2>3. Nat \subseteq S
    <3> HIDE DEF S
    <3> QED
      BY <2>1, <2>2, AllNumbers
  <2> QED
    BY <1>0, <2>3
<1>7. TotalOf(a) = g[N]
  BY <1>0, <1>4, <1>6
<1> QED
  BY <1>1, <1>7 DEF Summed

\* Totals of scores that are close to each other are.
LEMMA TotalsAreNear ==
    ASSUME NEW a \in AspectPoints, NEW b \in AspectPoints, NEW e \in Nat, \A k \in Aspects : a[k] <= b[k] + e
    PROVE  TotalOf(a) \in Nat /\ TotalOf(b) \in Nat /\ TotalOf(a) <= TotalOf(b) + AspectCount * e
<1> DEFINE N == AspectCount
<1>0. N \in Nat /\ \A k \in 1..N : a[k] \in Nat /\ b[k] \in Nat /\ a[k] <= b[k] + e
  BY ReadinessAssumption DEF AspectPoints, Aspects
<1>1. PICK g \in [0..N -> Nat] : Summed(g, a, N) /\ TotalOf(a) = g[N]
  BY TotalIsSum
<1>2. PICK h \in [0..N -> Nat] : Summed(h, b, N) /\ TotalOf(b) = h[N]
  BY TotalIsSum
<1> DEFINE S == {n \in Nat : n <= N => g[n] <= h[n] + n * e}
<1>3. 0 \in S
  <2>1. g[0] = 0 /\ h[0] = 0 /\ 0 * e = 0
    BY <1>1, <1>2 DEF Summed
  <2> QED
    BY <2>1
<1>4. ASSUME NEW n \in Nat, n \in S
      PROVE  n + 1 \in S
  <2> SUFFICES ASSUME n + 1 <= N PROVE g[n + 1] <= h[n + 1] + (n + 1) * e
    OBVIOUS
  <2>1. PICK m \in 1..N : m = n + 1
    BY <1>0
  <2>2. g[m] = g[n] + a[m] /\ h[m] = h[n] + b[m]
    <3>1. m - 1 = n
      BY <2>1
    <3> QED
      BY <1>1, <1>2, <3>1 DEF Summed
  <2>3. m * e = n * e + e /\ n * e \in Nat
    BY <2>1
  <2>4. g[n] \in Nat /\ h[n] \in Nat /\ g[n] <= h[n] + n * e
    BY <1>0, <1>4
  <2>5. a[m] \in Nat /\ b[m] \in Nat /\ a[m] <= b[m] + e
    BY <1>0
  <2>6. g[m] <= h[m] + m * e
    <3>1. PICK t \in Nat : t = n * e
      BY <2>3
    <3>2. m * e = t + e /\ g[n] <= h[n] + t
      BY <2>3, <2>4, <3>1
    <3>3. g[n] + a[m] <= h[n] + b[m] + (t + e)
      BY <2>4, <2>5, <3>2
    <3> QED
      BY <2>2, <3>2, <3>3
  <2> QED
    BY <2>1, <2>6
<1>5. Nat \subseteq S
  <2> HIDE DEF S
  <2> QED
    BY <1>3, <1>4, AllNumbers
<1>6. g[N] <= h[N] + N * e
  BY <1>0, <1>5
<1> QED
  BY <1>0, <1>1, <1>2, <1>6

\* The total of scores that are all the same.
LEMMA TotalOfSame ==
    ASSUME NEW x \in Nat
    PROVE  [k \in Aspects |-> x] \in AspectPoints /\ TotalOf([k \in Aspects |-> x]) = x * AspectCount
<1> DEFINE N == AspectCount
           a == [k \in Aspects |-> x]
<1>0. N \in Nat /\ a \in AspectPoints /\ \A k \in 1..N : a[k] = x
  BY ReadinessAssumption DEF AspectPoints, Aspects
<1> HIDE DEF a
<1>1. PICK g \in [0..N -> Nat] : Summed(g, a, N) /\ TotalOf(a) = g[N]
  BY <1>0, TotalIsSum
<1> DEFINE S == {n \in Nat : n <= N => g[n] = x * n}
<1>2. 0 \in S
  <2>1. g[0] = 0 /\ x * 0 = 0
    BY <1>1 DEF Summed
  <2> QED
    BY <2>1
<1>3. ASSUME NEW n \in Nat, n \in S
      PROVE  n + 1 \in S
  <2> SUFFICES ASSUME n + 1 <= N PROVE g[n + 1] = x * (n + 1)
    OBVIOUS
  <2>1. PICK m \in 1..N : m = n + 1
    BY <1>0
  <2>2. g[m] = g[n] + a[m] /\ a[m] = x
    <3>1. m - 1 = n
      BY <2>1
    <3> QED
      BY <1>0, <1>1, <3>1 DEF Summed
  <2>3. x * m = x * n + x /\ g[n] = x * n
    BY <1>0, <1>3, <2>1
  <2> QED
    BY <2>1, <2>2, <2>3
<1>4. Nat \subseteq S
  <2> HIDE DEF S
  <2> QED
    BY <1>2, <1>3, AllNumbers
<1>5. g[N] = x * N
  BY <1>0, <1>4
<1> QED
  BY <1>0, <1>1, <1>5 DEF a

\* The bounds of the levels, and of readiness, are whole points.
LEMMA BoundsAreWhole ==
    /\ PointTotal \in Nat \ {0} /\ AspectCount \in Nat \ {0} /\ SubmitTotal \in Nat \ {0} /\ PointTotal = 2 * AspectCount
    /\ \E q \in Nat : SubmitTotal = PointTotal * q
    /\ \A b \in LevelBounds : \E k \in Nat : b = PointTotal * k
<1>1. AspectCount \in Nat \ {0} /\ SubmitAt \in Nat /\ SubmitAt % 8 = 0 /\ SubmitAt > 0
  BY ReadinessAssumption
<1>2. PICK q \in Nat : SubmitAt = 8 * q
  <2>1. SubmitAt = 8 * (SubmitAt \div 8) /\ SubmitAt \div 8 \in Nat
    BY <1>1
  <2> QED
    BY <2>1
<1>3. PointTotal = 2 * AspectCount /\ PointTotal \in Nat \ {0}
  BY <1>1 DEF PointTotal
<1>4. PICK x \in Nat : x = PointTotal * q
  BY <1>2, <1>3
<1>5. SubmitTotal = 4 * x
  <2>1. SubmitTotal = (8 * q) * AspectCount
    BY <1>2 DEF SubmitTotal
  <2>2. (8 * q) * AspectCount = 4 * ((2 * AspectCount) * q)
    BY <1>1, <1>2
  <2> QED
    BY <1>3, <1>4, <2>1, <2>2
<1>6. PointTotal * (4 * q) = 4 * x /\ 4 * q \in Nat
  BY <1>2, <1>3, <1>4
<1>7. SubmitTotal \in Nat \ {0}
  <2>1. x # 0
    <3> SUFFICES ASSUME x = 0 PROVE FALSE
      OBVIOUS
    <3>1. q > 0
      BY <1>1, <1>2
    <3>2. PointTotal * 0 + PointTotal <= PointTotal * q
      BY <1>2, <1>3, <3>1, TimesMore
    <3>3. PointTotal * 0 = 0
      BY <1>3
    <3>4. 0 + PointTotal <= x
      BY <1>4, <3>2, <3>3
    <3> QED
      BY <1>3, <3>4
  <2> QED
    BY <1>5, <2>1
<1>8. ASSUME NEW b \in LevelBounds
      PROVE  \E k \in Nat : b = PointTotal * k
  <2>1. PICK i \in 1..4 : b = (i * SubmitTotal) \div 4
    BY DEF LevelBounds
  <2>2. b = i * x
    <3>1. b = (i * (4 * x)) \div 4
      BY <1>5, <2>1
    <3>2. i = 1 \/ i = 2 \/ i = 3 \/ i = 4
      OBVIOUS
    <3>3. /\ (1 * (4 * x)) \div 4 = 1 * x
          /\ (2 * (4 * x)) \div 4 = 2 * x
          /\ (3 * (4 * x)) \div 4 = 3 * x
          /\ (4 * (4 * x)) \div 4 = 4 * x
      OBVIOUS
    <3> QED
      BY <3>1, <3>2, <3>3, Zenon
  <2>3. i * (PointTotal * q) = PointTotal * (i * q) /\ i * q \in Nat
    BY <1>2, <1>3
  <2> QED
    BY <1>4, <2>2, <2>3
<1> QED
  BY <1>1, <1>3, <1>5, <1>6, <1>7, <1>8

\* Cutting a total to whole points changes neither its level nor whether it is enough.
LEMMA ColumnSaysTheSame ==
    ASSUME NEW n \in Nat
    PROVE  /\ Column(n) \in Nat /\ Column(n) <= n /\ n < Column(n) + PointTotal
           /\ (Column(n) >= SubmitTotal <=> n >= SubmitTotal) /\ LevelOf(Column(n)) = LevelOf(n)
           /\ Column(Column(n)) = Column(n) /\ (store # "postgres" => Column(n) = n)
<1>1. PointTotal \in Nat \ {0}
  BY BoundsAreWhole
<1>2. CASE store # "postgres"
  <2>1. Column(n) = n /\ Column(Column(n)) = Column(n)
    BY <1>2 DEF Column
  <2> QED
    BY <1>1, <1>2, <2>1
<1>3. CASE store = "postgres"
  <2>1. Column(n) = Whole(n, PointTotal) /\ Column(Column(n)) = Whole(Whole(n, PointTotal), PointTotal)
    BY <1>3 DEF Column
  <2>2. Column(Column(n)) = Column(n)
    BY <1>1, <2>1, WholeTwice
  <2> DEFINE w == Whole(n, PointTotal)
  <2>3. w \in Nat /\ w <= n /\ n < w + PointTotal
    BY <1>1, WholeIs
  <2>4. ASSUME NEW b, \E k \in Nat : b = PointTotal * k
        PROVE  w >= b <=> n >= b
    <3>1. PICK k \in Nat : b = PointTotal * k
      BY <2>4
    <3>2. n >= PointTotal * k <=> w >= PointTotal * k
      BY <1>1, WholeAtBound
    <3> HIDE DEF w
    <3> QED
      BY <3>1, <3>2, Zenon
  <2>5. w >= SubmitTotal <=> n >= SubmitTotal
    BY <2>4, BoundsAreWhole
  <2>6. \A b \in LevelBounds : w >= b <=> n >= b
    BY <2>4, BoundsAreWhole
  <2> HIDE DEF w
  <2>7. LevelOf(w) = LevelOf(n)
    <3>1. {b \in LevelBounds : w >= b} = {b \in LevelBounds : n >= b}
      BY <2>6
    <3> QED
      BY <3>1, Zenon DEF LevelOf
  <2>8. Column(n) = w
    BY <2>1 DEF w
  <2> QED
    BY <1>3, <2>2, <2>3, <2>5, <2>7, <2>8
<1> QED
  BY <1>2, <1>3

\* A maturity whose parts fit, as one is made, kept or shown.
MaturityLevels == {LevelOf(n) : n \in Nat}
\* A maturity, the distance of a total from the sum of its scores, and what fits.
MaturityType == [scores : AspectPoints, total : Nat, level : MaturityLevels, ready : BOOLEAN, gaps : SUBSET Aspects]
Near(total, sum) == total < sum + PointTotal /\ sum < total + PointTotal
FitsTogether(m) ==
    /\ m \in MaturityType
    /\ m.ready = (m.total >= SubmitTotal) /\ m.level = LevelOf(m.total) /\ m.gaps = GapsOf(m.scores)
    /\ TotalOf(m.scores) >= SubmitTotal => m.ready
    /\ store # "mock" => Near(m.total, TotalOf(m.scores)) /\ (m.total = TotalOf(m.scores) \/ Column(m.total) = m.total)

\* What is judged of scores fits.
LEMMA JudgedFits ==
    ASSUME NEW a \in AspectPoints
    PROVE  /\ Judged(a) \in MaturityType /\ FitsTogether(Judged(a)) /\ Judged(a).scores = a /\ Judged(a).total = TotalOf(a)
           /\ Judged(a).ready = (TotalOf(a) >= SubmitTotal)
           /\ Judged(a).level = LevelOf(TotalOf(a)) /\ Judged(a).gaps = GapsOf(a)
<1>1. TotalOf(a) \in Nat
  <2>1. \A k \in Aspects : a[k] <= a[k] + 0
    BY DEF AspectPoints
  <2> QED
    BY <2>1, TotalsAreNear
<1>2. /\ Judged(a).scores = a /\ Judged(a).total = TotalOf(a)
      /\ Judged(a).ready = (TotalOf(a) >= SubmitTotal)
      /\ Judged(a).level = LevelOf(TotalOf(a)) /\ Judged(a).gaps = GapsOf(a)
  BY DEF Judged
<1>3. PointTotal \in Nat \ {0} /\ SubmitTotal \in Nat
  BY BoundsAreWhole
<1>4. LevelOf(TotalOf(a)) \in MaturityLevels /\ (TotalOf(a) >= SubmitTotal) \in BOOLEAN /\ GapsOf(a) \in SUBSET Aspects
  BY <1>1, <1>3 DEF MaturityLevels, GapsOf
<1>5. Judged(a) \in MaturityType
  BY <1>1, <1>4 DEF Judged, MaturityType
<1>6. Near(TotalOf(a), TotalOf(a))
  BY <1>1, <1>3 DEF Near
<1> QED
  BY <1>2, <1>5, <1>6 DEF FitsTogether

\* So does what a browser shows at first, and nothing that is kept is ready.
LEMMA BlankFits ==
    /\ [k \in Aspects |-> 0] \in AspectPoints /\ TotalOf([k \in Aspects |-> 0]) = 0
    /\ FitsTogether(Blank) /\ ~Blank.ready /\ Blank \in MaturityType /\ Blank.scores = [k \in Aspects |-> 0]
    /\ NothingKept.scores = [k \in Aspects |-> 0] /\ ~NothingKept.ready
<1>1. AspectCount \in Nat /\ SubmitTotal \in Nat \ {0}
  BY BoundsAreWhole
<1>2. [k \in Aspects |-> 0] \in AspectPoints /\ TotalOf([k \in Aspects |-> 0]) = 0
  <2>1. 0 * AspectCount = 0
    BY <1>1
  <2> QED
    BY <2>1, TotalOfSame
<1>3. FitsTogether(Blank) /\ Blank \in MaturityType /\ Blank.scores = [k \in Aspects |-> 0] /\ Blank.ready = (0 >= SubmitTotal)
  BY <1>2, JudgedFits DEF Blank
<1>4. ~Blank.ready
  <2>1. ~(0 >= SubmitTotal)
    BY <1>1
  <2> QED
    BY <1>3, <2>1, Zenon
<1>5. NothingKept.scores = Blank.scores /\ NothingKept.ready = Blank.ready
  BY <1>3 DEF NothingKept, MaturityType
<1> QED
  BY <1>2, <1>3, <1>4, <1>5

\* So does the maturity of the mock store, of which no total is near.
LEMMA MockFits ==
    ASSUME store = "mock"
    PROVE  FitsTogether(MockMaturity) /\ ~MockMaturity.ready
<1> DEFINE a == [k \in Aspects |-> GapBelow]
           total == TotalOf(a) + PointTotal
           j == Judged(a)
<1>1. /\ AspectCount \in Nat \ {0} /\ GapBelow \in Nat /\ SubmitAt \in Nat /\ GapBelow + 2 < SubmitAt
      /\ PointTotal \in Nat \ {0} /\ PointTotal = 2 * AspectCount /\ SubmitTotal \in Nat
  BY ReadinessAssumption, BoundsAreWhole
<1>2. a \in AspectPoints /\ TotalOf(a) = GapBelow * AspectCount
  BY <1>1, TotalOfSame
<1>3. total \in Nat /\ TotalOf(a) \in Nat /\ total < SubmitTotal /\ TotalOf(a) < SubmitTotal
  <2>1. GapBelow * AspectCount \in Nat
    BY <1>1
  <2>2. AspectCount * (GapBelow + 2) + AspectCount <= AspectCount * SubmitAt
    BY <1>1, TimesMore
  <2>3. AspectCount * (GapBelow + 2) = GapBelow * AspectCount + PointTotal
    BY <1>1
  <2>4. AspectCount * SubmitAt = SubmitTotal
    BY <1>1 DEF SubmitTotal
  <2>5. PICK t \in Nat : t = GapBelow * AspectCount
    BY <2>1
  <2>6. t + PointTotal + AspectCount <= SubmitTotal
    BY <2>2, <2>3, <2>4, <2>5
  <2> QED
    BY <1>1, <1>2, <2>5, <2>6
<1>4. /\ j \in MaturityType /\ j.scores = a /\ j.ready = (TotalOf(a) >= SubmitTotal) /\ j.gaps = GapsOf(a)
  BY <1>2, JudgedFits
<1>5. MockMaturity = [j EXCEPT !.total = total, !.level = LevelOf(total)]
  BY DEF MockMaturity
<1>6. LevelOf(total) \in MaturityLevels
  BY <1>3 DEF MaturityLevels
<1> HIDE DEF a, total, j
<1>7. /\ MockMaturity \in MaturityType /\ MockMaturity.scores = a /\ MockMaturity.total = total /\ MockMaturity.gaps = GapsOf(a)
      /\ MockMaturity.level = LevelOf(total) /\ MockMaturity.ready = (TotalOf(a) >= SubmitTotal)
  BY <1>3, <1>4, <1>5, <1>6 DEF MaturityType
<1>8. ~(TotalOf(a) >= SubmitTotal) /\ ~(total >= SubmitTotal)
  BY <1>1, <1>3
<1>9. MockMaturity.ready = (MockMaturity.total >= SubmitTotal) /\ ~MockMaturity.ready
  <2>1. (TotalOf(a) >= SubmitTotal) = (total >= SubmitTotal)
    BY <1>8
  <2>2. MockMaturity.ready = (MockMaturity.total >= SubmitTotal)
    BY <1>7, <2>1, Zenon
  <2>3. ~MockMaturity.ready
    BY <1>7, <1>8, Zenon
  <2> QED
    BY <2>2, <2>3
<1>10. ~(TotalOf(MockMaturity.scores) >= SubmitTotal)
  BY <1>7, <1>8, Zenon
<1>11. MockMaturity.level = LevelOf(MockMaturity.total) /\ MockMaturity.gaps = GapsOf(MockMaturity.scores)
  BY <1>7, Zenon
<1> QED
  BY <1>7, <1>9, <1>10, <1>11, Zenon DEF FitsTogether

\* What a chat stores.
LEMMA CutFits ==
    ASSUME NEW a \in AspectPoints, store # "mock"
    PROVE  FitsTogether(Cut(a)) /\ Cut(a).ready = Judged(a).ready
<1> DEFINE b == [k \in Aspects |-> Whole(a[k], 2)]
           t == TotalOf(a)
           j == Judged(a)
<1>1. /\ j \in MaturityType /\ j.scores = a /\ j.total = t /\ j.ready = (t >= SubmitTotal)
      /\ j.level = LevelOf(t) /\ j.gaps = GapsOf(a)
  BY JudgedFits
<1>2. \A k \in Aspects : a[k] \in Nat /\ Whole(a[k], 2) \in Nat /\ Whole(a[k], 2) <= a[k] /\ a[k] <= Whole(a[k], 2) + 1
  <2> SUFFICES ASSUME NEW k \in Aspects
               PROVE  a[k] \in Nat /\ Whole(a[k], 2) \in Nat /\ Whole(a[k], 2) <= a[k] /\ a[k] <= Whole(a[k], 2) + 1
    OBVIOUS
  <2>1. a[k] \in Nat
    BY DEF AspectPoints
  <2> QED
    BY <2>1 DEF Whole
<1>3. b \in AspectPoints /\ \A k \in Aspects : b[k] <= a[k] + 0 /\ a[k] <= b[k] + 1
  BY <1>2 DEF AspectPoints
<1>4. t \in Nat /\ TotalOf(b) \in Nat /\ TotalOf(b) <= t /\ t <= TotalOf(b) + AspectCount
  <2>1. AspectCount * 0 = 0 /\ AspectCount * 1 = AspectCount
    BY BoundsAreWhole
  <2>2. TotalOf(b) \in Nat /\ t \in Nat /\ TotalOf(b) <= t + AspectCount * 0
    BY <1>3, TotalsAreNear
  <2>3. t <= TotalOf(b) + AspectCount * 1
    BY <1>3, TotalsAreNear
  <2> QED
    BY <2>1, <2>2, <2>3
<1>5. GapsOf(b) = GapsOf(a)
  <2>1. GapBelow \in Nat /\ GapBelow % 2 = 0
    BY ReadinessAssumption
  <2>2. ASSUME NEW k \in Aspects
        PROVE  b[k] < GapBelow <=> a[k] < GapBelow
    <3>1. b[k] = a[k] - (a[k] % 2) /\ a[k] \in Nat
      BY <1>2 DEF Whole
    <3> HIDE DEF b
    <3> QED
      BY <2>1, <3>1
  <2> HIDE DEF b
  <2> QED
    BY <2>2 DEF GapsOf
<1> DEFINE c == Column(t)
           m == Cut(a)
<1>6. m = [j EXCEPT !.scores = b, !.total = c]
  BY DEF Cut
<1>7. /\ c \in Nat /\ c <= t /\ t < c + PointTotal /\ (c >= SubmitTotal <=> t >= SubmitTotal)
      /\ LevelOf(c) = LevelOf(t) /\ Column(c) = c
  BY <1>4, ColumnSaysTheSame
<1> HIDE DEF b, t, j, c, m
<1>8. m \in MaturityType /\ m.scores = b /\ m.total = c /\ m.ready = j.ready /\ m.level = j.level /\ m.gaps = j.gaps
  BY <1>1, <1>3, <1>6, <1>7 DEF MaturityType
<1>9. PointTotal \in Nat /\ PointTotal = 2 * AspectCount /\ AspectCount \in Nat \ {0} /\ SubmitTotal \in Nat
  BY BoundsAreWhole
<1>10. Near(c, TotalOf(b))
  BY <1>4, <1>7, <1>9 DEF Near
<1>11. m.ready = (m.total >= SubmitTotal)
  BY <1>1, <1>7, <1>8
<1>12. TotalOf(m.scores) >= SubmitTotal => m.ready
  <2>1. TotalOf(b) >= SubmitTotal => t >= SubmitTotal
    BY <1>4, <1>9
  <2> QED
    BY <1>1, <1>8, <2>1, Zenon
<1>13. FitsTogether(m)
  BY <1>1, <1>5, <1>7, <1>8, <1>10, <1>11, <1>12 DEF FitsTogether
<1> QED
  BY <1>8, <1>13 DEF m, j

\* What is shown stays fit as it is saved.
LEMMA SavedFits ==
    ASSUME NEW m, FitsTogether(m), store # "mock"
    PROVE  LET n == [m EXCEPT !.total = Column(m.total)] IN FitsTogether(n) /\ n.ready = m.ready
<1> DEFINE c == Column(m.total)
           n == [m EXCEPT !.total = c]
<1>0. /\ m \in MaturityType /\ m.ready = (m.total >= SubmitTotal) /\ m.level = LevelOf(m.total) /\ m.gaps = GapsOf(m.scores)
      /\ TotalOf(m.scores) >= SubmitTotal => m.ready
      /\ Near(m.total, TotalOf(m.scores)) /\ (m.total = TotalOf(m.scores) \/ Column(m.total) = m.total)
  BY DEF FitsTogether
<1>1. m.total \in Nat /\ m.scores \in AspectPoints
  BY <1>0 DEF MaturityType
<1>2. /\ c \in Nat /\ c <= m.total /\ m.total < c + PointTotal /\ (c >= SubmitTotal <=> m.total >= SubmitTotal)
      /\ LevelOf(c) = LevelOf(m.total) /\ Column(c) = c
  BY <1>1, ColumnSaysTheSame
<1>3. c = m.total \/ m.total = TotalOf(m.scores)
  BY <1>0
<1> HIDE DEF c
<1>4. n \in MaturityType /\ n.scores = m.scores /\ n.total = c /\ n.ready = m.ready /\ n.level = m.level /\ n.gaps = m.gaps
  BY <1>0, <1>2 DEF MaturityType
<1> HIDE DEF n
<1>5. PointTotal \in Nat \ {0}
  BY BoundsAreWhole
<1>6. Near(c, TotalOf(m.scores))
  <2>1. CASE c = m.total
    BY <1>0, <2>1
  <2>2. CASE m.total = TotalOf(m.scores)
    BY <1>1, <1>2, <1>5, <2>2 DEF Near
  <2> QED
    BY <1>3, <2>1, <2>2
<1>7. FitsTogether(n)
  BY <1>0, <1>2, <1>4, <1>6 DEF FitsTogether
<1> QED
  BY <1>4, <1>7 DEF n, c

\* The maturities there are fit, and one that is ready was judged so.
ReadyTyped ==
    /\ store \in {"postgres", "redis", "mock"} /\ {hasSession, submitted, savedDraft, judgedReady} \subseteq BOOLEAN
    /\ kept = NothingKept \/ FitsTogether(kept)
    /\ DOMAIN display = Browsers /\ \A b \in Browsers : FitsTogether(display[b])
\* The invariant of readiness.
ReadyInv ==
    /\ ReadyTyped /\ SubmittedWasReady /\ SavedCanBeLoaded
    /\ kept.ready => judgedReady
    /\ \A b \in Browsers : display[b].ready => judgedReady

\* At first no session is kept, and each browser shows a blank one.
LEMMA ReadyStart == ReadyInit => ReadyInv
<1> SUFFICES ASSUME ReadyInit
             PROVE  ReadyInv
  OBVIOUS
<1>1. kept = NothingKept /\ display = [b \in Browsers |-> Blank]
  BY DEF ReadyInit
<1>2. ReadyTyped
  BY <1>1, BlankFits DEF ReadyInit, ReadyTyped
<1>3. SubmittedWasReady /\ SavedCanBeLoaded
  BY DEF ReadyInit, SubmittedWasReady, SavedCanBeLoaded
<1>4. ~kept.ready /\ \A b \in Browsers : ~display[b].ready
  BY <1>1, BlankFits
<1> QED
  BY <1>2, <1>3, <1>4 DEF ReadyInv

\* Of one browser what it shows changes, or what is kept, to what fits.
LEMMA ReadyGoesOn ==
    ASSUME ReadyInv, store' = store, {hasSession', submitted', savedDraft', judgedReady'} \subseteq BOOLEAN,
           kept' = kept \/ FitsTogether(kept'), kept' = kept \/ (kept'.ready => judgedReady'),
           DOMAIN display' = Browsers,
           \A b \in Browsers : display'[b] = display[b] \/ (FitsTogether(display'[b]) /\ (display'[b].ready => judgedReady')),
           judgedReady => judgedReady', submitted' => submitted \/ judgedReady', hasSession => hasSession',
           savedDraft' => savedDraft \/ hasSession' \/ store \in {"redis", "mock"}
    PROVE  ReadyInv'
<1>0. /\ ReadyTyped /\ SubmittedWasReady /\ SavedCanBeLoaded
      /\ kept.ready => judgedReady
      /\ \A b \in Browsers : display[b].ready => judgedReady
  BY DEF ReadyInv
<1>1. ASSUME NEW m
      PROVE  FitsTogether(m) <=> FitsTogether(m)'
  BY DEF FitsTogether, Column
<1>2. kept' = NothingKept \/ FitsTogether(kept')
  BY <1>0 DEF ReadyTyped
<1>3. \A b \in Browsers : FitsTogether(display'[b])
  BY <1>0 DEF ReadyTyped
<1>4. ReadyTyped'
  <2>1. FitsTogether(kept)' <=> FitsTogether(kept')
    BY DEF FitsTogether, Column
  <2>2. \A b \in Browsers : FitsTogether(display[b])' <=> FitsTogether(display'[b])
    BY DEF FitsTogether, Column
  <2>3. store' \in {"postgres", "redis", "mock"} /\ NothingKept' = NothingKept
    BY <1>0 DEF ReadyTyped
  <2> QED
    BY <1>2, <1>3, <2>1, <2>2, <2>3 DEF ReadyTyped
<1>5. SubmittedWasReady' /\ SavedCanBeLoaded'
  BY <1>0 DEF SubmittedWasReady, SavedCanBeLoaded, ReadyTyped
<1>6. kept'.ready => judgedReady'
  <2>1. CASE kept' = kept
    BY <1>0, <2>1
  <2> QED
    BY <2>1
<1>7. \A b \in Browsers : display'[b].ready => judgedReady'
  <2> SUFFICES ASSUME NEW b \in Browsers PROVE display'[b].ready => judgedReady'
    OBVIOUS
  <2>1. CASE display'[b] = display[b]
    BY <1>0, <2>1
  <2> QED
    BY <2>1
<1> QED
  BY <1>4, <1>5, <1>6, <1>7 DEF ReadyInv

\* A maturity is judged, cut as it is stored, shown, saved, or submitted.
LEMMA ReadyStep == ReadyInv /\ [ReadyNext]_readyVars => ReadyInv'
<1> SUFFICES ASSUME ReadyInv, [ReadyNext]_readyVars
             PROVE  ReadyInv'
  OBVIOUS
<1>0. /\ ReadyTyped /\ SubmittedWasReady /\ SavedCanBeLoaded
      /\ kept.ready => judgedReady
      /\ \A b \in Browsers : display[b].ready => judgedReady
  BY DEF ReadyInv
<1>a. /\ store \in {"postgres", "redis", "mock"} /\ {hasSession, submitted, savedDraft, judgedReady} \subseteq BOOLEAN
      /\ kept = NothingKept \/ FitsTogether(kept)
      /\ DOMAIN display = Browsers /\ \A b \in Browsers : FitsTogether(display[b])
  BY <1>0 DEF ReadyTyped
<1>1. CASE UNCHANGED readyVars
  BY <1>a, <1>1, ReadyGoesOn DEF readyVars
<1>2. ASSUME NEW b \in Browsers, NEW m, display' = [display EXCEPT ![b] = m]
      PROVE  DOMAIN display' = Browsers /\ display'[b] = m /\ \A d \in Browsers \ {b} : display'[d] = display[d]
  BY <1>a, <1>2
<1>3. CASE ChatWithoutAnswer
  <2>1. hasSession' = TRUE /\ UNCHANGED <<store, kept, display, submitted, savedDraft, judgedReady>>
    BY <1>3 DEF ChatWithoutAnswer
  <2> QED
    BY <1>a, <2>1, ReadyGoesOn
<1>4. ASSUME NEW b \in Browsers, MockAnswer(b)
      PROVE  ReadyInv'
  <2>1. /\ store = "mock" /\ display' = [display EXCEPT ![b] = MockMaturity]
        /\ UNCHANGED <<store, hasSession, kept, submitted, savedDraft, judgedReady>>
    BY <1>4 DEF MockAnswer
  <2>2. FitsTogether(MockMaturity) /\ ~MockMaturity.ready
    BY <2>1, MockFits
  <2>3. DOMAIN display' = Browsers /\ display'[b] = MockMaturity /\ \A d \in Browsers \ {b} : display'[d] = display[d]
    BY <1>2, <2>1
  <2>4. \A d \in Browsers : display'[d] = display[d] \/ (FitsTogether(display'[d]) /\ (display'[d].ready => judgedReady'))
    BY <2>2, <2>3
  <2> QED
    BY <1>a, <2>1, <2>3, <2>4, ReadyGoesOn
<1>5. ASSUME NEW b \in Browsers, SaveShown(b)
      PROVE  ReadyInv'
  <2>1. /\ ~DraftFails /\ savedDraft' = TRUE /\ UNCHANGED <<store, hasSession, display, talks, submitted, judgedReady>>
        /\ kept' = IF store = "mock" THEN kept ELSE [display[b] EXCEPT !.total = Column(display[b].total)]
    BY <1>5 DEF SaveShown
  <2>2. kept' = kept \/ (FitsTogether(kept') /\ kept'.ready = display[b].ready)
    <3>1. CASE store = "mock"
      BY <2>1, <3>1
    <3>2. CASE store # "mock"
      <4> DEFINE n == [display[b] EXCEPT !.total = Column(display[b].total)]
      <4>1. FitsTogether(n) /\ n.ready = display[b].ready
        BY <1>a, <3>2, SavedFits
      <4>2. kept' = n
        BY <2>1, <3>2
      <4> HIDE DEF n
      <4> QED
        BY <4>1, <4>2
    <3> QED
      BY <3>1, <3>2
  <2>3. hasSession \/ store \in {"redis", "mock"}
    BY <1>a, <2>1 DEF DraftFails
  <2>4. kept' = kept \/ (kept'.ready => judgedReady')
    BY <1>0, <2>1, <2>2
  <2> QED
    BY <1>a, <2>1, <2>2, <2>3, <2>4, ReadyGoesOn
<1>6. ASSUME NEW b \in Browsers, Load(b)
      PROVE  ReadyInv'
  <2> DEFINE m == IF IsKept THEN kept ELSE Blank
  <2>1. display' = [display EXCEPT ![b] = m] /\ UNCHANGED <<store, hasSession, kept, submitted, savedDraft, judgedReady>>
    BY <1>6 DEF Load
  <2>2. FitsTogether(m) /\ (m.ready => judgedReady)
    BY <1>0, <1>a, BlankFits DEF IsKept
  <2> HIDE DEF m
  <2>3. DOMAIN display' = Browsers /\ display'[b] = m /\ \A d \in Browsers \ {b} : display'[d] = display[d]
    BY <1>2, <2>1
  <2>4. \A d \in Browsers : display'[d] = display[d] \/ (FitsTogether(display'[d]) /\ (display'[d].ready => judgedReady'))
    BY <2>1, <2>2, <2>3
  <2> QED
    BY <1>a, <2>1, <2>3, <2>4, ReadyGoesOn
<1>7. ASSUME NEW b \in Browsers, SubmitPrd(b)
      PROVE  ReadyInv'
  <2>1. display[b].total >= SubmitTotal /\ submitted' = TRUE /\ UNCHANGED <<store, hasSession, kept, display, talks, savedDraft, judgedReady>>
    BY <1>7 DEF SubmitPrd, Accepts
  <2>2. display[b].ready
    BY <1>a, <2>1, Zenon DEF FitsTogether
  <2>3. judgedReady
    BY <1>0, <2>2
  <2> QED
    BY <1>a, <2>1, <2>3, ReadyGoesOn
<1>8. ASSUME NEW b \in Browsers, NEW cats \in SUBSET Aspects, NEW mark \in Marks, Chat(b, cats, mark)
      PROVE  ReadyInv'
  <2> DEFINE scores == Raised(cats, mark)
  <2>1. /\ store # "mock" /\ hasSession' = TRUE /\ kept' = Cut(scores) /\ display' = [display EXCEPT ![b] = Judged(scores)]
        /\ judgedReady' = (judgedReady \/ Judged(scores).ready) /\ UNCHANGED <<store, submitted, savedDraft>>
    BY <1>8 DEF Chat
  <2>2. scores \in AspectPoints
    <3>1. StoredScores \in AspectPoints
      BY <1>a, BlankFits DEF StoredScores, IsKept, FitsTogether, MaturityType
    <3>2. mark \in Nat
      BY ReadinessAssumption
    <3> QED
      BY <3>1, <3>2 DEF Raised, AspectPoints
  <2> HIDE DEF scores
  <2>3. FitsTogether(Cut(scores)) /\ Cut(scores).ready = Judged(scores).ready
    BY <2>1, <2>2, CutFits
  <2>4. FitsTogether(Judged(scores)) /\ Judged(scores).ready \in BOOLEAN
    BY <2>2, JudgedFits DEF MaturityType
  <2>5. DOMAIN display' = Browsers /\ display'[b] = Judged(scores) /\ \A d \in Browsers \ {b} : display'[d] = display[d]
    BY <1>2, <2>1
  <2>6. \A d \in Browsers : display'[d] = display[d] \/ (FitsTogether(display'[d]) /\ (display'[d].ready => judgedReady'))
    BY <2>1, <2>4, <2>5
  <2>7. FitsTogether(kept') /\ (kept'.ready => judgedReady') /\ judgedReady' \in BOOLEAN
    BY <1>a, <2>1, <2>3, <2>4
  <2> QED
    BY <1>a, <2>1, <2>5, <2>6, <2>7, ReadyGoesOn
<1>9. CASE ReadyNext
  BY <1>3, <1>4, <1>5, <1>6, <1>7, <1>8, <1>9 DEF ReadyNext
<1> QED
  BY <1>1, <1>9

\* The invariant holds of every behaviour.
LEMMA ReadyAlways == ReadySpec => []ReadyInv
BY ReadyStart, ReadyStep, PTL DEF ReadySpec

\* What MCStudies states of readiness follows.
LEMMA ReadyIsKept == ReadyInv => SubmittedWasReady /\ PartsAgree /\ TotalIsNear /\ SavedCanBeLoaded
<1> SUFFICES ASSUME ReadyInv PROVE SubmittedWasReady /\ PartsAgree /\ TotalIsNear /\ SavedCanBeLoaded
  OBVIOUS
<1>1. \A m \in Maturities : FitsTogether(m)
  BY DEF ReadyInv, ReadyTyped, Maturities, IsKept
<1>2. PartsAgree
  BY <1>1, Zenon DEF FitsTogether, PartsAgree
<1>3. TotalIsNear
  BY <1>1 DEF FitsTogether, Near, TotalIsNear
<1> QED
  BY <1>2, <1>3 DEF ReadyInv

\* What is kept as ready is so of scores that are enough, or of a total that is.
LEMMA ReadyLost ==
    ASSUME ReadyInv, ReadyInv', kept.ready, ~kept'.ready
    PROVE  (\E k \in Aspects : kept'.scores[k] < kept.scores[k]) \/ TotalOf(kept.scores) < SubmitTotal
<1> SUFFICES ASSUME ~\E k \in Aspects : kept'.scores[k] < kept.scores[k]
             PROVE  TotalOf(kept.scores) < SubmitTotal
  OBVIOUS
<1>0. SubmitTotal \in Nat \ {0}
  BY BoundsAreWhole
<1>1. kept.scores \in AspectPoints /\ kept'.scores \in AspectPoints
  <2>1. (kept = NothingKept \/ FitsTogether(kept)) /\ (kept' = NothingKept \/ FitsTogether(kept)')
    BY DEF ReadyInv, ReadyTyped
  <2> QED
    BY <2>1, BlankFits DEF FitsTogether, MaturityType
<1>2. TotalOf(kept'.scores) >= SubmitTotal => kept'.ready
  <2>1. CASE kept' = NothingKept
    <3>1. TotalOf(kept'.scores) = 0
      BY <2>1, BlankFits
    <3> QED
      BY <1>0, <3>1
  <2>2. CASE FitsTogether(kept)'
    BY <2>2 DEF FitsTogether
  <2>3. kept' = NothingKept \/ FitsTogether(kept)'
    BY DEF ReadyInv, ReadyTyped
  <2> QED
    BY <2>1, <2>2, <2>3
<1>3. TotalOf(kept.scores) \in Nat /\ TotalOf(kept'.scores) \in Nat /\ TotalOf(kept.scores) <= TotalOf(kept'.scores)
  <2>1. PICK a \in AspectPoints : a = kept.scores
    BY <1>1
  <2>2. PICK b \in AspectPoints : b = kept'.scores
    BY <1>1
  <2>3. \A k \in Aspects : a[k] <= b[k] + 0
    <3>1. \A k \in Aspects : a[k] \in Nat /\ b[k] \in Nat /\ ~(b[k] < a[k])
      BY <2>1, <2>2 DEF AspectPoints
    <3> QED
      BY <3>1
  <2>4. TotalOf(a) \in Nat /\ TotalOf(b) \in Nat /\ TotalOf(a) <= TotalOf(b) + AspectCount * 0
    BY <2>3, TotalsAreNear
  <2>5. AspectCount * 0 = 0
    BY BoundsAreWhole
  <2> QED
    BY <2>1, <2>2, <2>4, <2>5
<1> QED
  BY <1>0, <1>2, <1>3

\* So readiness that is kept is lost for one of the two causes (an action property).
LEMMA ReadinessIsKept == ReadySpec => ReadinessIsLostForACause
<1>1. ReadyInv /\ ReadyInv' /\ [ReadyNext]_readyVars =>
        [kept.ready /\ ~kept'.ready =>
            (\E k \in Aspects : kept'.scores[k] < kept.scores[k]) \/ TotalOf(kept.scores) < SubmitTotal]_readyVars
  BY ReadyLost
<1> QED
  BY <1>1, ReadyAlways, PTL DEF ReadySpec, ReadinessIsLostForACause
=============================================================================
