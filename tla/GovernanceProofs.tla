-------------------------- MODULE GovernanceProofs --------------------------
(***************************************************************************)
(* Theorems about TaskLifecycle, for any number of tasks and managers, any *)
(* threshold and every value of the bounds, and about Governance: the      *)
(* invariants of TaskLifecycle and HitlGate hold of the two together, and  *)
(* with them that nothing is completed but by a logged approval.           *)
(***************************************************************************)
EXTENDS Governance, FiniteSetTheorems, TLAPS

-----------------------------------------------------------------------------
(* The inductive invariant.                                                *)

Handlers == {"dispatched", "completed", "work", "failed", "approved", "rejected"}
Movers == {"dispatched", "completed", "work", "approved", "rejected", "review", "block"}
              \cup Dispatches
Publishers == {"completed", "work", "failed", "approved", "rejected", "patch"} \cup Dispatches

\* Which kinds of jobs come to which step.
OnRoute(j) ==
    /\ j.step = "check" => j.kind \in EventKinds
    /\ j.step = "create" => j.kind = "created"
    /\ j.step = "get" => j.kind \in Handlers
    /\ j.step = "apply" => j.kind \in {"work", "patch"}
    /\ j.step = "count" => j.kind \in {"work", "failed", "rejected"}
    /\ j.step \in {"read", "write"} => j.kind \in Movers
    /\ j.step = "publish" => j.kind \in Publishers
    /\ j.step = "ack" => j.kind \in EventKinds

\* What has been done for the event of a job by the time it is at its step.
Done(j) ==
    j.kind \in EventKinds =>
        /\ log[j.id].kind = j.kind
        /\ j.step = "ack" => SettledEvent(j.id)
        /\ j.step = "publish" => Effected(j.id)
        /\ j.kind = "rejected" /\ j.step \in {"read", "write"} => j.id \in counted

\* What a job knows about the hash of its task.
Informed(j) ==
    /\ j.kind \in {"work", "failed", "rejected"} /\ j.step \in {"apply", "count", "read"}
           => hash[j.task] # NoTask
    /\ j.step = "write" => CanTransition(j.seen.state, Target[j.kind])

Routed == \A j \in jobs : OnRoute(j)
AllDone == \A j \in jobs : Done(j)
AllInformed == \A j \in jobs : Informed(j)

OneJob == \A j, k \in jobs : j.mgr = k.mgr => j = k

IInv == /\ TypeOK /\ Routed /\ AllInformed
        /\ CountsBounded /\ RlmJustified
        /\ AllDone /\ EffectBeforeAck
        /\ OneJob

-----------------------------------------------------------------------------
(* Helpers.                                                                *)

LEMMA EmptyHash == /\ NoTask \in Hash /\ NewTask \in Hash
                   /\ NoTask.fails = 0 /\ NewTask.fails = 0 /\ NewTask # NoTask
                   /\ NoTask.state = "none" /\ NewTask.state = "pending"
<1>1. "pending" \in States
  BY DEF States, Transitions
<1> QED
  BY <1>1 DEF NoTask, NewTask, Hash

LEMMA TargetState == \A k \in Movers : Target[k] \in States
BY DEF Movers, Dispatches, Target, States, Transitions

LEMMA CanTransitionState ==
    ASSUME NEW s, NEW t, CanTransition(s, t)
    PROVE  s \in States /\ s # "none"
BY DEF CanTransition, States, Transitions

LEMMA FirstStepRoute ==
    ASSUME NEW k \in EventKinds \cup CallKinds
    PROVE  /\ FirstStep(k) \in {"create", "get", "apply", "read"}
           /\ FirstStep(k) = "create" => k = "created"
           /\ FirstStep(k) = "get" => k \in Handlers
           /\ FirstStep(k) = "apply" => k = "patch"
           /\ FirstStep(k) = "read" <=> k \in CallKinds
BY DEF FirstStep, EventKinds, CallKinds, Dispatches, Handlers

LEMMA CallsAreNoEvents == CallKinds \cap EventKinds = {}
BY DEF CallKinds, EventKinds, Dispatches

NewJob(m, k, t, i) ==
    [mgr |-> m, kind |-> k, task |-> t, id |-> i,
     step |-> IF k \in EventKinds THEN "check" ELSE FirstStep(k),
     seen |-> NoTask, count |-> 0]

\* A job that has just begun is on its route, and nothing is done for it yet.
LEMMA NewJobFine ==
    ASSUME NEW m \in Managers, NEW k \in EventKinds \cup CallKinds, NEW t \in Tasks,
           NEW i \in Nat
    PROVE  /\ NewJob(m, k, t, i) \in Job
           /\ OnRoute(NewJob(m, k, t, i))
           /\ NewJob(m, k, t, i).step \in {"check", "read"}
           /\ NewJob(m, k, t, i).step = "read" => k \in CallKinds
<1> DEFINE s == IF k \in EventKinds THEN "check" ELSE FirstStep(k)
           j == [mgr |-> m, kind |-> k, task |-> t, id |-> i, step |-> s,
                 seen |-> NoTask, count |-> 0]
<1>1. \/ s = "check" /\ k \in EventKinds
      \/ s = "read" /\ k \in CallKinds
  BY FirstStepRoute
<1>2. s \in Steps
  BY <1>1 DEF Steps
<1> HIDE DEF s
<1>3. j \in Job
  BY <1>2, EmptyHash DEF Job
<1>4. OnRoute(j)
  BY <1>1 DEF OnRoute, CallKinds, Movers
<1>5. NewJob(m, k, t, i) = j
  BY DEF NewJob, s
<1> QED
  BY <1>1, <1>3, <1>4, <1>5

\* Job j at another step.
At(j, label, seen, n) ==
    [mgr |-> j.mgr, kind |-> j.kind, task |-> j.task, id |-> j.id, step |-> label,
     seen |-> seen, count |-> n]
Same(j, k) == k.mgr = j.mgr /\ k.kind = j.kind /\ k.task = j.task /\ k.id = j.id

LEMMA AtFacts ==
    ASSUME NEW j \in Job, NEW label \in Steps, NEW h \in Hash, NEW n \in Nat
    PROVE  /\ At(j, label, h, n) \in Job
           /\ Same(j, At(j, label, h, n))
           /\ At(j, label, h, n).step = label
           /\ At(j, label, h, n).seen = h
           /\ At(j, label, h, n).count = n
BY DEF At, Same, Job

LEMMA JobParts ==
    ASSUME NEW i \in Job
    PROVE  i.step \in Steps /\ i.seen \in Hash /\ i.count \in Nat
BY DEF Job

LEMMA ExceptOneStep ==
    ASSUME NEW i \in Job, NEW s \in Steps
    PROVE  [i EXCEPT !.step = s] = At(i, s, i.seen, i.count)
BY DEF At, Job

LEMMA ExceptOneSeen ==
    ASSUME NEW i \in Job, NEW h \in Hash
    PROVE  [i EXCEPT !.seen = h] = At(i, i.step, h, i.count)
BY DEF At, Job

LEMMA ExceptOneCount ==
    ASSUME NEW i \in Job, NEW n \in Nat
    PROVE  [i EXCEPT !.count = n] = At(i, i.step, i.seen, n)
BY DEF At, Job

LEMMA ExceptSeen ==
    ASSUME NEW j \in Job, NEW s \in Steps, NEW h \in Hash
    PROVE  [j EXCEPT !.step = s, !.seen = h] = At(j, s, h, j.count)
<1> DEFINE i == At(j, s, j.seen, j.count)
<1>1. i \in Job /\ i.step = s /\ i.count = j.count /\ Same(j, i)
  <2>1. j.seen \in Hash /\ j.count \in Nat
    BY JobParts
  <2> QED
    BY <2>1, AtFacts
<1>2. [j EXCEPT !.step = s, !.seen = h] = [[j EXCEPT !.step = s] EXCEPT !.seen = h]
  OBVIOUS
<1>3. [j EXCEPT !.step = s] = i
  BY ExceptOneStep
<1>4. [i EXCEPT !.seen = h] = At(i, i.step, h, i.count)
  BY ExceptOneSeen, <1>1
<1>5. At(i, i.step, h, i.count) = At(j, s, h, j.count)
  BY <1>1 DEF At, Same
<1> QED
  BY <1>2, <1>3, <1>4, <1>5

LEMMA ExceptCount ==
    ASSUME NEW j \in Job, NEW s \in Steps, NEW n \in Nat
    PROVE  [j EXCEPT !.count = n, !.step = s] = At(j, s, j.seen, n)
<1> DEFINE i == At(j, j.step, j.seen, n)
<1>1. i \in Job /\ i.seen = j.seen /\ i.count = n /\ Same(j, i)
  <2>1. j.step \in Steps /\ j.seen \in Hash
    BY JobParts
  <2> QED
    BY <2>1, AtFacts
<1>2. [j EXCEPT !.count = n, !.step = s] = [[j EXCEPT !.count = n] EXCEPT !.step = s]
  OBVIOUS
<1>3. [j EXCEPT !.count = n] = i
  BY ExceptOneCount
<1>4. [i EXCEPT !.step = s] = At(i, s, i.seen, i.count)
  BY ExceptOneStep, <1>1
<1>5. At(i, s, i.seen, i.count) = At(j, s, j.seen, n)
  BY <1>1 DEF At, Same
<1> QED
  BY <1>2, <1>3, <1>4, <1>5

-----------------------------------------------------------------------------
(* How the jobs change.                                                    *)

\* A step of job j ends it, or takes it to another step of its route.
Continues(j, k) == /\ jobs' = (jobs \ {j}) \cup {k}
                   /\ k \in Job /\ Same(j, k) /\ OnRoute(k)

LEMMA GotoContinues ==
    ASSUME TypeOK, NEW j \in jobs, NEW label \in Steps, Goto(j, label),
           OnRoute(At(j, label, j.seen, j.count))
    PROVE  Continues(j, At(j, label, j.seen, j.count))
<1>1. j \in Job
  BY DEF TypeOK
<1>2. j.seen \in Hash /\ j.count \in Nat
  BY <1>1 DEF Job
<1> QED
  BY <1>1, <1>2, AtFacts, ExceptOneStep DEF Goto, Move, Continues

LEMMA RouteTo ==
    ASSUME NEW j \in Job, NEW label \in Steps, NEW h \in Hash, NEW n \in Nat,
           \/ label = "ack" /\ j.kind \in EventKinds
           \/ label = "publish" /\ j.kind \in Publishers
           \/ label \in {"read", "write"} /\ j.kind \in Movers
           \/ label = "count" /\ j.kind \in {"work", "failed", "rejected"}
           \/ label = "apply" /\ j.kind \in {"work", "patch"}
           \/ label = "create" /\ j.kind = "created"
           \/ label = "get" /\ j.kind \in Handlers
    PROVE  OnRoute(At(j, label, h, n))
<1>1. At(j, label, h, n).step = label /\ At(j, label, h, n).kind = j.kind
  BY AtFacts DEF Same
<1> QED
  BY <1>1 DEF OnRoute

\* The outcome of each step, as a job that follows or as the end of the job.
LEMMA Outcomes ==
    ASSUME TypeOK, Routed, NEW j \in jobs
    PROVE  /\ Check(j) => \E s \in {"ack", "create", "get", "apply"} :
                            /\ Continues(j, At(j, s, j.seen, j.count))
                            /\ s = "apply" => j.kind = "patch"
                            /\ s = "ack" => \E k \in acked : SameKey(j.id, k)
           /\ Create(j) => Continues(j, At(j, "ack", j.seen, j.count))
           /\ Get(j) => \E s \in {"read", "apply", "count", "ack"} :
                            Continues(j, At(j, s, j.seen, j.count))
           /\ Apply(j) => \E s \in {"read", "publish", "count"} :
                            Continues(j, At(j, s, j.seen, j.count))
           /\ Count(j) => LET n == hash[j.task].fails + 1
                              s == IF j.kind = "rejected" THEN "read"
                                   ELSE IF Exceeds(n) THEN "publish" ELSE "ack"
                          IN  Continues(j, At(j, s, j.seen, n))
           /\ Read(j) => \/ jobs' = jobs \ {j}
                         \/ Continues(j, At(j, "write", hash[j.task], j.count))
           /\ Write(j) => \/ jobs' = jobs \ {j}
                          \/ \E s \in {"ack", "publish"} :
                                Continues(j, At(j, s, j.seen, j.count))
           /\ PublishNext(j) => \/ jobs' = jobs \ {j}
                                \/ Continues(j, At(j, "ack", j.seen, j.count))
           /\ Ack(j) \/ Abort(j) => jobs' = jobs \ {j}
           /\ ShaFails(j) => Continues(j, At(j, "count", j.seen, j.count))
<1>1. /\ j \in Job /\ j.task \in Tasks /\ j.kind \in EventKinds \cup CallKinds
      /\ j.seen \in Hash /\ j.count \in Nat /\ hash[j.task] \in Hash
      /\ OnRoute(j)
  BY DEF TypeOK, Job, Routed
<1>0. ASSUME Check(j)
      PROVE  \E s \in {"ack", "create", "get", "apply"} :
                /\ Continues(j, At(j, s, j.seen, j.count))
                /\ s = "apply" => j.kind = "patch"
                /\ s = "ack" => \E k \in acked : SameKey(j.id, k)
  <2>1. j.kind \in EventKinds
    BY <1>1, <1>0 DEF OnRoute, Check
  <2>2. CASE \E k \in acked : SameKey(j.id, k)
    <3>1. Goto(j, "ack") /\ "ack" \in Steps
      BY <1>0, <2>2 DEF Check, Steps
    <3>2. OnRoute(At(j, "ack", j.seen, j.count))
      BY <1>1, <2>1, <3>1, RouteTo
    <3> QED
      BY <2>2, <3>1, <3>2, GotoContinues
  <2>3. CASE ~\E k \in acked : SameKey(j.id, k)
    <3> DEFINE s == FirstStep(j.kind)
    <3>1. Goto(j, s)
      BY <1>0, <2>3 DEF Check
    <3>2. /\ s \in {"create", "get", "apply"} /\ s \in Steps
          /\ s = "create" => j.kind = "created"
          /\ s = "get" => j.kind \in Handlers
          /\ s = "apply" => j.kind = "patch"
      BY <2>1, FirstStepRoute, CallsAreNoEvents DEF Steps
    <3> HIDE DEF s
    <3>3. OnRoute(At(j, s, j.seen, j.count))
      BY <1>1, <3>2, RouteTo
    <3> QED
      BY <3>1, <3>2, <3>3, GotoContinues
  <2> QED
    BY <2>2, <2>3
<1>2. ASSUME Create(j) PROVE Continues(j, At(j, "ack", j.seen, j.count))
  <2>1. j.kind \in EventKinds /\ "ack" \in Steps
    BY <1>1, <1>2 DEF OnRoute, Create, EventKinds, Steps
  <2>2. OnRoute(At(j, "ack", j.seen, j.count))
    BY <1>1, <2>1, RouteTo
  <2> QED
    BY <1>2, <2>1, <2>2, GotoContinues DEF Create
<1>3. ASSUME Get(j)
      PROVE  \E s \in {"read", "apply", "count", "ack"} :
                Continues(j, At(j, s, j.seen, j.count))
  <2>1. j.kind \in Handlers
    BY <1>1, <1>3 DEF OnRoute, Get
  <2>2. \E s \in {"read", "apply", "count", "ack"} :
            /\ Goto(j, s)
            /\ s = "read" => j.kind \in {"dispatched", "completed", "approved"}
            /\ s = "apply" => j.kind = "work"
            /\ s = "count" => j.kind \in {"failed", "rejected"}
    BY <1>3 DEF Get
  <2>3. PICK s \in {"read", "apply", "count", "ack"} :
            /\ Goto(j, s)
            /\ s = "read" => j.kind \in {"dispatched", "completed", "approved"}
            /\ s = "apply" => j.kind = "work"
            /\ s = "count" => j.kind \in {"failed", "rejected"}
    BY <2>2
  <2>4. s \in Steps
    BY DEF Steps
  <2>5. OnRoute(At(j, s, j.seen, j.count))
    BY <1>1, <2>1, <2>3, <2>4, RouteTo DEF Handlers, EventKinds, Movers
  <2> QED
    BY <2>3, <2>4, <2>5, GotoContinues
<1>4. ASSUME Apply(j)
      PROVE  \E s \in {"read", "publish", "count"} :
                Continues(j, At(j, s, j.seen, j.count))
  <2>1. j.kind \in {"work", "patch"}
    BY <1>1, <1>4 DEF OnRoute, Apply
  <2>2. \E s \in {"read", "publish", "count"} :
            Goto(j, s) /\ (s = "publish" <=> j.kind # "work")
    BY <1>4 DEF Apply
  <2>3. PICK s \in {"read", "publish", "count"} :
            Goto(j, s) /\ (s = "publish" <=> j.kind # "work")
    BY <2>2
  <2>4. s \in Steps
    BY DEF Steps
  <2>5. OnRoute(At(j, s, j.seen, j.count))
    BY <1>1, <2>1, <2>3, <2>4, RouteTo DEF Movers, Publishers
  <2> QED
    BY <2>3, <2>4, <2>5, GotoContinues
<1>5. ASSUME Count(j)
      PROVE  LET n == hash[j.task].fails + 1
                 s == IF j.kind = "rejected" THEN "read"
                      ELSE IF Exceeds(n) THEN "publish" ELSE "ack"
             IN  Continues(j, At(j, s, j.seen, n))
  <2> DEFINE n == hash[j.task].fails + 1
             s == IF j.kind = "rejected" THEN "read"
                  ELSE IF Exceeds(n) THEN "publish" ELSE "ack"
  <2>1. j.kind \in {"work", "failed", "rejected"}
    BY <1>1, <1>5 DEF OnRoute, Count
  <2>2. n \in Nat /\ s \in Steps
    BY <1>1 DEF Hash, Steps
  <2>3. OnRoute(At(j, s, j.seen, n))
    BY <1>1, <2>1, <2>2, RouteTo DEF Movers, Publishers, EventKinds
  <2>4. Move(j, At(j, s, j.seen, n))
    <3>1. Move(j, [j EXCEPT !.count = n, !.step = s])
      BY <1>5 DEF Count
    <3> HIDE DEF n, s
    <3>2. [j EXCEPT !.count = n, !.step = s] = At(j, s, j.seen, n)
      BY <1>1, <2>2, ExceptCount
    <3> QED
      BY <3>1, <3>2
  <2> HIDE DEF n, s
  <2>5. Continues(j, At(j, s, j.seen, n))
    BY <1>1, <2>2, <2>3, <2>4, AtFacts DEF Move, Continues
  <2> QED
    BY <2>5 DEF n, s
<1>6. ASSUME Read(j)
      PROVE  \/ jobs' = jobs \ {j}
             \/ Continues(j, At(j, "write", hash[j.task], j.count))
  <2>1. j.kind \in Movers /\ "write" \in Steps
    BY <1>1, <1>6 DEF OnRoute, Read, Steps
  <2>2. OnRoute(At(j, "write", hash[j.task], j.count))
    BY <1>1, <2>1, RouteTo
  <2>3. jobs' = jobs \ {j} \/ Move(j, At(j, "write", hash[j.task], j.count))
    <3>1. \/ jobs' = jobs \ {j}
          \/ Move(j, [j EXCEPT !.step = "write", !.seen = hash[j.task]])
      BY <1>6 DEF Read, Finish
    <3>2. [j EXCEPT !.step = "write", !.seen = hash[j.task]]
              = At(j, "write", hash[j.task], j.count)
      BY <1>1, <2>1, ExceptSeen
    <3> QED
      BY <3>1, <3>2
  <2> QED
    BY <1>1, <2>1, <2>2, <2>3, AtFacts DEF Move, Continues
<1>7. ASSUME Write(j)
      PROVE  \/ jobs' = jobs \ {j}
             \/ \E s \in {"ack", "publish"} : Continues(j, At(j, s, j.seen, j.count))
  <2>1. j.kind \in Movers
    BY <1>1, <1>7 DEF OnRoute, Write
  <2>2. \/ jobs' = jobs \ {j}
        \/ j.kind = "dispatched" /\ Goto(j, "ack")
        \/ j.kind \notin {"review", "block", "dispatched"} /\ Goto(j, "publish")
    BY <1>7 DEF Write, Finish
  <2>3. "ack" \in Steps /\ "publish" \in Steps
    BY DEF Steps
  <2>4. j.kind = "dispatched" => OnRoute(At(j, "ack", j.seen, j.count))
    BY <1>1, <2>3, RouteTo DEF EventKinds
  <2>5. j.kind \notin {"review", "block", "dispatched"} =>
            OnRoute(At(j, "publish", j.seen, j.count))
    BY <1>1, <2>1, <2>3, RouteTo DEF Movers, Publishers
  <2> QED
    BY <2>2, <2>3, <2>4, <2>5, GotoContinues
<1>8. ASSUME PublishNext(j)
      PROVE  \/ jobs' = jobs \ {j}
             \/ Continues(j, At(j, "ack", j.seen, j.count))
  <2>1. \/ jobs' = jobs \ {j}
        \/ j.kind \notin Dispatches /\ Goto(j, "ack")
    BY <1>8 DEF PublishNext, Finish
  <2>2. j.kind \notin Dispatches => j.kind \in EventKinds
    BY <1>1, <1>8 DEF PublishNext, OnRoute, Publishers, EventKinds
  <2>3. "ack" \in Steps
    BY DEF Steps
  <2>4. j.kind \notin Dispatches => OnRoute(At(j, "ack", j.seen, j.count))
    BY <1>1, <2>2, <2>3, RouteTo
  <2> QED
    BY <2>1, <2>3, <2>4, GotoContinues
<1>9. Ack(j) \/ Abort(j) => jobs' = jobs \ {j}
  BY DEF Ack, Abort, Finish
<1>10. ASSUME ShaFails(j) PROVE Continues(j, At(j, "count", j.seen, j.count))
  <2>1. OnRoute(At(j, "count", j.seen, j.count)) /\ "count" \in Steps
    BY <1>1, <1>10, RouteTo DEF ShaFails, Steps
  <2> QED
    BY <1>10, <2>1, GotoContinues DEF ShaFails
<1> QED
  BY <1>0, <1>2, <1>3, <1>4, <1>5, <1>6, <1>7, <1>8, <1>9, <1>10

\* What other steps do to the jobs: a manager without one begins one.
Arrives ==
    \/ jobs' = jobs
    \/ \E m \in Managers, k \in EventKinds \cup CallKinds, t \in Tasks, i \in 0..cursor' :
          /\ jobs' = jobs \cup {NewJob(m, k, t, i)} /\ Free(m)
          /\ k \in EventKinds => i > 0 /\ i \in Ids /\ log[i].kind = k /\ log[i].task = t

LEMMA Arrivals ==
    ASSUME LifecycleAssumption, TypeOK, [Next]_vars, ~\E j \in jobs : Step(j)
    PROVE  Arrives /\ hash' = hash /\ incs' = incs /\ rlm' = rlm /\ acked' = acked
<1>1. /\ log \in Seq(Event) /\ cursor \in 0..Len(log)
      /\ \A i \in Ids : log[i] \in Event /\ log[i].kind \in EventKinds /\ log[i].task \in Tasks
  <2>1. log \in Seq(Event) /\ cursor \in 0..Len(log)
    BY DEF TypeOK
  <2>2. \A i \in Ids : log[i] \in Event
    BY <2>1 DEF Ids
  <2> QED
    BY <2>1, <2>2 DEF Event
<1> DEFINE Rest == hash' = hash /\ incs' = incs /\ rlm' = rlm /\ acked' = acked
<1>2. CASE Publish
  BY <1>2 DEF Publish, Arrives, histVars
<1>3. ASSUME NEW m \in Managers, Take(m) PROVE Arrives /\ Rest
  <2> DEFINE i == cursor + 1
  <2>1. i \in Ids /\ i \in 0..cursor' /\ i > 0
    BY <1>1, <1>3 DEF Take, Ids
  <2>2. jobs' = jobs \cup {NewJob(m, log[i].kind, log[i].task, i)} /\ Free(m)
    BY <1>3 DEF Take, Begin, NewJob
  <2>3. Rest
    BY <1>3 DEF Take, histVars
  <2> HIDE DEF i, Rest
  <2> QED
    BY <1>1, <2>1, <2>2, <2>3 DEF Arrives
<1>4. ASSUME NEW m \in Managers, NEW i \in 1..cursor, Claim(m, i) PROVE Arrives /\ Rest
  <2>1. i \in Ids /\ i \in 0..cursor' /\ i > 0
    BY <1>1, <1>4 DEF Claim, Ids
  <2>2. jobs' = jobs \cup {NewJob(m, log[i].kind, log[i].task, i)} /\ Free(m)
    BY <1>4 DEF Claim, Begin, NewJob
  <2>3. Rest
    BY <1>4 DEF Claim, histVars
  <2> HIDE DEF Rest
  <2> QED
    BY <1>1, <2>1, <2>2, <2>3 DEF Arrives
<1>5. ASSUME NEW m \in Managers, NEW k \in Calls, NEW t \in Tasks, Call(m, k, t)
      PROVE  Arrives /\ Rest
  <2>1. k \in CallKinds /\ k \notin EventKinds
    BY CallsAreNoEvents DEF LifecycleAssumption
  <2>2. jobs' = jobs \cup {NewJob(m, k, t, 0)} /\ Free(m)
    BY <1>5 DEF Call, Begin, NewJob
  <2>3. 0 \in 0..cursor'
    BY <1>1, <1>5 DEF Call
  <2>4. Rest
    BY <1>5 DEF Call, histVars
  <2> HIDE DEF Rest
  <2> QED
    BY <2>1, <2>2, <2>3, <2>4 DEF Arrives
<1>6. CASE UNCHANGED vars
  BY <1>6 DEF vars, histVars, Arrives
<1> QED
  BY <1>2, <1>3, <1>4, <1>5, <1>6 DEF Next

\* What a step does to the jobs, whatever it is.
JobsMove == Arrives \/ \E j \in jobs : jobs' = jobs \ {j} \/ \E k \in Job : Continues(j, k)

LEMMA JobsChange ==
    ASSUME LifecycleAssumption, TypeOK, Routed, [Next]_vars
    PROVE  JobsMove
<1>1. ASSUME NEW j \in jobs, Step(j) PROVE JobsMove
  <2>1. ASSUME NEW k, Continues(j, k) PROVE JobsMove
    BY <2>1 DEF JobsMove, Continues
  <2>2. ASSUME jobs' = jobs \ {j} PROVE JobsMove
    BY <2>2 DEF JobsMove
  <2>3. CASE Check(j) \/ Create(j)
    BY <2>1, <2>3, Outcomes
  <2>4. CASE Get(j)
    BY <2>1, <2>4, Outcomes
  <2>5. CASE Apply(j)
    BY <2>1, <2>5, Outcomes
  <2>6. CASE Count(j)
    BY <2>1, <2>6, Outcomes
  <2>7. CASE Read(j)
    BY <2>1, <2>2, <2>7, Outcomes
  <2>8. CASE Write(j)
    BY <2>1, <2>2, <2>8, Outcomes
  <2>9. CASE PublishNext(j)
    BY <2>1, <2>2, <2>9, Outcomes
  <2>10. CASE Ack(j) \/ Abort(j)
    BY <2>2, <2>10, Outcomes
  <2>11. CASE ShaFails(j)
    BY <2>1, <2>11, Outcomes
  <2> QED
    BY <1>1, <2>3, <2>4, <2>5, <2>6, <2>7, <2>8, <2>9, <2>10, <2>11 DEF Step
<1> QED
  BY <1>1, Arrivals DEF JobsMove

LEMMA RoutedStep ==
    ASSUME LifecycleAssumption, TypeOK, Routed, [Next]_vars
    PROVE  Routed'
<1>1. JobsMove
  BY JobsChange
<1>2. CASE jobs' = jobs
  BY <1>2 DEF Routed, OnRoute
<1>3. ASSUME NEW m \in Managers, NEW k \in EventKinds \cup CallKinds, NEW t \in Tasks,
             NEW i \in 0..cursor', jobs' = jobs \cup {NewJob(m, k, t, i)}
      PROVE  Routed'
  <2>1. i \in Nat
    OBVIOUS
  <2>2. OnRoute(NewJob(m, k, t, i))
    BY <2>1, NewJobFine
  <2> QED
    BY <1>3, <2>2 DEF Routed
<1>4. ASSUME NEW j \in jobs, jobs' = jobs \ {j} \/ \E k \in Job : Continues(j, k)
      PROVE  Routed'
  BY <1>4 DEF Routed, Continues
<1> QED
  BY <1>1, <1>2, <1>3, <1>4 DEF JobsMove, Arrives

LEMMA OneJobStep ==
    ASSUME LifecycleAssumption, TypeOK, Routed, OneJob, [Next]_vars
    PROVE  OneJob'
<1>1. JobsMove
  BY JobsChange
<1>2. CASE jobs' = jobs
  BY <1>2 DEF OneJob
<1>3. ASSUME NEW m \in Managers, NEW k \in EventKinds \cup CallKinds, NEW t \in Tasks,
             NEW i \in 0..cursor', jobs' = jobs \cup {NewJob(m, k, t, i)}, Free(m)
      PROVE  OneJob'
  BY <1>3 DEF OneJob, Free, NewJob
<1>4. ASSUME NEW j \in jobs, jobs' = jobs \ {j} \/ \E k \in Job : Continues(j, k)
      PROVE  OneJob'
  BY <1>4 DEF OneJob, Continues, Same
<1> QED
  BY <1>1, <1>2, <1>3, <1>4 DEF JobsMove, Arrives

LEMMA JobsTyped ==
    ASSUME LifecycleAssumption, TypeOK, Routed, [Next]_vars, cursor' \in Nat, cursor <= cursor'
    PROVE  /\ jobs' \subseteq Job
           /\ \A j \in jobs' : j.id <= cursor' /\ (j.kind \in EventKinds => j.id > 0)
<1>1. JobsMove
  BY JobsChange
<1>2. /\ jobs \subseteq Job /\ cursor \in Nat
      /\ \A j \in jobs : j.id \in Nat /\ j.id <= cursor'
                           /\ (j.kind \in EventKinds => j.id > 0)
  BY DEF TypeOK, Job
<1>3. ASSUME NEW m \in Managers, NEW k \in EventKinds \cup CallKinds, NEW t \in Tasks,
             NEW i \in 0..cursor', jobs' = jobs \cup {NewJob(m, k, t, i)},
             k \in EventKinds => i > 0
      PROVE  /\ jobs' \subseteq Job
             /\ \A j \in jobs' : j.id <= cursor' /\ (j.kind \in EventKinds => j.id > 0)
  <2>1. i \in Nat /\ i <= cursor'
    OBVIOUS
  <2>2. NewJob(m, k, t, i) \in Job
    BY <2>1, NewJobFine
  <2>3. NewJob(m, k, t, i).id = i /\ NewJob(m, k, t, i).kind = k
    BY DEF NewJob
  <2> QED
    BY <1>2, <1>3, <2>1, <2>2, <2>3
<1>4. ASSUME NEW j \in jobs, NEW k \in Job, Continues(j, k)
      PROVE  /\ jobs' \subseteq Job
             /\ \A i \in jobs' : i.id <= cursor' /\ (i.kind \in EventKinds => i.id > 0)
  BY <1>2, <1>4 DEF Continues, Same
<1> QED
  BY <1>1, <1>2, <1>3, <1>4 DEF JobsMove, Arrives

-----------------------------------------------------------------------------
(* What a step does to the rest of the state.                              *)

\* What was done stays done.
Keeps ==
    /\ log' \in Seq(Event) /\ cursor' \in 0..Len(log')
    /\ Len(log) <= Len(log') /\ cursor <= cursor'
    /\ \A i \in Ids : log'[i] = log[i]
    /\ committed \subseteq committed' /\ advanced \subseteq advanced'
    /\ counted \subseteq counted' /\ moot \subseteq moot' /\ acked \subseteq acked'

LEMMA KeepsStep ==
    ASSUME LifecycleAssumption, TypeOK, Routed, [Next]_vars
    PROVE  Keeps
<1>1. log \in Seq(Event) /\ cursor \in 0..Len(log)
  BY DEF TypeOK
<1> DEFINE Same4 == /\ committed \subseteq committed' /\ advanced \subseteq advanced'
                    /\ counted \subseteq counted' /\ moot \subseteq moot'
                    /\ acked \subseteq acked'
<1>2. ASSUME NEW e \in Event, log' = Append(log, e), cursor' = cursor, Same4
      PROVE  Keeps
  <2>1. /\ log' \in Seq(Event) /\ Len(log') = Len(log) + 1
        /\ \A i \in Ids : log'[i] = log[i]
    BY <1>1, <1>2 DEF Ids
  <2>2. /\ Len(log) \in Nat /\ Len(log) <= Len(log')
        /\ cursor' \in 0..Len(log') /\ cursor <= cursor'
    BY <1>1, <1>2, <2>1
  <2> QED
    BY <1>2, <2>1, <2>2 DEF Keeps
<1>3. ASSUME log' = log, cursor' \in {cursor, cursor + 1}, cursor' \in 0..Len(log), Same4
      PROVE  Keeps
  BY <1>1, <1>3 DEF Keeps
<1>4. CASE Publish
  <2>1. PICK t \in Tasks, k \in EventKinds, v \in Variants :
            log' = Append(log, [kind |-> k, task |-> t, variant |-> v])
    BY <1>4 DEF Publish, LifecycleAssumption, EventKinds
  <2>2. [kind |-> k, task |-> t, variant |-> v] \in Event
    BY DEF Event
  <2> QED
    BY <1>2, <1>4, <2>1, <2>2 DEF Publish, histVars
<1>5. ASSUME NEW m \in Managers, Take(m) PROVE Keeps
  BY <1>1, <1>3, <1>5 DEF Take, histVars
<1>6. ASSUME NEW m \in Managers, NEW i \in 1..cursor, Claim(m, i) PROVE Keeps
  BY <1>1, <1>3, <1>6 DEF Claim, histVars
<1>7. ASSUME NEW m \in Managers, NEW k \in Calls, NEW t \in Tasks, Call(m, k, t)
      PROVE  Keeps
  BY <1>1, <1>3, <1>7 DEF Call, histVars
<1>8. ASSUME NEW j \in jobs, PublishNext(j) PROVE Keeps
  <2>1. j.task \in Tasks /\ Dispatched(j.task) \in Event
    BY DEF TypeOK, Job, Dispatched, Event, EventKinds
  <2>2. CASE log' = log
    BY <1>1, <1>3, <1>8, <2>2 DEF PublishNext, histVars
  <2>3. CASE log' = Append(log, Dispatched(j.task))
    BY <1>2, <1>8, <2>1, <2>3 DEF PublishNext, histVars
  <2> QED
    BY <1>8, <2>2, <2>3 DEF PublishNext
<1>9. ASSUME NEW j \in jobs, Step(j), ~PublishNext(j) PROVE Keeps
  BY <1>1, <1>3, <1>9
     DEF Step, Check, Create, Get, Apply, Count, Read, Write, Ack, Abort, ShaFails, histVars
<1>10. CASE UNCHANGED vars
  BY <1>1, <1>3, <1>10 DEF vars, histVars
<1> QED
  BY <1>4, <1>5, <1>6, <1>7, <1>8, <1>9, <1>10 DEF Next, Step

\* A hash is a hash, counts only grow, and no task disappears.
LEMMA HashStep ==
    ASSUME LifecycleAssumption, TypeOK, Routed, [Next]_vars
    PROVE  /\ hash' \in [Tasks -> Hash] /\ incs' \in [Tasks -> Nat]
           /\ \A t \in Tasks : incs[t] <= incs'[t] /\ (hash[t] # NoTask => hash'[t] # NoTask)
<1> DEFINE Result ==
             /\ hash' \in [Tasks -> Hash] /\ incs' \in [Tasks -> Nat]
             /\ \A t \in Tasks : incs[t] <= incs'[t] /\ (hash[t] # NoTask => hash'[t] # NoTask)
<1>1. hash \in [Tasks -> Hash] /\ incs \in [Tasks -> Nat]
  BY DEF TypeOK
<1>2. CASE hash' = hash /\ incs' = incs
  BY <1>1, <1>2
<1>3. ASSUME NEW t \in Tasks, NEW h \in Hash, h # NoTask, hash' = [hash EXCEPT ![t] = h],
             incs' = incs \/ incs' = [incs EXCEPT ![t] = @ + 1]
      PROVE  Result
  <2>1. incs' \in [Tasks -> Nat] /\ \A u \in Tasks : incs[u] <= incs'[u]
    BY <1>1, <1>3
  <2>2. hash' \in [Tasks -> Hash] /\ \A u \in Tasks : hash[u] # NoTask => hash'[u] # NoTask
    BY <1>1, <1>3
  <2> QED
    BY <2>1, <2>2
<1>4. ASSUME NEW j \in jobs
      PROVE  /\ j \in Job /\ j.task \in Tasks /\ j.seen \in Hash /\ hash[j.task] \in Hash
             /\ OnRoute(j)
  BY <1>1 DEF TypeOK, Job, Routed
<1>5. ASSUME NEW j \in jobs, Create(j) PROVE Result
  BY <1>3, <1>4, <1>5, EmptyHash DEF Create, histVars
<1>6. ASSUME NEW j \in jobs, Count(j) PROVE Result
  <2> DEFINE h == [hash[j.task] EXCEPT !.fails = hash[j.task].fails + 1]
  <2>1. h \in Hash /\ h.fails # 0
    BY <1>4 DEF Hash
  <2>2. h # NoTask
    BY <2>1, EmptyHash
  <2>3. /\ hash' = [hash EXCEPT ![j.task] = h]
        /\ incs' = [incs EXCEPT ![j.task] = @ + 1]
    BY <1>1, <1>4, <1>6 DEF Count
  <2> HIDE DEF h
  <2> QED
    BY <1>3, <1>4, <2>1, <2>2, <2>3
<1>7. ASSUME NEW j \in jobs, Write(j) PROVE Result
  <2> DEFINE h == [j.seen EXCEPT !.state = Target[j.kind]]
  <2>1. Target[j.kind] \in States
    BY <1>4, <1>7, TargetState DEF Write, OnRoute
  <2>2. "none" \notin States
    BY DEF States, Transitions
  <2>3. h \in Hash /\ h.state = Target[j.kind]
    BY <1>4, <2>1 DEF Hash
  <2>4. h # NoTask
    BY <2>1, <2>2, <2>3, EmptyHash
  <2>5. hash' = [hash EXCEPT ![j.task] = h] /\ incs' = incs
    BY <1>7 DEF Write
  <2> HIDE DEF h
  <2> QED
    BY <1>3, <1>4, <2>3, <2>4, <2>5
<1>8. ASSUME NEW j \in jobs, Step(j) PROVE Result
  BY <1>2, <1>5, <1>6, <1>7, <1>8
     DEF Step, Check, Get, Apply, Read, PublishNext, Ack, Abort, ShaFails, histVars
<1>9. ASSUME UNCHANGED vars PROVE Result
  BY <1>2, <1>9 DEF vars, histVars
<1>10. ASSUME Publish PROVE Result
  BY <1>2, <1>10 DEF Publish, histVars
<1>11. ASSUME NEW m \in Managers, Take(m) PROVE Result
  BY <1>2, <1>11 DEF Take, histVars
<1>12. ASSUME NEW m \in Managers, NEW i \in 1..cursor, Claim(m, i) PROVE Result
  BY <1>2, <1>12 DEF Claim, histVars
<1>13. ASSUME NEW m \in Managers, NEW k \in Calls, NEW t \in Tasks, Call(m, k, t)
       PROVE  Result
  BY <1>2, <1>13 DEF Call, histVars
<1> HIDE DEF Result
<1>14. Result
  BY <1>8, <1>9, <1>10, <1>11, <1>12, <1>13 DEF Next
<1> QED
  BY <1>14 DEF Result

LEMMA TypeStep ==
    ASSUME LifecycleAssumption, TypeOK, Routed, [Next]_vars
    PROVE  TypeOK'
<1>1. Keeps
  BY KeepsStep
<1>2. hash' \in [Tasks -> Hash] /\ incs' \in [Tasks -> Nat]
  BY HashStep
<1>3. cursor' \in Nat /\ cursor \in Nat
  BY <1>1 DEF Keeps, TypeOK
<1>4. /\ jobs' \subseteq Job
      /\ \A j \in jobs' : j.id <= cursor' /\ (j.kind \in EventKinds => j.id > 0)
  BY <1>1, <1>3, JobsTyped DEF Keeps
<1>5. ASSUME NEW j \in jobs
      PROVE  /\ j.task \in Tasks /\ j.id \in 0..cursor /\ OnRoute(j)
             /\ j.kind \in EventKinds \cup CallKinds
             /\ j.kind \in EventKinds => j.id \in 1..cursor
  BY <1>3 DEF TypeOK, Job, Routed
<1> DEFINE Marks == /\ acked' \subseteq 1..cursor /\ committed' \subseteq 1..cursor
                    /\ counted' \subseteq 1..cursor /\ moot' \subseteq 1..cursor
                    /\ advanced' \subseteq 0..cursor /\ rlm' \subseteq Tasks \X (EventKinds \cup CallKinds)
                    /\ calls' \in Nat /\ aborts' \in Nat /\ claims' \in Nat
<1>6. Marks
  <2>1. /\ acked \subseteq 1..cursor /\ committed \subseteq 1..cursor
        /\ counted \subseteq 1..cursor /\ moot \subseteq 1..cursor
        /\ advanced \subseteq 0..cursor /\ rlm \subseteq Tasks \X (EventKinds \cup CallKinds)
        /\ calls \in Nat /\ aborts \in Nat /\ claims \in Nat
    BY DEF TypeOK
  <2>2. ASSUME NEW j \in jobs, Ack(j) PROVE Marks
    BY <1>5, <2>1, <2>2 DEF Ack, OnRoute, histVars, envVars
  <2>3. ASSUME NEW j \in jobs, Get(j) PROVE Marks
    BY <1>5, <2>1, <2>3 DEF Get, OnRoute, Handlers, EventKinds, envVars
  <2>4. ASSUME NEW j \in jobs, Apply(j) PROVE Marks
    BY <1>5, <2>1, <2>4 DEF Apply, OnRoute, EventKinds, histVars, envVars
  <2>5. ASSUME NEW j \in jobs, Count(j) PROVE Marks
    BY <1>5, <2>1, <2>5 DEF Count, OnRoute, EventKinds, envVars
  <2>6. ASSUME NEW j \in jobs, Write(j) PROVE Marks
    BY <1>5, <2>1, <2>6 DEF Write, envVars
  <2>7. ASSUME NEW j \in jobs, PublishNext(j) PROVE Marks
    BY <1>5, <2>1, <2>7 DEF PublishNext, envVars
  <2>8. ASSUME NEW j \in jobs, Check(j) \/ Create(j) \/ Read(j) \/ Abort(j) \/ ShaFails(j) PROVE Marks
    BY <2>1, <2>8 DEF Check, Create, Read, Abort, ShaFails, histVars, envVars
  <2>9. ASSUME NEW m \in Managers, Take(m) PROVE Marks
    BY <2>1, <2>9 DEF Take, histVars, envVars
  <2>10. ASSUME NEW m \in Managers, NEW i \in 1..cursor, Claim(m, i) PROVE Marks
    BY <2>1, <2>10 DEF Claim, histVars
  <2>11. ASSUME NEW m \in Managers, NEW k \in Calls, NEW t \in Tasks, Call(m, k, t)
         PROVE  Marks
    BY <2>1, <2>11 DEF Call, histVars
  <2>12. CASE Publish \/ UNCHANGED vars
    BY <2>1, <2>12 DEF Publish, vars, histVars, envVars
  <2> HIDE DEF Marks
  <2> QED
    BY <2>2, <2>3, <2>4, <2>5, <2>6, <2>7, <2>8, <2>9, <2>10, <2>11, <2>12 DEF Next, Step
<1>7. 1..cursor \subseteq 1..cursor' /\ 0..cursor \subseteq 0..cursor'
  BY <1>1, <1>3 DEF Keeps
<1>8. /\ acked' \subseteq 1..cursor' /\ committed' \subseteq 1..cursor'
      /\ counted' \subseteq 1..cursor' /\ moot' \subseteq 1..cursor'
      /\ advanced' \subseteq 0..cursor' /\ rlm' \subseteq Tasks \X (EventKinds \cup CallKinds)
      /\ calls' \in Nat /\ aborts' \in Nat /\ claims' \in Nat
  BY <1>6, <1>7
<1> HIDE DEF Marks
<1> QED
  BY <1>1, <1>2, <1>4, <1>8 DEF TypeOK, Keeps

-----------------------------------------------------------------------------
(* The counts: no copy of fail_count runs ahead of the increments.         *)

LEMMA HashBounded ==
    ASSUME LifecycleAssumption, TypeOK, Routed, CountsBounded, [Next]_vars
    PROVE  \A t \in Tasks : hash'[t].fails <= incs'[t]
<1> DEFINE Result == \A t \in Tasks : hash'[t].fails <= incs'[t]
<1>1. /\ hash \in [Tasks -> Hash] /\ incs \in [Tasks -> Nat]
      /\ \A t \in Tasks : hash[t].fails \in Nat /\ hash[t].fails <= incs[t]
  BY DEF TypeOK, Hash, CountsBounded
<1>2. ASSUME hash' = hash, incs' = incs PROVE Result
  BY <1>1, <1>2
<1>3. ASSUME NEW j \in jobs
      PROVE  /\ j.task \in Tasks /\ j.seen \in Hash /\ j.seen.fails \in Nat
             /\ j.seen.fails <= incs[j.task] /\ hash[j.task] \in Hash
  BY <1>1 DEF TypeOK, Job, Hash, CountsBounded
<1>4. ASSUME NEW j \in jobs, Create(j) PROVE Result
  BY <1>1, <1>3, <1>4, EmptyHash DEF Create, histVars
<1>5. ASSUME NEW j \in jobs, Count(j) PROVE Result
  <2> DEFINE h == [hash[j.task] EXCEPT !.fails = hash[j.task].fails + 1]
  <2>1. h.fails = hash[j.task].fails + 1
    BY <1>3 DEF Hash
  <2>2. hash' = [hash EXCEPT ![j.task] = h] /\ incs' = [incs EXCEPT ![j.task] = @ + 1]
    BY <1>1, <1>3, <1>5 DEF Count
  <2> HIDE DEF h
  <2> QED
    BY <1>1, <1>3, <2>1, <2>2
<1>6. ASSUME NEW j \in jobs, Write(j) PROVE Result
  <2> DEFINE h == [j.seen EXCEPT !.state = Target[j.kind]]
  <2>1. h.fails = j.seen.fails
    BY <1>3 DEF Hash
  <2>2. hash' = [hash EXCEPT ![j.task] = h] /\ incs' = incs
    BY <1>6 DEF Write
  <2> HIDE DEF h
  <2> QED
    BY <1>1, <1>3, <2>1, <2>2
<1>7. ASSUME NEW j \in jobs, Step(j) PROVE Result
  BY <1>2, <1>4, <1>5, <1>6, <1>7
     DEF Step, Check, Get, Apply, Read, PublishNext, Ack, Abort, ShaFails, histVars
<1>8. ASSUME NEW m \in Managers, Take(m) PROVE Result
  BY <1>2, <1>8 DEF Take, histVars
<1>9. ASSUME NEW m \in Managers, NEW i \in 1..cursor, Claim(m, i) PROVE Result
  BY <1>2, <1>9 DEF Claim, histVars
<1>10. ASSUME NEW m \in Managers, NEW k \in Calls, NEW t \in Tasks, Call(m, k, t)
       PROVE  Result
  BY <1>2, <1>10 DEF Call, histVars
<1>11. ASSUME Publish \/ UNCHANGED vars PROVE Result
  BY <1>2, <1>11 DEF Publish, vars, histVars
<1> HIDE DEF Result
<1>12. Result
  BY <1>7, <1>8, <1>9, <1>10, <1>11 DEF Next
<1> QED
  BY <1>12 DEF Result

LEMMA CopiesBounded ==
    ASSUME LifecycleAssumption, TypeOK, Routed, CountsBounded, [Next]_vars
    PROVE  \A j \in jobs' : j.seen.fails <= incs'[j.task] /\ j.count <= incs'[j.task]
<1> DEFINE Within(j) == j.seen.fails <= incs'[j.task] /\ j.count <= incs'[j.task]
<1>1. /\ incs \in [Tasks -> Nat] /\ incs' \in [Tasks -> Nat]
      /\ \A t \in Tasks : incs[t] <= incs'[t]
  BY HashStep DEF TypeOK
<1>2. ASSUME NEW j \in jobs
      PROVE  /\ j \in Job /\ j.task \in Tasks /\ j.seen \in Hash /\ j.seen.fails \in Nat
             /\ j.count \in Nat /\ hash[j.task] \in Hash /\ hash[j.task].fails \in Nat
             /\ hash[j.task].fails <= incs[j.task]
             /\ j.seen.fails <= incs[j.task] /\ j.count <= incs[j.task]
  BY DEF TypeOK, Job, Hash, CountsBounded
<1>3. ASSUME NEW j \in jobs PROVE Within(j)
  BY <1>1, <1>2
<1>4. ASSUME NEW j \in jobs, NEW s \in Steps, NEW h \in Hash, NEW n \in Nat,
             h.fails <= incs'[j.task], n <= incs'[j.task],
             Continues(j, At(j, s, h, n))
      PROVE  \A k \in jobs' : Within(k)
  <2>1. Within(At(j, s, h, n))
    BY <1>2, <1>4, AtFacts DEF Same
  <2> HIDE DEF Within
  <2> QED
    BY <1>3, <1>4, <2>1 DEF Continues
<1>5. ASSUME jobs' \subseteq jobs PROVE \A k \in jobs' : Within(k)
  BY <1>3, <1>5
<1>6. ASSUME NEW m, NEW k, NEW t \in Tasks, NEW i, jobs' = jobs \cup {NewJob(m, k, t, i)}
      PROVE  \A j \in jobs' : Within(j)
  <2>1. Within(NewJob(m, k, t, i))
    BY <1>1, EmptyHash DEF NewJob
  <2> HIDE DEF Within
  <2> QED
    BY <1>3, <1>6, <2>1
<1>7. ASSUME NEW j \in jobs, NEW s \in Steps, Continues(j, At(j, s, j.seen, j.count))
      PROVE  \A k \in jobs' : Within(k)
  <2>1. j.seen.fails <= incs'[j.task] /\ j.count <= incs'[j.task]
    BY <1>3
  <2> HIDE DEF Within
  <2> QED
    BY <1>2, <1>4, <1>7, <2>1
<1>8. ASSUME NEW j \in jobs, Count(j) PROVE \A k \in jobs' : Within(k)
  <2> DEFINE n == hash[j.task].fails + 1
             s == IF j.kind = "rejected" THEN "read"
                  ELSE IF Exceeds(n) THEN "publish" ELSE "ack"
  <2>1. Continues(j, At(j, s, j.seen, n)) /\ s \in Steps
    BY <1>8, Outcomes DEF Steps
  <2>2. n \in Nat /\ n <= incs'[j.task]
    BY <1>1, <1>2, <1>8 DEF Count
  <2>3. j.seen.fails <= incs'[j.task]
    BY <1>3
  <2> HIDE DEF n, s, Within
  <2> QED
    BY <1>2, <1>4, <2>1, <2>2, <2>3
<1>9. ASSUME NEW j \in jobs, Read(j) PROVE \A k \in jobs' : Within(k)
  <2>1. \/ jobs' = jobs \ {j}
        \/ Continues(j, At(j, "write", hash[j.task], j.count))
    BY <1>9, Outcomes
  <2>2. hash[j.task].fails <= incs'[j.task] /\ "write" \in Steps
    BY <1>1, <1>2 DEF Steps
  <2>3. j.count <= incs'[j.task]
    BY <1>3
  <2> HIDE DEF Within
  <2> QED
    BY <1>2, <1>4, <1>5, <2>1, <2>2, <2>3
<1>10. {"create", "get", "read", "apply", "count", "ack", "publish"} \subseteq Steps
  BY DEF Steps
<1> HIDE DEF Within
<1>11. ASSUME NEW j \in jobs, Step(j) PROVE \A k \in jobs' : Within(k)
  <2>1. CASE Check(j) \/ Create(j) \/ Get(j) \/ Apply(j) \/ ShaFails(j)
    BY <1>7, <1>10, <2>1, Outcomes
  <2>2. CASE Write(j) \/ PublishNext(j) \/ Ack(j) \/ Abort(j)
    BY <1>5, <1>7, <1>10, <2>2, Outcomes
  <2> QED
    BY <1>8, <1>9, <1>11, <2>1, <2>2 DEF Step
<1>12. ASSUME ~\E j \in jobs : Step(j) PROVE \A k \in jobs' : Within(k)
  <2>1. CASE \E m \in Managers, k \in EventKinds \cup CallKinds, t \in Tasks, i \in 0..cursor' :
                jobs' = jobs \cup {NewJob(m, k, t, i)}
    BY <1>6, <2>1
  <2>2. CASE jobs' \subseteq jobs
    BY <1>5, <2>2
  <2>3. \/ jobs' = jobs
        \/ \E m \in Managers, k \in EventKinds \cup CallKinds, t \in Tasks, i \in 0..cursor' :
                jobs' = jobs \cup {NewJob(m, k, t, i)}
    BY <1>12, Arrivals DEF Arrives
  <2> QED
    BY <2>1, <2>2, <2>3
<1>13. \A k \in jobs' : Within(k)
  BY <1>11, <1>12
<1> QED
  BY <1>13 DEF Within

LEMMA CountsStep ==
    ASSUME LifecycleAssumption, TypeOK, Routed, CountsBounded, [Next]_vars
    PROVE  CountsBounded'
BY HashBounded, CopiesBounded DEF CountsBounded

LEMMA RlmStep ==
    ASSUME LifecycleAssumption, TypeOK, Routed, CountsBounded, RlmJustified, [Next]_vars
    PROVE  RlmJustified'
<1>1. /\ incs \in [Tasks -> Nat] /\ incs' \in [Tasks -> Nat] /\ Threshold \in Nat
      /\ \A t \in Tasks : incs[t] <= incs'[t]
      /\ \A p \in rlm : p[1] \in Tasks
  BY HashStep DEF TypeOK, LifecycleAssumption
<1>2. \A p \in rlm : p[2] = "dispatch_rlm" \/ incs'[p[1]] > Threshold
  BY <1>1 DEF RlmJustified
<1>3. ASSUME rlm' = rlm PROVE RlmJustified'
  BY <1>2, <1>3 DEF RlmJustified
<1>4. ASSUME NEW j \in jobs, PublishNext(j) PROVE RlmJustified'
  <2>1. j.task \in Tasks /\ j.count \in Nat /\ j.count <= incs[j.task]
    BY DEF TypeOK, Job, CountsBounded
  <2>2. rlm' = rlm \/ (StartsRlm(j) /\ rlm' = rlm \cup {<<j.task, j.kind>>})
    BY <1>4 DEF PublishNext
  <2>3. StartsRlm(j) => j.kind = "dispatch_rlm" \/ incs'[j.task] > Threshold
    BY <1>1, <2>1 DEF StartsRlm, Exceeds
  <2> QED
    BY <1>2, <2>2, <2>3 DEF RlmJustified
<1>5. ASSUME NEW j \in jobs, Step(j) PROVE RlmJustified'
  BY <1>3, <1>4, <1>5
     DEF Step, Check, Create, Get, Apply, Count, Read, Write, Ack, Abort, ShaFails, histVars
<1> QED
  BY <1>3, <1>5, Arrivals

-----------------------------------------------------------------------------
(* What the jobs know.                                                     *)

LEMMA InformedStep ==
    ASSUME LifecycleAssumption, TypeOK, Routed, AllInformed, [Next]_vars
    PROVE  AllInformed'
<1>1. ASSUME NEW j \in jobs
      PROVE  /\ j \in Job /\ j.task \in Tasks /\ j.seen \in Hash /\ j.count \in Nat
             /\ hash[j.task] \in Hash /\ hash[j.task].fails + 1 \in Nat
             /\ OnRoute(j) /\ Informed(j)
             /\ hash[j.task] # NoTask => hash'[j.task] # NoTask
  <2>1. j \in Job /\ OnRoute(j) /\ Informed(j) /\ hash \in [Tasks -> Hash]
    BY DEF TypeOK, Routed, AllInformed
  <2>2. j.task \in Tasks /\ j.seen \in Hash /\ j.count \in Nat
    BY <2>1 DEF Job
  <2>3. hash[j.task] \in Hash /\ hash[j.task].fails + 1 \in Nat
    BY <2>1, <2>2 DEF Hash
  <2>4. hash[j.task] # NoTask => hash'[j.task] # NoTask
    BY <2>2, HashStep
  <2> QED
    BY <2>1, <2>2, <2>3, <2>4
<1>2. ASSUME NEW j \in jobs PROVE Informed(j)'
  BY <1>1 DEF Informed
<1>3. ASSUME jobs' \subseteq jobs PROVE AllInformed'
  BY <1>2, <1>3 DEF AllInformed
<1>4. ASSUME NEW j \in jobs, NEW k, Continues(j, k), Informed(k)' PROVE AllInformed'
  BY <1>2, <1>4 DEF AllInformed, Continues
<1>5. ASSUME NEW j \in jobs, NEW s \in Steps, NEW h \in Hash, NEW n \in Nat,
             Continues(j, At(j, s, h, n)),
             \/ s \in {"ack", "publish", "create", "get"}
             \/ s = "apply" /\ j.kind = "patch"
             \/ s \in {"apply", "count", "read"}
                    /\ (j.kind \in {"work", "failed", "rejected"} => hash'[j.task] # NoTask)
             \/ s = "write" /\ CanTransition(h.state, Target[j.kind])
      PROVE  AllInformed'
  <2> DEFINE k == At(j, s, h, n)
  <2>1. k.step = s /\ k.seen = h /\ k.kind = j.kind /\ k.task = j.task
    BY <1>1, AtFacts DEF Same
  <2> HIDE DEF k
  <2>2. Informed(k)'
    BY <1>5, <2>1 DEF Informed
  <2>3. Continues(j, k)
    BY <1>5 DEF k
  <2> QED
    BY <1>4, <2>2, <2>3
<1>6. {"create", "get", "read", "apply", "count", "ack", "publish", "write"} \subseteq Steps
  BY DEF Steps
<1>7. ASSUME NEW j \in jobs, Get(j) PROVE AllInformed'
  <2>1. PICK s \in {"read", "apply", "count", "ack"} : Continues(j, At(j, s, j.seen, j.count))
    BY <1>7, Outcomes
  <2>2. hash[j.task] # NoTask \/ Continues(j, At(j, "ack", j.seen, j.count))
    <3>1. hash[j.task].state = "blocked_hitl" => hash[j.task] # NoTask
      BY EmptyHash
    <3>2. hash[j.task] # NoTask \/ Goto(j, "ack")
      BY <1>7, <3>1 DEF Get
    <3>3. j.kind \in EventKinds
      BY <1>1, <1>7 DEF Get, OnRoute, Handlers, EventKinds
    <3> QED
      BY <1>1, <1>6, <3>2, <3>3, RouteTo, GotoContinues
  <2>3. s \in Steps
    BY <1>6
  <2> QED
    BY <1>1, <1>5, <1>6, <2>1, <2>2, <2>3
<1>8. ASSUME NEW j \in jobs, Apply(j) PROVE AllInformed'
  <2>1. PICK s \in {"read", "publish", "count"} : Continues(j, At(j, s, j.seen, j.count))
    BY <1>8, Outcomes
  <2>2. j.kind \in {"work", "failed", "rejected"} => hash'[j.task] # NoTask
    BY <1>1, <1>8 DEF Informed, Apply
  <2>3. s \in Steps
    BY <1>6
  <2> QED
    BY <1>1, <1>5, <2>1, <2>2, <2>3
<1>9. ASSUME NEW j \in jobs, Count(j) PROVE AllInformed'
  <2> DEFINE n == hash[j.task].fails + 1
             s == IF j.kind = "rejected" THEN "read"
                  ELSE IF Exceeds(n) THEN "publish" ELSE "ack"
  <2>1. Continues(j, At(j, s, j.seen, n)) /\ s \in {"read", "publish", "ack"}
    BY <1>9, Outcomes
  <2>2. j.kind \in {"work", "failed", "rejected"} => hash'[j.task] # NoTask
    BY <1>1, <1>9 DEF Informed, Count
  <2>3. s \in Steps /\ n \in Nat
    BY <1>1, <1>6, <2>1
  <2> HIDE DEF n, s
  <2> QED
    BY <1>1, <1>5, <2>1, <2>2, <2>3
<1>10. ASSUME NEW j \in jobs, Read(j) PROVE AllInformed'
  <2>1. CanTransition(hash[j.task].state, Target[j.kind]) \/ jobs' = jobs \ {j}
    BY <1>10 DEF Read, Finish
  <2>2. \/ jobs' = jobs \ {j}
        \/ Continues(j, At(j, "write", hash[j.task], j.count))
    BY <1>10, Outcomes
  <2> QED
    BY <1>1, <1>3, <1>5, <1>6, <2>1, <2>2
<1>11. ASSUME NEW j \in jobs, ShaFails(j) PROVE AllInformed'
  <2>1. Continues(j, At(j, "count", j.seen, j.count))
    BY <1>11, Outcomes
  <2>2. j.kind \in {"work", "failed", "rejected"} => hash'[j.task] # NoTask
    BY <1>1, <1>11 DEF Informed, ShaFails
  <2> QED
    BY <1>1, <1>5, <1>6, <2>1, <2>2
<1>12. ASSUME NEW j \in jobs, Check(j) PROVE AllInformed'
  <2>1. PICK s \in {"ack", "create", "get", "apply"} :
            Continues(j, At(j, s, j.seen, j.count)) /\ (s = "apply" => j.kind = "patch")
    BY <1>12, Outcomes
  <2>2. s \in Steps
    BY <1>6
  <2> QED
    BY <1>1, <1>5, <2>1, <2>2
<1>13. ASSUME NEW j \in jobs, Step(j) PROVE AllInformed'
  <2>1. CASE Create(j) \/ Write(j) \/ PublishNext(j) \/ Ack(j) \/ Abort(j)
    BY <1>1, <1>3, <1>5, <1>6, <2>1, Outcomes
  <2> QED
    BY <1>7, <1>8, <1>9, <1>10, <1>11, <1>13, <1>12, <2>1 DEF Step
<1>14. ASSUME NEW m \in Managers, NEW k \in EventKinds \cup CallKinds, NEW t \in Tasks,
              NEW i \in 0..cursor', jobs' = jobs \cup {NewJob(m, k, t, i)}
       PROVE  AllInformed'
  <2> DEFINE new == NewJob(m, k, t, i)
  <2>1. /\ new.step \in {"check", "read"} /\ new.kind = k
        /\ new.step = "read" => k \in CallKinds
    <3>1. i \in Nat
      OBVIOUS
    <3> QED
      BY <3>1, NewJobFine DEF NewJob
  <2> HIDE DEF new
  <2>2. Informed(new)'
    BY <2>1 DEF Informed, CallKinds, Dispatches
  <2>3. jobs' = jobs \cup {new}
    BY <1>14 DEF new
  <2> QED
    BY <1>2, <2>2, <2>3 DEF AllInformed
<1> QED
  BY <1>3, <1>13, <1>14, Arrivals DEF Arrives

-----------------------------------------------------------------------------
(* Effects before acknowledgements.                                        *)

LEMMA EffectedStays ==
    ASSUME Keeps, NEW i \in Ids
    PROVE  /\ Effected(i) => Effected(i)'
           /\ Dealt(i) => Dealt(i)'
<1>1. Effected(i) => Effected(i)'
  BY DEF Keeps, Effected
<1> QED
  BY <1>1 DEF Keeps, Dealt

LEMMA SettledStays ==
    ASSUME Keeps, acked \subseteq Ids, NEW i \in Ids, SettledEvent(i)
    PROVE  SettledEvent(i)'
<1>1. CASE Dealt(i)
  BY <1>1, EffectedStays DEF SettledEvent
<1>2. ASSUME NEW k \in acked, SameKey(i, k), Dealt(k) PROVE SettledEvent(i)'
  <2>1. k \in Ids /\ k \in acked' /\ log'[k] = log[k] /\ log'[i] = log[i]
    BY <1>2 DEF Keeps
  <2>2. SameKey(i, k)'
    BY <1>2, <2>1 DEF SameKey
  <2>3. Dealt(k)'
    BY <1>2, <2>1, EffectedStays
  <2> QED
    BY <2>1, <2>2, <2>3 DEF SettledEvent
<1> QED
  BY <1>1, <1>2 DEF SettledEvent

(* An event with the key of one that is settled is settled too.            *)
LEMMA SkippedIsSettled ==
    ASSUME EffectBeforeAck, NEW i, NEW k \in acked, SameKey(i, k)
    PROVE  SettledEvent(i)
BY DEF EffectBeforeAck, SettledEvent, SameKey

LEMMA DoneStep ==
    ASSUME LifecycleAssumption, TypeOK, Routed, AllDone, EffectBeforeAck, [Next]_vars
    PROVE  AllDone'
<1>1. Keeps /\ acked \subseteq Ids
  <2>1. acked \subseteq 1..cursor /\ cursor \in 0..Len(log) /\ log \in Seq(Event)
    BY DEF TypeOK
  <2> QED
    BY <2>1, KeepsStep DEF Ids
<1>2. ASSUME NEW j \in jobs
      PROVE  /\ j \in Job /\ j.seen \in Hash /\ j.count \in Nat
             /\ hash[j.task] \in Hash /\ hash[j.task].fails + 1 \in Nat
             /\ OnRoute(j) /\ Done(j)
             /\ j.kind \in EventKinds =>
                    j.id \in Ids /\ log'[j.id] = log[j.id] /\ log[j.id].kind = j.kind
  <2>1. /\ j \in Job /\ j.id \in Nat /\ j.id <= cursor /\ cursor \in 0..Len(log)
        /\ log \in Seq(Event) /\ (j.kind \in EventKinds => j.id > 0)
        /\ hash[j.task] \in Hash
    BY DEF TypeOK, Job
  <2>2. j.kind \in EventKinds => j.id \in Ids
    BY <2>1 DEF Ids
  <2>3. j.seen \in Hash /\ j.count \in Nat
    BY <2>1 DEF Job
  <2>4. hash[j.task].fails + 1 \in Nat
    BY <2>1 DEF Hash
  <2>5. OnRoute(j) /\ Done(j)
    BY DEF Routed, AllDone
  <2>6. j.kind \in EventKinds => log'[j.id] = log[j.id] /\ log[j.id].kind = j.kind
    BY <1>1, <2>2, <2>5 DEF Keeps, Done
  <2> QED
    BY <2>1, <2>2, <2>3, <2>4, <2>5, <2>6
<1>3. ASSUME NEW j \in jobs PROVE Done(j)'
  BY <1>1, <1>2, EffectedStays, SettledStays DEF Done, Keeps
<1>4. ASSUME jobs' \subseteq jobs PROVE AllDone'
  BY <1>3, <1>4 DEF AllDone
<1>5. ASSUME NEW j \in jobs, NEW s \in Steps, NEW h \in Hash, NEW n \in Nat,
             Continues(j, At(j, s, h, n)),
             \/ s \in {"create", "get", "apply", "count"}
             \/ s \in {"read", "write"} /\ (j.kind = "rejected" => j.id \in counted')
             \/ s = "publish" /\ (j.kind \in EventKinds => Effected(j.id)')
             \/ s = "ack" /\ (j.id \in moot' \/ Effected(j.id)' \/ SettledEvent(j.id)')
      PROVE  AllDone'
  <2> DEFINE k == At(j, s, h, n)
  <2>1. k.step = s /\ k.kind = j.kind /\ k.id = j.id
    BY <1>2, AtFacts DEF Same
  <2>2. Continues(j, k)
    BY <1>5
  <2> HIDE DEF k
  <2>3. Done(k)'
    BY <1>2, <1>5, <2>1 DEF Done, SettledEvent, Dealt
  <2> QED
    BY <1>3, <2>2, <2>3 DEF AllDone, Continues
<1>6. {"create", "get", "read", "apply", "count", "ack", "publish", "write"} \subseteq Steps
  BY DEF Steps
<1>7. ASSUME NEW j \in jobs, Create(j) PROVE AllDone'
  <2>1. j.kind = "created"
    BY <1>2, <1>7 DEF OnRoute, Create
  <2>2. Effected(j.id)'
    BY <1>2, <2>1 DEF Effected, EventKinds
  <2> QED
    BY <1>2, <1>5, <1>6, <1>7, <2>2, Outcomes
<1>8. ASSUME NEW j \in jobs, Get(j) PROVE AllDone'
  <2>1. j.kind \in Handlers
    BY <1>2, <1>8 DEF OnRoute, Get
  <2>2. \E s \in {"read", "apply", "count", "ack"} :
           /\ Goto(j, s)
           /\ s = "read" => j.kind # "rejected"
           /\ s = "apply" => j.kind = "work"
           /\ s = "count" => j.kind \in {"failed", "rejected"}
           /\ s = "ack" => j.id \in moot'
           /\ s = "read" => j.kind \in Movers
    BY <1>8 DEF Get, Movers
  <2>3. PICK s \in {"read", "apply", "count", "ack"} :
           /\ Goto(j, s)
           /\ s = "read" => j.kind # "rejected"
           /\ s = "apply" => j.kind = "work"
           /\ s = "count" => j.kind \in {"failed", "rejected"}
           /\ s = "ack" => j.id \in moot'
           /\ s = "read" => j.kind \in Movers
    BY <2>2
  <2>4. s \in Steps /\ j.kind \in EventKinds
    BY <1>6, <2>1 DEF Handlers, EventKinds
  <2>5. OnRoute(At(j, s, j.seen, j.count))
    BY <1>2, <2>1, <2>3, <2>4, RouteTo
  <2>6. Continues(j, At(j, s, j.seen, j.count))
    BY <2>3, <2>4, <2>5, GotoContinues
  <2> QED
    BY <1>2, <1>5, <2>3, <2>4, <2>6
<1>9. ASSUME NEW j \in jobs, Apply(j) PROVE AllDone'
  <2>1. j.kind \in {"work", "patch"} /\ j.kind \in EventKinds
    BY <1>2, <1>9 DEF OnRoute, Apply, EventKinds
  <2>2. \E s \in {"read", "publish", "count"} :
            Goto(j, s) /\ (s = "publish" <=> j.kind # "work")
    BY <1>9 DEF Apply
  <2>3. PICK s \in {"read", "publish", "count"} :
            Goto(j, s) /\ (s = "publish" <=> j.kind # "work")
    BY <2>2
  <2>4. s \in Steps
    BY <1>6
  <2>5. OnRoute(At(j, s, j.seen, j.count))
    BY <1>2, <2>1, <2>3, <2>4, RouteTo DEF Movers, Publishers
  <2>6. Continues(j, At(j, s, j.seen, j.count))
    BY <2>3, <2>4, <2>5, GotoContinues
  <2>7. j.kind = "patch" => Effected(j.id)'
    BY <1>2 DEF Effected, EventKinds
  <2> QED
    BY <1>2, <1>5, <2>1, <2>3, <2>4, <2>6, <2>7
<1>10. ASSUME NEW j \in jobs, Count(j) PROVE AllDone'
  <2> DEFINE n == hash[j.task].fails + 1
             s == IF j.kind = "rejected" THEN "read"
                  ELSE IF Exceeds(n) THEN "publish" ELSE "ack"
  <2>1. Continues(j, At(j, s, j.seen, n)) /\ s \in {"read", "publish", "ack"}
    BY <1>10, Outcomes
  <2>2. /\ j.kind \in {"work", "failed", "rejected"} /\ j.id \in counted'
        /\ s = "read" <=> j.kind = "rejected"
    BY <1>2, <1>10 DEF OnRoute, Count
  <2>3. j.kind # "rejected" => Effected(j.id)'
    BY <1>2, <2>2 DEF Effected, EventKinds
  <2>4. s \in Steps /\ n \in Nat
    BY <1>2, <1>6, <2>1
  <2> HIDE DEF n, s
  <2> QED
    BY <1>2, <1>5, <2>1, <2>2, <2>3, <2>4
<1>11. ASSUME NEW j \in jobs, Read(j) PROVE AllDone'
  <2>1. j.kind = "rejected" => j.id \in counted'
    BY <1>1, <1>2, <1>11 DEF Done, Read, Keeps, EventKinds
  <2>2. \/ jobs' = jobs \ {j}
        \/ Continues(j, At(j, "write", hash[j.task], j.count))
    BY <1>11, Outcomes
  <2> QED
    BY <1>2, <1>4, <1>5, <1>6, <2>1, <2>2
<1>12. ASSUME NEW j \in jobs, Write(j) PROVE AllDone'
  <2>1. \/ jobs' = jobs \ {j}
        \/ \E s \in {"ack", "publish"} : Continues(j, At(j, s, j.seen, j.count))
    BY <1>12, Outcomes
  <2>2. j.kind \in Movers /\ j.id \in advanced'
    BY <1>2, <1>12 DEF OnRoute, Write
  <2>3. j.kind = "rejected" => j.id \in counted'
    BY <1>1, <1>2, <1>12 DEF Done, Write, Keeps, EventKinds
  <2>4. j.kind \in EventKinds => Effected(j.id)'
    BY <1>2, <2>2, <2>3 DEF Effected, EventKinds, Movers, Dispatches
  <2>5. jobs' = jobs \ {j} \/ j.kind \in EventKinds \/ Continues(j, At(j, "publish", j.seen, j.count))
    <3>1. \/ jobs' = jobs \ {j} \/ j.kind \in EventKinds
          \/ j.kind \in Dispatches /\ Goto(j, "publish")
      BY <1>12, <2>2 DEF Write, Finish, Movers, EventKinds
    <3> QED
      BY <1>2, <1>6, <3>1, RouteTo, GotoContinues DEF Publishers
  <2> QED
    BY <1>2, <1>4, <1>5, <1>6, <2>1, <2>4, <2>5
<1>13. ASSUME NEW j \in jobs, PublishNext(j) PROVE AllDone'
  <2>1. jobs' = jobs \ {j} \/ Continues(j, At(j, "ack", j.seen, j.count))
    BY <1>13, Outcomes
  <2>2. jobs' = jobs \ {j} \/ j.kind \notin Dispatches
    BY <1>13 DEF PublishNext, Finish
  <2>3. j.kind \notin Dispatches => j.kind \in EventKinds
    BY <1>2, <1>13 DEF PublishNext, OnRoute, Publishers, EventKinds
  <2>4. j.kind \in EventKinds => Effected(j.id)'
    BY <1>1, <1>2, <1>13, EffectedStays DEF Done, PublishNext
  <2> QED
    BY <1>2, <1>4, <1>5, <1>6, <2>1, <2>2, <2>3, <2>4
<1>14. ASSUME NEW j \in jobs, Check(j) PROVE AllDone'
  <2>1. PICK s \in {"ack", "create", "get", "apply"} :
            /\ Continues(j, At(j, s, j.seen, j.count))
            /\ s = "ack" => \E k \in acked : SameKey(j.id, k)
    BY <1>14, Outcomes
  <2>2. s \in Steps /\ j.kind \in EventKinds
    BY <1>2, <1>6, <1>14 DEF OnRoute, Check
  <2>3. s = "ack" => SettledEvent(j.id)'
    BY <1>1, <1>2, <2>1, <2>2, SkippedIsSettled, SettledStays
  <2> QED
    BY <1>2, <1>5, <2>1, <2>2, <2>3
<1>15. ASSUME NEW j \in jobs, Step(j) PROVE AllDone'
  <2>1. CASE Ack(j) \/ Abort(j) \/ ShaFails(j)
    BY <1>2, <1>4, <1>5, <1>6, <2>1, Outcomes
  <2> QED
    BY <1>7, <1>8, <1>9, <1>10, <1>11, <1>12, <1>13, <1>14, <1>15, <2>1 DEF Step
<1>16. ASSUME NEW m \in Managers, NEW k \in EventKinds \cup CallKinds, NEW t \in Tasks,
              NEW i \in 0..cursor', jobs' = jobs \cup {NewJob(m, k, t, i)},
              k \in EventKinds => i > 0 /\ i \in Ids /\ log[i].kind = k
       PROVE  AllDone'
  <2> DEFINE new == NewJob(m, k, t, i)
  <2>1. /\ new.step \in {"check", "read"}
        /\ new.step = "read" => k \in CallKinds
    <3>1. i \in Nat
      OBVIOUS
    <3> QED
      BY <3>1, NewJobFine
  <2>2. new.kind = k /\ new.id = i
    BY DEF NewJob
  <2>3. jobs' = jobs \cup {new}
    BY <1>16
  <2> HIDE DEF new
  <2>4. Done(new)'
    BY <1>1, <1>16, <2>1, <2>2, CallsAreNoEvents DEF Done, Keeps
  <2> QED
    BY <1>3, <2>3, <2>4 DEF AllDone
<1> QED
  BY <1>4, <1>15, <1>16, Arrivals DEF Arrives

LEMMA AckStep ==
    ASSUME LifecycleAssumption, TypeOK, Routed, AllDone, EffectBeforeAck, [Next]_vars
    PROVE  EffectBeforeAck'
<1>1. Keeps /\ acked \subseteq 1..cursor /\ cursor \in 0..Len(log) /\ log \in Seq(Event)
  BY KeepsStep DEF TypeOK
<1>2. acked \subseteq Ids
  BY <1>1 DEF Ids
<1>3. \A i \in acked : SettledEvent(i)'
  BY <1>1, <1>2, SettledStays DEF EffectBeforeAck
<1>4. ASSUME acked' \subseteq acked PROVE EffectBeforeAck'
  BY <1>3, <1>4 DEF EffectBeforeAck
<1>5. ASSUME NEW j \in jobs, Ack(j) PROVE EffectBeforeAck'
  <2>1. SettledEvent(j.id) /\ j.id \in Ids
    <3>1. j.kind \in EventKinds
      BY <1>5 DEF Routed, OnRoute, Ack
    <3>2. j.id \in Nat /\ j.id > 0 /\ j.id <= cursor
      BY <3>1 DEF TypeOK, Job
    <3> QED
      BY <1>1, <1>5, <3>1, <3>2 DEF AllDone, Done, Ack, Ids
  <2>2. SettledEvent(j.id)'
    BY <1>1, <1>2, <2>1, SettledStays
  <2>3. acked' = acked \cup {j.id}
    BY <1>5 DEF Ack
  <2> QED
    BY <1>3, <2>2, <2>3 DEF EffectBeforeAck
<1>6. ASSUME NEW j \in jobs, Step(j) PROVE EffectBeforeAck'
  BY <1>4, <1>5, <1>6
     DEF Step, Check, Create, Get, Apply, Count, Read, Write, PublishNext, Abort, ShaFails
<1> QED
  BY <1>4, <1>6, Arrivals

-----------------------------------------------------------------------------
(* The theorems.                                                           *)

LEMMA InitIInv ==
    ASSUME Init
    PROVE  IInv
<1>1. hash \in [Tasks -> Hash] /\ \A t \in Tasks : hash[t].fails = 0
  BY EmptyHash DEF Init
<1>2. TypeOK
  BY <1>1 DEF Init, TypeOK, Event
<1>3. CountsBounded
  BY <1>1 DEF Init, CountsBounded
<1> QED
  BY <1>2, <1>3
     DEF Init, IInv, Routed, AllInformed, RlmJustified, AllDone, EffectBeforeAck, OneJob

LEMMA Induction ==
    ASSUME LifecycleAssumption, IInv, [Next]_vars
    PROVE  IInv'
BY TypeStep, RoutedStep, InformedStep, CountsStep, RlmStep, DoneStep, AckStep, OneJobStep
   DEF IInv

LEMMA Inductive == Spec => []IInv
<1>1. IInv /\ [Next]_vars => IInv'
  BY LifecycleAssumption, Induction
<1> QED
  BY InitIInv, <1>1, PTL DEF Spec

\* Everything has its type: what managers keep about tasks, events and their
\* own progress stays in range whatever they do (TaskManager, ManagerAgent).
THEOREM TypeCorrect == Spec => []TypeOK
<1>1. IInv => TypeOK
  BY DEF IInv
<1> QED
  BY <1>1, Inductive, PTL

\* RLM mode is justified by the failures of the task for any number of
\* managers, though they overwrite each other's fail_count: no copy of it is
\* ever ahead of the increments (_handle_task_failure, _handle_gate_rejected).
THEOREM RlmModeJustified == Spec => []RlmJustified
<1>1. IInv => RlmJustified
  BY DEF IInv
<1> QED
  BY <1>1, Inductive, PTL

\* An event is acknowledged only when its handler has done what it does to the
\* task, through every error, crash and repeated delivery, or has done it for an
\* event of the same idempotency key (handle, EventConsumer._handle_event).
THEOREM EffectsBeforeAck == Spec => []EffectBeforeAck
<1>1. IInv => EffectBeforeAck
  BY DEF IInv
<1> QED
  BY <1>1, Inductive, PTL

-----------------------------------------------------------------------------
(* One manager implements TaskWorkflow.                                    *)

OneManager == \A m, n \in Managers : m = n

\* What update_state read is still what the hash holds when it is written.
SeenFresh == \A j \in jobs : j.step = "write" => j.seen = hash[j.task]

LEMMA SeenFreshStep ==
    ASSUME LifecycleAssumption, IInv, OneManager, SeenFresh, [Next]_vars
    PROVE  SeenFresh'
<1>1. TypeOK /\ Routed /\ OneJob
  BY DEF IInv
<1>2. ASSUME NEW j \in jobs, NEW k \in jobs PROVE j = k
  BY <1>1 DEF OneManager, OneJob, TypeOK, Job
<1>3. ASSUME NEW j \in jobs
      PROVE  j \in Job /\ j.seen \in Hash /\ j.count \in Nat /\ hash[j.task] \in Hash
             /\ hash[j.task].fails + 1 \in Nat
  BY <1>1 DEF TypeOK, Job, Hash
<1>4. ASSUME jobs' = {} PROVE SeenFresh'
  BY <1>4 DEF SeenFresh
<1>5. ASSUME NEW j \in jobs, jobs' = jobs \ {j} PROVE SeenFresh'
  BY <1>2, <1>4, <1>5
<1>6. ASSUME NEW j \in jobs, NEW s \in Steps, NEW h \in Hash, NEW n \in Nat,
             Continues(j, At(j, s, h, n)), s = "write" => h = hash'[j.task]
      PROVE  SeenFresh'
  <2>1. jobs' = {At(j, s, h, n)}
    BY <1>2, <1>6 DEF Continues
  <2>2. /\ At(j, s, h, n).step = s /\ At(j, s, h, n).seen = h
        /\ At(j, s, h, n).task = j.task
    BY <1>3, AtFacts DEF Same
  <2> QED
    BY <1>6, <2>1, <2>2 DEF SeenFresh
<1>7. {"create", "get", "read", "apply", "count", "ack", "publish", "write"} \subseteq Steps
  BY DEF Steps
<1>8. ASSUME NEW j \in jobs, Count(j) PROVE SeenFresh'
  <2> DEFINE n == hash[j.task].fails + 1
             s == IF j.kind = "rejected" THEN "read"
                  ELSE IF Exceeds(n) THEN "publish" ELSE "ack"
  <2>1. Continues(j, At(j, s, j.seen, n)) /\ s \in {"read", "publish", "ack"}
    BY <1>1, <1>8, Outcomes
  <2>2. n \in Nat /\ s \in Steps /\ s # "write"
    BY <1>3, <1>7, <2>1
  <2> HIDE DEF n, s
  <2> QED
    BY <1>3, <1>6, <2>1, <2>2
<1>9. ASSUME NEW j \in jobs, Read(j) PROVE SeenFresh'
  <2>1. \/ jobs' = jobs \ {j}
        \/ Continues(j, At(j, "write", hash[j.task], j.count))
    BY <1>1, <1>9, Outcomes
  <2>2. hash' = hash
    BY <1>9 DEF Read
  <2> QED
    BY <1>3, <1>5, <1>6, <1>7, <2>1, <2>2
<1>10. ASSUME NEW j \in jobs, Step(j) PROVE SeenFresh'
  <2>1. CASE Check(j) \/ Create(j) \/ Get(j) \/ Apply(j) \/ ShaFails(j)
    BY <1>1, <1>3, <1>6, <1>7, <2>1, Outcomes
  <2>2. CASE Write(j) \/ PublishNext(j) \/ Ack(j) \/ Abort(j)
    BY <1>1, <1>3, <1>5, <1>6, <1>7, <2>2, Outcomes
  <2> QED
    BY <1>8, <1>9, <1>10, <2>1, <2>2 DEF Step
<1>11. ASSUME NEW m \in Managers, NEW k \in EventKinds \cup CallKinds, NEW t \in Tasks,
              NEW i \in 0..cursor', jobs' = jobs \cup {NewJob(m, k, t, i)}, Free(m)
       PROVE  SeenFresh'
  <2>1. jobs = {}
    BY <1>1, <1>11 DEF OneManager, Free, TypeOK, Job
  <2>2. NewJob(m, k, t, i).step # "write"
    <3>1. i \in Nat
      OBVIOUS
    <3> QED
      BY <3>1, NewJobFine
  <2> QED
    BY <1>11, <2>1, <2>2 DEF SeenFresh
<1>12. ASSUME jobs' = jobs, hash' = hash PROVE SeenFresh'
  BY <1>12 DEF SeenFresh
<1> QED
  BY <1>1, <1>10, <1>11, <1>12, Arrivals DEF Arrives

LEMMA StepImplements ==
    ASSUME LifecycleAssumption, IInv, SeenFresh, [Next]_vars
    PROVE  [Workflow!Next]_hash
<1>1. /\ TypeOK /\ Routed /\ AllInformed
      /\ hash \in [Tasks -> Hash]
  BY DEF IInv, TypeOK
<1>2. ASSUME NEW j \in jobs
      PROVE  /\ j.task \in Tasks /\ hash[j.task] \in Hash /\ OnRoute(j) /\ Informed(j)
             /\ hash[j.task].fails \in Nat
  BY <1>1 DEF TypeOK, Job, Routed, AllInformed, Hash
<1>3. ASSUME NEW j \in jobs, Create(j) PROVE Workflow!Next
  <2>1. Workflow!Create(j.task)
    BY <1>3 DEF Create, Workflow!Create, NewTask, Workflow!NewTask
  <2> QED
    BY <1>2, <2>1 DEF Workflow!Next
<1>4. ASSUME NEW j \in jobs, Count(j) PROVE Workflow!Next
  <2>1. hash[j.task] # NoTask
    BY <1>2, <1>4 DEF Count, OnRoute, Informed
  <2>2. hash' = [hash EXCEPT ![j.task].fails = @ + 1]
    BY <1>1, <1>2, <1>4 DEF Count
  <2>3. Workflow!Fail(j.task)
    BY <2>1, <2>2 DEF Workflow!Fail, NoTask, Workflow!NoTask
  <2> QED
    BY <1>2, <2>3 DEF Workflow!Next
<1>5. ASSUME NEW j \in jobs, Write(j) PROVE Workflow!Next
  <2>1. j.seen = hash[j.task] /\ CanTransition(j.seen.state, Target[j.kind])
    BY <1>2, <1>5 DEF SeenFresh, Informed, Write
  <2>2. Target[j.kind] \in States
    BY <1>2, <1>5, TargetState DEF Write, OnRoute
  <2>3. hash' = [hash EXCEPT ![j.task].state = Target[j.kind]]
    BY <1>5, <2>1 DEF Write
  <2>4. Workflow!Advance(j.task, Target[j.kind])
    BY <2>1, <2>3
       DEF Workflow!Advance, CanTransition, Workflow!CanTransition, States,
           Workflow!States, Transitions, Workflow!Transitions
  <2>5. Target[j.kind] \in Workflow!States
    BY <2>2 DEF States, Workflow!States, Transitions, Workflow!Transitions
  <2> QED
    BY <1>2, <2>4, <2>5 DEF Workflow!Next
<1>6. ASSUME NEW j \in jobs, Step(j) PROVE Workflow!Next \/ hash' = hash
  BY <1>3, <1>4, <1>5, <1>6
     DEF Step, Check, Get, Apply, Read, PublishNext, Ack, Abort, ShaFails
<1> QED
  BY <1>6, Arrivals, <1>1

\* One manager implements TaskWorkflow: nothing it does, and nothing that goes
\* wrong, comes between the HGETALL and the HSET of update_state.
THEOREM WorkflowImplemented == ASSUME OneManager PROVE Spec => Implements
<1>1. Init => Workflow!Init /\ SeenFresh
  BY DEF Init, Workflow!Init, NoTask, Workflow!NoTask, SeenFresh
<1>2. IInv /\ SeenFresh /\ [Next]_vars => SeenFresh'
  BY LifecycleAssumption, OneManager, SeenFreshStep
<1>3. IInv /\ SeenFresh /\ [Next]_vars => [Workflow!Next]_hash
  BY LifecycleAssumption, StepImplements
<1> QED
  BY <1>1, <1>2, <1>3, Inductive, PTL DEF Spec, Implements, Workflow!Spec

-----------------------------------------------------------------------------
(* The gates and the tasks together.                                       *)

(* What is proved of HitlGate in GateDeskProofs; there is no bridge here.  *)
NoClicks == {}
Proved == INSTANCE GateDeskProofs WITH
    calls <- gateCalls, aborts <- gateAborts, MaxCalls <- MaxGateCalls, MaxAborts <- MaxGateAborts,
    Clicks <- NoClicks, Allowed <- {}, Unrouted <- {}, BatchSize <- 0, MaxFaults <- 0,
    MaxExpiries <- 0, stream <- {}, read <- {}, batch <- {}, hand <- [step |-> "none"],
    posted <- {}, acked <- {}, messages <- {}, record <- {}, lock <- {}, click <- {},
    outcomes <- {}, failed <- 0, expiries <- 0

\* An approval of one of the task's gates was published.
Granted(t) == \E e \in published \cup slack : e.what = "approved" /\ TaskOf[e.gate] = t

\* An approval goes from the gates to the log, to the manager, and to the task.
LogGranted      == \A i \in Ids : log[i].kind = "approved" => Granted(log[i].task)
JobsGranted     == \A j \in jobs : j.kind = "approved" => Granted(j.task)
CompleteGranted == \A t \in Tasks : hash[t].state = "complete" => Granted(t)

GovernedInv == /\ IInv /\ Proved!RequestInv
               /\ LogGranted /\ JobsGranted /\ CompleteGranted

-----------------------------------------------------------------------------
(* The gates.                                                              *)

LEMMA GatesSame ==
    /\ Gate!GateInit <=> Proved!GateInit
    /\ Gate!GateNext <=> Proved!GateNext
    /\ Gate!Decisions = {"approved", "rejected"} /\ Proved!Decisions = {"approved", "rejected"}
<1>1. Gate!GateInit <=> Proved!GateInit
  BY Zenon DEF Gate!GateInit, Proved!GateInit, Gate!Procs, Proved!Procs, Gate!Idle, Proved!Idle
<1>2. Gate!GateNext <=> Proved!GateNext
  BY Zenon
     DEF Gate!GateNext, Proved!GateNext, Gate!Request, Proved!Request, Gate!Decide, Proved!Decide,
         Gate!Decisions, Proved!Decisions, Gate!Call, Proved!Call, Gate!At, Proved!At,
         Gate!Busy, Proved!Busy, Gate!Procs, Proved!Procs, Gate!Idle, Proved!Idle,
         Gate!Tick, Proved!Tick, Gate!Scan, Proved!Scan, Gate!NextOf, Proved!NextOf,
         Gate!SweepJob, Proved!SweepJob, Gate!Step, Proved!Step, Gate!Abort, Proved!Abort,
         Gate!Store, Proved!Store, Gate!StoreBundle, Proved!StoreBundle, Gate!List, Proved!List,
         Gate!Read, Proved!Read, Gate!Write, Proved!Write, Gate!Unlist, Proved!Unlist,
         Gate!LogHistory, Proved!LogHistory, Gate!LogAudit, Proved!LogAudit,
         Gate!Publish, Proved!Publish, Gate!Goto, Proved!Goto, Gate!Done, Proved!Done,
         Gate!Fact, Proved!Fact
<1>3. Gate!Decisions = {"approved", "rejected"} /\ Proved!Decisions = {"approved", "rejected"}
  BY DEF Gate!Decisions, Proved!Decisions
<1> QED
  BY <1>1, <1>2, <1>3

LEMMA NoBridge == /\ Proved!IsFiniteSet(NoClicks) /\ 0 \in Nat
                  /\ \A c \in NoClicks : c.gate \in Gates /\ c.what \in Proved!Decisions
<1>1. IsFiniteSet(NoClicks)
  BY FS_EmptySet DEF NoClicks
<1>2. Proved!IsFiniteSet(NoClicks)
  BY <1>1 DEF Proved!IsFiniteSet, IsFiniteSet
<1> QED
  BY <1>2 DEF NoClicks

LEMMA GateInduction ==
    ASSUME Proved!RequestInv, Gate!GateNext \/ UNCHANGED deskVars
    PROVE  Proved!RequestInv'
<1>1. [Proved!GateNext]_(Proved!gateVars)
  BY GatesSame DEF deskVars, Proved!gateVars
<1> QED
  BY <1>1, NoBridge, GovernanceAssumption, Proved!GateStepKeeps

LEMMA GateStart ==
    ASSUME Gate!GateInit
    PROVE  Proved!RequestInv
BY GatesSame, NoBridge, GovernanceAssumption, Proved!GateInitHolds

LEMMA PublishedTyped ==
    ASSUME Proved!RequestInv
    PROVE  \A e \in published : e.gate \in Gates
BY DEF Proved!RequestInv, Proved!GateTypeOK, Proved!Event

LEMMA PublishedTypedNext ==
    ASSUME Proved!RequestInv'
    PROVE  \A e \in published' : e.gate \in Gates
BY DEF Proved!RequestInv, Proved!GateTypeOK, Proved!Event

(* Events are never taken back.                                            *)
LEMMA PublishedStays ==
    ASSUME Gate!GateNext
    PROVE  published \subseteq published'
<1>1. CASE \E p \in Callers, g \in Gates :
              Gate!Request(p, g) \/ \E v \in Gate!Decisions : Gate!Decide(p, g, v)
  BY <1>1 DEF Gate!Request, Gate!Decide, Gate!Call
<1>2. CASE \E g \in Gates : Gate!Tick(g)
  BY <1>2 DEF Gate!Tick
<1>3. CASE \E p \in Sweepers : Gate!Scan(p)
  BY <1>3 DEF Gate!Scan
<1>4. ASSUME NEW p \in Gate!Procs, Gate!Step(p) \/ Gate!Abort(p)
      PROVE  published \subseteq published'
  BY <1>4 DEF Gate!Step, Gate!Store, Gate!StoreBundle, Gate!List, Gate!Read, Gate!Write,
              Gate!Unlist, Gate!LogHistory, Gate!LogAudit, Gate!Publish, Gate!Abort
<1> QED
  BY <1>1, <1>2, <1>3, <1>4 DEF Gate!GateNext

-----------------------------------------------------------------------------
(* The managers.                                                           *)

(* A task is completed by an approval.                                     *)
LEMMA CompletedBy ==
    ASSUME TypeOK, Routed, [Next]_vars, NEW t \in Tasks, hash'[t].state = "complete"
    PROVE  hash[t].state = "complete" \/ \E j \in jobs : j.kind = "approved" /\ j.task = t
<1> DEFINE Result == hash[t].state = "complete" \/ \E j \in jobs : j.kind = "approved" /\ j.task = t
<1>1. hash \in [Tasks -> Hash]
  BY DEF TypeOK
<1>2. CASE hash' = hash
  BY <1>2
<1>3. ASSUME NEW j \in jobs
      PROVE  /\ j.task \in Tasks /\ j.kind \in EventKinds \cup CallKinds
             /\ j.seen \in Hash /\ hash[j.task] \in Hash
  BY <1>1 DEF TypeOK, Job
<1>4. ASSUME NEW j \in jobs, Create(j)
      PROVE  Result
  <2>1. hash' = [hash EXCEPT ![j.task] = NewTask]
    BY <1>4 DEF Create
  <2> QED
    BY <1>1, <1>3, <2>1, EmptyHash
<1>5. ASSUME NEW j \in jobs, Count(j)
      PROVE  Result
  <2> DEFINE h == [hash[j.task] EXCEPT !.fails = hash[j.task].fails + 1]
  <2>1. h.state = hash[j.task].state
    BY <1>3 DEF Hash
  <2>2. hash' = [hash EXCEPT ![j.task] = h]
    BY <1>1, <1>3, <1>5 DEF Count
  <2> HIDE DEF h
  <2> QED
    BY <1>1, <1>3, <2>1, <2>2
<1>6. ASSUME NEW j \in jobs, Write(j)
      PROVE  Result
  <2> DEFINE h == [j.seen EXCEPT !.state = Target[j.kind]]
  <2>1. hash' = [hash EXCEPT ![j.task] = h]
    BY <1>6 DEF Write
  <2>2. h.state = Target[j.kind]
    BY <1>3 DEF Hash
  <2> HIDE DEF h
  <2>3. CASE t # j.task
    BY <1>1, <1>3, <2>1, <2>3
  <2>4. CASE t = j.task
    <3>1. Target[j.kind] = "complete"
      BY <1>1, <2>1, <2>2, <2>4
    <3>2. CASE j.kind = "approved"
      BY <2>4, <3>2
    <3>3. CASE j.kind # "approved"
      <4>1. j.kind \in Movers
        BY <1>6 DEF Routed, OnRoute, Write
      <4> QED
        BY <3>1, <3>3, <4>1 DEF Target, Movers, Dispatches
    <3> QED
      BY <3>2, <3>3
  <2> QED
    BY <2>3, <2>4
<1>7. ASSUME NEW j \in jobs, Step(j)
      PROVE  Result
  BY <1>2, <1>4, <1>5, <1>6, <1>7
     DEF Step, Check, Get, Apply, Read, PublishNext, Ack, Abort, ShaFails
<1>8. CASE \E j \in jobs : Step(j)
  BY <1>7, <1>8
<1>9. CASE Publish \/ UNCHANGED vars
  BY <1>2, <1>9 DEF Publish, vars
<1>10. ASSUME NEW m \in Managers,
              \/ Take(m) \/ \E i \in 1..cursor : Claim(m, i)
              \/ \E k \in Calls, u \in Tasks : Call(m, k, u)
       PROVE  Result
  BY <1>2, <1>10 DEF Take, Claim, Call
<1> QED
  BY <1>8, <1>9, <1>10 DEF Next

(* The log grows by what others publish.                                   *)
LEMMA LogGrows ==
    ASSUME IInv, log' \in Seq(Event), Len(log) <= Len(log'), \A i \in Ids : log'[i] = log[i],
           UNCHANGED <<hash, cursor, acked, jobs, committed, histVars, envVars>>
    PROVE  IInv'
<1>1. UNCHANGED <<hash, cursor, acked, jobs, committed, incs, rlm, advanced, counted, moot, calls,
                  aborts, claims>>
  BY DEF histVars, envVars
<1>2. cursor \in 0..Len(log) /\ cursor \in 0..Len(log') /\ Len(log) \in Nat
  BY DEF IInv, TypeOK
<1>3. TypeOK'
  BY <1>1, <1>2 DEF IInv, TypeOK
<1>4. \A i \in 1..cursor : i \in Ids /\ log'[i] = log[i]
  BY <1>2 DEF Ids
<1>5. \A i \in 1..cursor : Effected(i)' <=> Effected(i)
  BY <1>1, <1>4 DEF Effected
<1>12. \A i \in 1..cursor : SettledEvent(i)' <=> SettledEvent(i)
  <2>1. acked' = acked /\ acked \subseteq 1..cursor
    BY <1>1 DEF IInv, TypeOK
  <2>2. \A i \in 1..cursor : Dealt(i)' <=> Dealt(i)
    BY <1>1, <1>5 DEF Dealt
  <2>3. \A i, k \in 1..cursor : SameKey(i, k)' <=> SameKey(i, k)
    BY <1>4 DEF SameKey
  <2> QED
    BY <2>1, <2>2, <2>3 DEF SettledEvent
<1>6. Routed' /\ OneJob'
  BY <1>1 DEF IInv, Routed, OnRoute, OneJob
<1>7. AllInformed'
  BY <1>1 DEF IInv, AllInformed, Informed
<1>8. CountsBounded' /\ RlmJustified'
  BY <1>1 DEF IInv, CountsBounded, RlmJustified
<1>9. ASSUME NEW j \in jobs
      PROVE  Done(j)'
  <2>1. j.kind \in EventKinds => j.id \in 1..cursor
    BY <1>2 DEF IInv, TypeOK, Job
  <2>2. Done(j)
    BY DEF IInv, AllDone
  <2> QED
    BY <1>1, <1>4, <1>5, <1>12, <2>1, <2>2 DEF Done
<1>10. AllDone'
  BY <1>1, <1>9 DEF AllDone
<1>11. EffectBeforeAck'
  BY <1>1, <1>12 DEF IInv, TypeOK, EffectBeforeAck
<1> QED
  BY <1>3, <1>6, <1>7, <1>8, <1>10, <1>11 DEF IInv

-----------------------------------------------------------------------------
(* The two together.                                                       *)

LEMMA GovernedStart == GovernedInit => GovernedInv
<1> SUFFICES ASSUME GovernedInit
             PROVE  GovernedInv
  OBVIOUS
<1>1. IInv /\ Proved!RequestInv
  BY InitIInv, GateStart DEF GovernedInit
<1>2. LogGranted /\ JobsGranted /\ CompleteGranted
  BY EmptyHash DEF GovernedInit, Init, LogGranted, JobsGranted, CompleteGranted, Ids
<1> QED
  BY <1>1, <1>2 DEF GovernedInv

(* Managers take approvals from the log, and tasks get them from managers. *)
LEMMA TasksKeep ==
    ASSUME GovernedInv, [Next]_vars, UNCHANGED gateVars,
           \A i \in Len(log) + 1 .. Len(log') : log'[i].kind \notin Gate!Decisions
    PROVE  GovernedInv'
<1>1. IInv'
  BY Induction, LifecycleAssumption DEF GovernedInv
<1>2. Proved!RequestInv'
  BY GateInduction DEF GovernedInv, gateVars
<1>3. published' = published /\ slack' = slack /\ \A t : Granted(t)' <=> Granted(t)
  BY DEF gateVars, deskVars, Granted
<1>4. TypeOK /\ Routed /\ LifecycleAssumption
  BY LifecycleAssumption DEF GovernedInv, IInv
<1>5. LogGranted'
  <2> SUFFICES ASSUME NEW i \in Ids', log'[i].kind = "approved"
               PROVE  \E e \in published' \cup slack' : e.what = "approved" /\ TaskOf[e.gate] = log'[i].task
    BY DEF LogGranted, Granted
  <2>1. Keeps
    BY <1>4, KeepsStep
  <2>2. Len(log) \in Nat /\ Len(log') \in Nat /\ i \in 1..Len(log')
    BY <1>4, <2>1 DEF Keeps, TypeOK, Ids
  <2>3. i \notin Len(log) + 1 .. Len(log')
    BY GatesSame
  <2>4. i \in Ids
    BY <2>2, <2>3 DEF Ids
  <2> QED
    BY <1>3, <2>1, <2>4 DEF Keeps, GovernedInv, LogGranted, Granted
<1>6. JobsGranted'
  <2>1. JobsMove
    BY <1>4, JobsChange
  <2>2. ASSUME NEW m \in Managers, NEW k \in EventKinds \cup CallKinds, NEW t \in Tasks,
               NEW i \in 0..cursor', jobs' = jobs \cup {NewJob(m, k, t, i)},
               k \in EventKinds => i > 0 /\ i \in Ids /\ log[i].kind = k /\ log[i].task = t
        PROVE  JobsGranted'
    <3>1. NewJob(m, k, t, i).kind = k /\ NewJob(m, k, t, i).task = t
      BY DEF NewJob
    <3>2. k = "approved" => Granted(t)
      BY <2>2 DEF GovernedInv, LogGranted, EventKinds
    <3> QED
      BY <1>3, <2>2, <3>1, <3>2 DEF GovernedInv, JobsGranted
  <2>3. ASSUME NEW j \in jobs, jobs' = jobs \ {j} \/ \E k \in Job : Continues(j, k)
        PROVE  JobsGranted'
    BY <1>3, <2>3 DEF GovernedInv, JobsGranted, Continues, Same
  <2>4. CASE jobs' = jobs
    BY <1>3, <2>4 DEF GovernedInv, JobsGranted
  <2> QED
    BY <2>1, <2>2, <2>3, <2>4 DEF JobsMove, Arrives
<1>7. CompleteGranted'
  BY <1>3, <1>4, CompletedBy DEF GovernedInv, CompleteGranted, JobsGranted
<1> QED
  BY <1>1, <1>2, <1>5, <1>6, <1>7 DEF GovernedInv

(* An outcome that is forwarded is granted, and an approval only as one.   *)
LEMMA ForwardingKeeps ==
    ASSUME GovernedInv, Proved!RequestInv',
           UNCHANGED <<hash, cursor, acked, jobs, committed, histVars, envVars>>,
           published \subseteq published', slack \subseteq slack',
           NEW e, e.gate \in Gates, log' = log \o Forwarded(e),
           e.what = "approved" => Granted(TaskOf[e.gate])'
    PROVE  GovernedInv'
<1>1. \A t : Granted(t) => Granted(t)'
  BY DEF Granted
<1>2. log \in Seq(Event) /\ Len(log) \in Nat
  BY DEF GovernedInv, IInv, TypeOK
<1>3. JobsGranted' /\ CompleteGranted'
  BY <1>1 DEF GovernedInv, JobsGranted, CompleteGranted
<1>4. CASE log' = log
  <2>1. IInv'
    BY <1>2, <1>4, LogGrows DEF GovernedInv
  <2>2. LogGranted'
    BY <1>1, <1>4 DEF GovernedInv, LogGranted, Ids
  <2> QED
    BY <1>3, <2>1, <2>2 DEF GovernedInv
<1>5. CASE log' # log
  <2> DEFINE f == [kind |-> e.what, task |-> TaskOf[e.gate], variant |-> "bare"]
  <2>1. e.what \in {"approved", "rejected"} /\ log' = log \o <<f>>
    <3>1. log \o <<>> = log
      BY <1>2
    <3> QED
      BY <1>5, <3>1, GatesSame DEF Forwarded
  <2>2. f \in Event /\ f.kind = e.what /\ f.task = TaskOf[e.gate]
    BY <2>1, GovernanceAssumption DEF Event, EventKinds
  <2> HIDE DEF f
  <2>3. /\ log' \in Seq(Event) /\ Len(log') = Len(log) + 1 /\ log'[Len(log) + 1] = f
        /\ \A i \in Ids : log'[i] = log[i]
    BY <1>2, <2>1, <2>2 DEF Ids
  <2>4. IInv'
    <3>1. Len(log) <= Len(log')
      BY <1>2, <2>3
    <3>2. IInv
      BY DEF GovernedInv
    <3> QED
      BY <2>3, <3>1, <3>2, LogGrows
  <2>5. f.kind = "approved" => Granted(f.task)'
    BY <2>2
  <2>6. LogGranted'
    <3> SUFFICES ASSUME NEW i \in Ids', log'[i].kind = "approved"
                 PROVE  \E d \in published' \cup slack' :
                            d.what = "approved" /\ TaskOf[d.gate] = log'[i].task
      BY DEF LogGranted, Granted
    <3>1. i \in Ids \/ i = Len(log) + 1
      BY <1>2, <2>3 DEF Ids
    <3>2. CASE i \in Ids
      <4>1. log[i].kind = "approved" /\ log'[i] = log[i]
        BY <2>3, <3>2
      <4>2. Granted(log[i].task)
        BY <3>2, <4>1 DEF GovernedInv, LogGranted
      <4> QED
        BY <1>1, <4>1, <4>2 DEF Granted
    <3>3. CASE i = Len(log) + 1
      <4>1. log'[i] = f
        BY <2>3, <3>3
      <4> QED
        BY <2>5, <4>1 DEF Granted
    <3> QED
      BY <3>1, <3>2, <3>3
  <2> QED
    BY <1>3, <2>4, <2>6 DEF GovernedInv
<1> QED
  BY <1>4, <1>5

LEMMA GatesKeep ==
    ASSUME GovernedInv, GateStep
    PROVE  GovernedInv'
<1>1. /\ Gate!GateNext /\ slack' = slack
      /\ UNCHANGED <<hash, cursor, acked, jobs, committed, histVars, envVars>>
      /\ \/ log' = log
         \/ \E e \in published' \ published : log' = log \o Forwarded(e)
  BY DEF GateStep
<1>2. Proved!RequestInv'
  BY <1>1, GateInduction DEF GovernedInv
<1>3. published \subseteq published'
  BY <1>1, PublishedStays
<1>4. CASE log' = log
  <2>1. log \in Seq(Event)
    BY DEF GovernedInv, IInv, TypeOK
  <2>2. IInv'
    BY <1>1, <1>4, <2>1, LogGrows DEF GovernedInv
  <2>3. \A t : Granted(t) => Granted(t)'
    BY <1>1, <1>3 DEF Granted
  <2>4. LogGranted' /\ JobsGranted' /\ CompleteGranted'
    BY <1>1, <1>4, <2>3 DEF GovernedInv, LogGranted, JobsGranted, CompleteGranted, Ids
  <2> QED
    BY <1>2, <2>2, <2>4 DEF GovernedInv
<1>5. ASSUME NEW e \in published' \ published, log' = log \o Forwarded(e)
      PROVE  GovernedInv'
  <2>1. e.gate \in Gates
    BY <1>2, PublishedTypedNext
  <2>2. e.what = "approved" => Granted(TaskOf[e.gate])'
    BY DEF Granted
  <2> QED
    BY <1>1, <1>2, <1>3, <1>5, <2>1, <2>2, ForwardingKeeps
<1> QED
  BY <1>1, <1>4, <1>5

LEMMA SlackKeeps ==
    ASSUME GovernedInv, NEW g \in Gates, NEW what \in Gate!Decisions, SlackDecides(g, what)
    PROVE  GovernedInv'
<1> DEFINE e == [gate |-> g, what |-> what]
<1>1. /\ UNCHANGED deskVars /\ published' = published
      /\ UNCHANGED <<hash, cursor, acked, jobs, committed, histVars, envVars>>
      /\ log' = log \o Forwarded(e) /\ slack' = slack \cup {e}
  BY DEF SlackDecides, deskVars
<1>2. Proved!RequestInv'
  BY <1>1, GateInduction DEF GovernedInv
<1>3. e.gate = g /\ e.what = what /\ e \in slack'
  BY <1>1
<1>4. e.what = "approved" => Granted(TaskOf[e.gate])'
  BY <1>3 DEF Granted
<1> HIDE DEF e
<1> QED
  BY <1>1, <1>2, <1>3, <1>4, ForwardingKeeps

LEMMA GovernedAlways == GovernedSpec => []GovernedInv
<1>1. GovernedInv /\ [GovernedNext]_<<vars, gateVars>> => GovernedInv'
  <2> SUFFICES ASSUME GovernedInv, [GovernedNext]_<<vars, gateVars>>
               PROVE  GovernedInv'
    OBVIOUS
  <2>1. CASE TaskStep
    BY <2>1, TasksKeep DEF TaskStep
  <2>2. CASE GateStep
    BY <2>2, GatesKeep
  <2>4. CASE \E g \in Gates, what \in Gate!Decisions : SlackDecides(g, what)
    BY <2>4, SlackKeeps
  <2>3. CASE UNCHANGED <<vars, gateVars>>
    <3>1. UNCHANGED vars /\ UNCHANGED gateVars /\ log' = log
      BY <2>3 DEF vars
    <3>2. \A i \in Len(log) + 1 .. Len(log') : log'[i].kind \notin Gate!Decisions
      <4>1. Len(log) \in Nat
        BY DEF GovernedInv, IInv, TypeOK
      <4> QED
        BY <3>1, <4>1
    <3> QED
      BY <3>1, <3>2, TasksKeep
  <2> QED
    BY <2>1, <2>2, <2>3, <2>4 DEF GovernedNext
<1> QED
  BY <1>1, GovernedStart, PTL DEF GovernedSpec

\* A task behind gates is completed only after one of its gates was approved, by a reviewer
\* in Slack or by one whose approval was logged and audited, for any number of tasks, gates,
\* managers, reviewers and sweepers, and through every abort and second delivery
\* (_handle_gate_approved, record_decision, handle_approval).
THEOREM ApprovedBeforeComplete == GovernedSpec => [](CompletedWasApproved /\ GovernedCompletion)
<1>1. GovernedInv => CompletedWasApproved /\ GovernedCompletion
  <2> SUFFICES ASSUME GovernedInv, NEW t \in Tasks, hash[t].state = "complete"
               PROVE  \E e \in (history \cap audit) \cup slack : e.what = "approved" /\ TaskOf[e.gate] = t
    BY DEF CompletedWasApproved, GovernedCompletion
  <2>1. PICK e \in published \cup slack : e.what = "approved" /\ TaskOf[e.gate] = t
    BY DEF GovernedInv, CompleteGranted, Granted
  <2>2. e \in (history \cap audit) \cup slack
    BY <2>1 DEF GovernedInv, Proved!RequestInv, Proved!AnnouncedWasLogged
  <2> QED
    BY <2>1, <2>2
<1> QED
  BY <1>1, GovernedAlways, PTL

\* Gates take nothing from what TaskLifecycle promises of its tasks: types, what is done before
\* an event is acknowledged, and why a debugger is started.
THEOREM GovernedTasksKeep == GovernedSpec => [](TypeOK /\ EffectBeforeAck /\ RlmJustified)
<1>1. GovernedInv => TypeOK /\ EffectBeforeAck /\ RlmJustified
  BY DEF GovernedInv, IInv
<1> QED
  BY <1>1, GovernedAlways, PTL

=============================================================================
