--------------------------- MODULE GateDeskProofs ---------------------------
(***************************************************************************)
(* Theorems about HitlGate and GateDesk, for any number of requests,       *)
(* callers, sweepers and clicks and every value of the bounds.             *)
(***************************************************************************)
EXTENDS GateDesk, FiniteSetTheorems, TLAPS

-----------------------------------------------------------------------------
(* What a job is, and what becomes of it.                                  *)

RequestJob == [step : RequestSteps, id : 1..MaxCalls, gate : Gates, what : {"requested"},
               rest : {{}}]
CloseJob   == [step : CloseSteps, id : 0..MaxCalls, gate : Gates, what : Closed,
               rest : SUBSET Gates]
Works(p)  == job[p] # Idle
Before    == {"store", "bundle", "list"}     \* the steps before a request is known
Unwritten == {"read", "write"}               \* the steps before a status is written

LEMMA JobFacts ==
    ASSUME GateTypeOK, NEW p \in Procs
    PROVE  /\ job[p] \in {Idle} \cup RequestJob \cup CloseJob
           /\ At(p, "idle") <=> ~Works(p)
           /\ Works(p) =>
                /\ job[p].gate \in Gates /\ job[p].rest \in SUBSET Gates
                /\ job[p].what \in Closed \cup {"requested"}
                /\ job[p].what = "expired" <=> p \in Sweepers
                /\ Fact(p) \in Event
                /\ job[p].step \in Before => job[p] \in RequestJob /\ job[p].what = "requested"
                /\ job[p].step \in {"read", "write", "unlist"} =>
                     job[p] \in CloseJob /\ job[p].what \in Closed
                /\ job[p].step \in RequestSteps \cup CloseSteps
<1>1. job[p] \in {Idle} \cup RequestJob \cup CloseJob
  BY DEF GateTypeOK, Job, RequestJob, CloseJob
<1>2. MaxCalls \in Nat
  BY GateAssumption
<1>3. CASE job[p] = Idle
  BY <1>3 DEF Idle, At, Works
<1>4. CASE job[p] \in RequestJob
  <2>1. /\ job[p].step \in RequestSteps /\ job[p].id \in 1..MaxCalls /\ job[p].gate \in Gates
        /\ job[p].what = "requested" /\ job[p].rest = {}
    BY <1>4 DEF RequestJob
  <2>2. job[p] # Idle
    <3>1. job[p].step # "idle"
      BY <2>1 DEF RequestSteps
    <3> QED
      BY <3>1 DEF Idle
  <2>3. Fact(p) \in Event
    BY <1>2, <2>1 DEF Fact, Event
  <2>4. job[p].what = "expired" <=> p \in Sweepers
    BY <2>2 DEF GateTypeOK
  <2> QED
    BY <1>1, <1>4, <2>1, <2>2, <2>3, <2>4 DEF Works, At, RequestSteps, Before
<1>5. CASE job[p] \in CloseJob
  <2>1. /\ job[p].step \in CloseSteps /\ job[p].id \in 0..MaxCalls /\ job[p].gate \in Gates
        /\ job[p].what \in Closed /\ job[p].rest \in SUBSET Gates
    BY <1>5 DEF CloseJob
  <2>2. job[p] # Idle
    <3>1. job[p].step # "idle"
      BY <2>1 DEF CloseSteps
    <3> QED
      BY <3>1 DEF Idle
  <2>3. Fact(p) \in Event
    BY <1>2, <2>1 DEF Fact, Event
  <2>4. job[p].what = "expired" <=> p \in Sweepers
    BY <2>2 DEF GateTypeOK
  <2> QED
    BY <1>1, <1>5, <2>1, <2>2, <2>3, <2>4 DEF Works, At, CloseSteps, Before
<1> QED
  BY <1>1, <1>3, <1>4, <1>5

(* The jobs keep their type when one of them does.                         *)
JobsTyped == /\ job \in [Procs -> Job]
             /\ \A p \in Procs : job[p] # Idle => (job[p].what = "expired" <=> p \in Sweepers)

LEMMA JobSet ==
    ASSUME GateTypeOK, NEW p \in Procs, NEW j \in Job,
           j # Idle => (j.what = "expired" <=> p \in Sweepers),
           job' = [job EXCEPT ![p] = j]
    PROVE  /\ JobsTyped'
           /\ job'[p] = j
           /\ \A q \in Procs \ {p} : job'[q] = job[q]
<1>1. job \in [Procs -> Job]
  BY DEF GateTypeOK
<1>2. job'[p] = j /\ \A q \in Procs \ {p} : job'[q] = job[q]
  BY <1>1
<1>3. job' \in [Procs -> Job]
  BY <1>1
<1> QED
  BY <1>2, <1>3 DEF GateTypeOK, JobsTyped

(* A job goes on: only its step changes.                                   *)
LEMMA GotoFacts ==
    ASSUME GateTypeOK, NEW p \in Procs, NEW s, Goto(p, s),
           \/ job[p] \in RequestJob /\ s \in RequestSteps
           \/ job[p] \in CloseJob /\ s \in CloseSteps
    PROVE  /\ JobsTyped'
           /\ \A q \in Procs \ {p} : job'[q] = job[q]
           /\ Works(p) /\ Works(p)'
           /\ job'[p].step = s /\ job'[p].gate = job[p].gate /\ job'[p].what = job[p].what
           /\ job'[p].rest = job[p].rest /\ Fact(p)' = Fact(p)
<1> DEFINE j == [job[p] EXCEPT !.step = s]
<1>1. job' = [job EXCEPT ![p] = j]
  BY DEF Goto
<1>2. /\ j \in RequestJob \cup CloseJob
      /\ j.step = s /\ j.gate = job[p].gate /\ j.what = job[p].what /\ j.rest = job[p].rest
      /\ j.id = job[p].id
  BY DEF RequestJob, CloseJob
<1>3. j \in Job /\ j # Idle /\ job[p] # Idle
  <2>1. s # "idle" /\ job[p].step # "idle"
    BY DEF RequestJob, CloseJob, RequestSteps, CloseSteps
  <2> QED
    BY <1>2, <2>1 DEF Job, RequestJob, CloseJob, Idle
<1>4. j.what = "expired" <=> p \in Sweepers
  BY <1>2, <1>3 DEF GateTypeOK
<1> HIDE DEF j
<1>5. JobsTyped' /\ job'[p] = j /\ \A q \in Procs \ {p} : job'[q] = job[q]
  BY <1>1, <1>3, <1>4, JobSet
<1> QED
  BY <1>2, <1>3, <1>5 DEF Works, Fact

(* A sweeper turns to one of the requests it has left, or is done.         *)
LEMMA NextOfFacts ==
    ASSUME GateTypeOK, NEW p \in Sweepers, NEW rest \in SUBSET Gates, NextOf(p, rest)
    PROVE  /\ JobsTyped'
           /\ \A q \in Procs \ {p} : job'[q] = job[q]
           /\ Works(p)' => /\ job'[p].step = "read" /\ job'[p].what = "expired"
                           /\ job'[p].gate \in rest /\ job'[p].rest \subseteq rest
<1>1. p \in Procs
  BY DEF Procs
<1>2. CASE job' = [job EXCEPT ![p] = Idle]
  <2>1. Idle \in Job
    BY DEF Job
  <2>2. JobsTyped' /\ job'[p] = Idle /\ \A q \in Procs \ {p} : job'[q] = job[q]
    BY <1>1, <1>2, <2>1, JobSet
  <2> QED
    BY <2>2 DEF Works
<1>3. ASSUME NEW g \in rest, job' = [job EXCEPT ![p] = SweepJob(rest, g)]
      PROVE  /\ JobsTyped'
             /\ \A q \in Procs \ {p} : job'[q] = job[q]
             /\ Works(p)' => /\ job'[p].step = "read" /\ job'[p].what = "expired"
                             /\ job'[p].gate \in rest /\ job'[p].rest \subseteq rest
  <2> DEFINE j == SweepJob(rest, g)
  <2>1. j.step = "read" /\ j.what = "expired" /\ j.gate = g /\ j.rest = rest \ {g}
    BY DEF SweepJob
  <2>2. j \in CloseJob
    BY GateAssumption DEF SweepJob, CloseJob, CloseSteps, Closed
  <2>3. j \in Job
    BY <2>2 DEF Job, CloseJob
  <2> HIDE DEF j
  <2>4. JobsTyped' /\ job'[p] = j /\ \A q \in Procs \ {p} : job'[q] = job[q]
    BY <1>1, <1>3, <2>1, <2>3, JobSet DEF j
  <2> QED
    BY <2>1, <2>4
<1> QED
  BY <1>2, <1>3 DEF NextOf

LEMMA DoneFacts ==
    ASSUME GateTypeOK, NEW p \in Procs, Works(p), Done(p)
    PROVE  /\ JobsTyped'
           /\ \A q \in Procs \ {p} : job'[q] = job[q]
           /\ Works(p)' => /\ job'[p].step = "read" /\ job'[p].what = "expired"
                           /\ job'[p].gate \in job[p].rest /\ job'[p].rest \subseteq job[p].rest
<1>1. CASE p \in Sweepers
  <2>1. job[p].rest \in SUBSET Gates
    BY JobFacts
  <2>2. NextOf(p, job[p].rest)
    BY <1>1 DEF Done
  <2> QED
    BY <1>1, <2>1, <2>2, NextOfFacts
<1>2. CASE p \notin Sweepers
  <2>1. Idle \in Job /\ job' = [job EXCEPT ![p] = Idle]
    BY <1>2 DEF Job, Done
  <2>2. JobsTyped' /\ job'[p] = Idle /\ \A q \in Procs \ {p} : job'[q] = job[q]
    BY <2>1, JobSet
  <2> QED
    BY <2>2 DEF Works
<1> QED
  BY <1>1, <1>2

LEMMA CallFacts ==
    ASSUME GateTypeOK, NEW p \in Callers, NEW g \in Gates, NEW what, NEW step,
           \/ what = "requested" /\ step = "store"
           \/ what \in Decisions /\ step = "read",
           Call(p, g, what, step)
    PROVE  /\ JobsTyped' /\ calls' \in 0..MaxCalls
           /\ \A q \in Procs \ {p} : job'[q] = job[q]
           /\ ~Works(p) /\ Works(p)'
           /\ job'[p].step = step /\ job'[p].gate = g /\ job'[p].what = what
           /\ job'[p].rest = {}
<1> DEFINE j == [step |-> step, id |-> calls + 1, gate |-> g, what |-> what, rest |-> {}]
<1>1. p \in Procs /\ p \notin Sweepers
  BY GateAssumption DEF Procs
<1>2. calls \in Nat /\ calls < MaxCalls /\ MaxCalls \in Nat /\ calls' = calls + 1
  BY GateAssumption DEF Call, GateTypeOK
<1>3. calls + 1 \in 1..MaxCalls /\ calls + 1 \in 0..MaxCalls
  BY <1>2
<1>4. j \in RequestJob \cup CloseJob
  BY <1>3 DEF RequestJob, CloseJob, RequestSteps, CloseSteps, Closed
<1>5. j.step = step /\ j.gate = g /\ j.what = what /\ j.rest = {}
  OBVIOUS
<1>6. j \in Job /\ j # Idle
  <2>1. step # "idle"
    OBVIOUS
  <2> QED
    BY <1>4, <1>5, <2>1 DEF Job, RequestJob, CloseJob, Idle
<1>7. j.what # "expired"
  BY <1>5 DEF Decisions
<1>8. job' = [job EXCEPT ![p] = j]
  BY DEF Call
<1> HIDE DEF j
<1>9. JobsTyped' /\ job'[p] = j /\ \A q \in Procs \ {p} : job'[q] = job[q]
  BY <1>1, <1>6, <1>7, <1>8, JobSet
<1>10. ~Works(p)
  BY <1>1, JobFacts DEF Call
<1> QED
  BY <1>2, <1>3, <1>5, <1>6, <1>9, <1>10 DEF Works

-----------------------------------------------------------------------------
(* The invariant of HitlGate.                                              *)

\* A request is listed after its hash and its bundle are stored.
KnownAreStored ==
    /\ listed \subseteq known /\ known \subseteq bundles
    /\ \A g \in known : status[g] # "none"

\* What the caller at each of its steps has done already.
JobKnows(p) ==
    Works(p) =>
        /\ job[p].rest \subseteq known
        /\ job[p].step \notin Before => job[p].gate \in known
        /\ job[p].step \in Before =>
             /\ job[p].gate \notin known
             /\ status[job[p].gate] = (IF job[p].step = "store" THEN "none" ELSE "pending")
             /\ job[p].step = "list" => job[p].gate \in bundles
             /\ \A q \in Procs \ {p} : Works(q) => job[q].gate # job[p].gate
        /\ job[p].what \in Closed /\ job[p].step \notin Unwritten => status[job[p].gate] \in Closed
        /\ p \notin Sweepers => /\ job[p].step = "audit" => Fact(p) \in history
                                /\ job[p].step = "publish" => Fact(p) \in history \cap audit
JobsKnow == \A p \in Procs : JobKnows(p)

\* Whatever is not yet shown, or not yet announced, has a job that will do it.
Listing(p, g)  == Works(p) /\ job[p].gate = g /\ job[p].step \in Before
Unlisting(p, g) == Works(p) /\ job[p].gate = g /\ job[p].step = "unlist"
Telling(p, g)  == Works(p) /\ job[p].gate = g /\ job[p].what = status[g]
                  /\ job[p].step \notin Unwritten
Seen(g) ==
    /\ status[g] = "pending" => g \in listed \/ \E p \in Procs : Listing(p, g)
    /\ g \in listed /\ status[g] \in Closed => \E p \in Procs : Unlisting(p, g)
    /\ status[g] \in Closed => Announced(g) \/ \E p \in Procs : Telling(p, g)
SeenTo == \A g \in Gates \ cut : Seen(g)

RequestInv == /\ GateTypeOK /\ KnownAreStored /\ JobsKnow /\ SeenTo
              /\ OnlyRacersOverrule /\ AnnouncedWasLogged

\* What no step of p does to the requests and the jobs of others.
Moved(p) ==
    /\ \A q \in Procs \ {p} : job'[q] = job[q]
    /\ known \subseteq known' /\ bundles \subseteq bundles' /\ history \subseteq history'
    /\ audit \subseteq audit' /\ published \subseteq published' /\ late \subseteq late'
    /\ cut \subseteq cut'
    /\ \A g \in known' \ known : Works(p) /\ job[p].gate = g
    /\ \A g \in Gates : /\ status[g] \in Closed => status'[g] \in Closed
                        /\ ~(Works(p) /\ job[p].gate = g) =>
                             status'[g] = status[g] /\ (g \in listed' <=> g \in listed)
    /\ Works(p)' => \/ job'[p].gate \in known \/ ~Busy(job'[p].gate)
                    \/ Works(p) /\ job'[p].gate = job[p].gate

LEMMA OthersKnow ==
    ASSUME RequestInv, NEW p \in Procs, Moved(p), NEW q \in Procs \ {p}
    PROVE  JobKnows(q)'
<1> SUFFICES ASSUME Works(q)'
             PROVE  JobKnows(q)'
  BY DEF JobKnows
<1>1. job'[q] = job[q] /\ Works(q) /\ Fact(q)' = Fact(q)
  BY DEF Moved, Works, Fact
<1>2. JobKnows(q) /\ job[q].gate \in Gates
  BY <1>1, JobFacts DEF RequestInv, JobsKnow
<1>3. job[q].rest \subseteq known' /\ (job[q].step \notin Before => job[q].gate \in known')
  BY <1>1, <1>2 DEF JobKnows, Moved
<1>4. ASSUME job[q].step \in Before
      PROVE  /\ job[q].gate \notin known'
             /\ status'[job[q].gate] = (IF job[q].step = "store" THEN "none" ELSE "pending")
             /\ job[q].step = "list" => job[q].gate \in bundles'
             /\ \A r \in Procs \ {q} : Works(r)' => job'[r].gate # job[q].gate
  <2>1. ~(Works(p) /\ job[p].gate = job[q].gate)
    BY <1>1, <1>2, <1>4 DEF JobKnows
  <2>2. job[q].gate \notin known' /\ status'[job[q].gate] = status[job[q].gate]
    BY <1>1, <1>2, <1>4, <2>1 DEF Moved, JobKnows
  <2>3. ASSUME NEW r \in Procs \ {q}, Works(r)'
        PROVE  job'[r].gate # job[q].gate
    <3>1. CASE r = p
      <4>1. Busy(job[q].gate)
        BY <1>1 DEF Busy, Works
      <4> QED
        BY <1>1, <1>2, <1>4, <2>1, <2>3, <3>1, <4>1 DEF Moved, JobKnows
    <3>2. CASE r # p
      <4>1. job'[r] = job[r] /\ Works(r)
        BY <2>3, <3>2 DEF Moved, Works
      <4> QED
        BY <1>1, <1>2, <1>4, <4>1 DEF JobKnows
    <3> QED
      BY <3>1, <3>2
  <2>4. job[q].step = "list" => job[q].gate \in bundles'
    BY <1>1, <1>2, <1>4 DEF JobKnows, Moved
  <2> QED
    BY <1>1, <1>2, <1>4, <2>2, <2>3, <2>4 DEF JobKnows
<1>5. job[q].what \in Closed /\ job[q].step \notin Unwritten => status'[job[q].gate] \in Closed
  BY <1>1, <1>2 DEF JobKnows, Moved
<1>6. q \notin Sweepers => /\ job[q].step = "audit" => Fact(q) \in history'
                           /\ job[q].step = "publish" => Fact(q) \in history' \cap audit'
  BY <1>1, <1>2 DEF JobKnows, Moved
<1> QED
  BY <1>1, <1>3, <1>4, <1>5, <1>6 DEF JobKnows

(* A request is seen to as before, if p was not the one who would.         *)
LEMMA SeenStill ==
    ASSUME RequestInv, NEW p \in Procs, Moved(p), NEW g \in Gates \ cut',
           status'[g] = status[g], g \in listed' <=> g \in listed,
           Works(p) /\ job[p].gate = g => job[p].step \in Unwritten
    PROVE  Seen(g)'
<1>1. Seen(g)
  BY DEF RequestInv, SeenTo, Moved
<1>2. ASSUME NEW q \in Procs, Works(q), job[q].gate = g, job[q].step \notin Unwritten
      PROVE  q # p /\ job'[q] = job[q]
  BY <1>2 DEF Moved
<1>3. status'[g] = "pending" => g \in listed' \/ \E q \in Procs : Listing(q, g)'
  <2>1. ASSUME NEW q \in Procs, Listing(q, g)
        PROVE  Listing(q, g)'
    BY <1>2, <2>1 DEF Listing, Works, Before, Unwritten
  <2> QED
    BY <1>1, <2>1 DEF Seen
<1>4. g \in listed' /\ status'[g] \in Closed => \E q \in Procs : Unlisting(q, g)'
  <2>1. ASSUME NEW q \in Procs, Unlisting(q, g)
        PROVE  Unlisting(q, g)'
    BY <1>2, <2>1 DEF Unlisting, Works, Unwritten
  <2> QED
    BY <1>1, <2>1 DEF Seen
<1>5. status'[g] \in Closed => Announced(g)' \/ \E q \in Procs : Telling(q, g)'
  <2>1. ASSUME NEW q \in Procs, Telling(q, g)
        PROVE  Telling(q, g)'
    BY <1>2, <2>1 DEF Telling, Works
  <2>2. Announced(g) => Announced(g)'
    BY DEF Announced, Moved
  <2> QED
    BY <1>1, <2>1, <2>2 DEF Seen
<1> QED
  BY <1>3, <1>4, <1>5 DEF Seen

(* No step but a Write closes a request, and only a Read finds it pending. *)
LEMMA RacersStill ==
    ASSUME RequestInv, NEW p \in Procs, Moved(p),
           \A g \in Gates : status'[g] \in {status[g], "pending"},
           Works(p)' /\ job'[p].step = "write" => status'[job'[p].gate] = "pending"
    PROVE  OnlyRacersOverrule'
<1> SUFFICES ASSUME NEW q \in Procs, job'[q].step = "write", status'[job'[q].gate] # "pending"
             PROVE  <<q, job'[q].gate>> \in late'
  BY DEF OnlyRacersOverrule, At
<1>1. q # p
  <2>1. job'[q] # Idle
    BY DEF Idle
  <2> QED
    BY <2>1 DEF Works
<1>2. job'[q] = job[q] /\ job[q].step = "write"
  BY <1>1 DEF Moved
<1>3. job[q].gate \in Gates
  <2>1. Works(q)
    BY <1>2 DEF Works, Idle
  <2> QED
    BY <2>1, JobFacts DEF RequestInv
<1>4. status[job[q].gate] # "pending"
  BY <1>2, <1>3
<1> QED
  BY <1>2, <1>4 DEF RequestInv, OnlyRacersOverrule, At, Moved

LEMMA Assemble ==
    ASSUME RequestInv, NEW p \in Procs, Moved(p), GateTypeOK', JobKnows(p)', KnownAreStored',
           \A g \in Gates \ cut' : Works(p) /\ job[p].gate = g => Seen(g)',
           OnlyRacersOverrule', AnnouncedWasLogged'
    PROVE  RequestInv'
<1>1. JobsKnow'
  BY OthersKnow DEF JobsKnow
<1>2. ASSUME NEW g \in Gates \ cut'
      PROVE  Seen(g)'
  <2>1. CASE Works(p) /\ job[p].gate = g
    BY <2>1
  <2>2. CASE ~(Works(p) /\ job[p].gate = g)
    <3>1. status'[g] = status[g] /\ (g \in listed' <=> g \in listed)
      BY <2>2 DEF Moved
    <3> QED
      BY <2>2, <3>1, SeenStill
  <2> QED
    BY <2>1, <2>2
<1>3. SeenTo'
  BY <1>2 DEF SeenTo
<1> QED
  BY <1>1, <1>3 DEF RequestInv

-----------------------------------------------------------------------------
(* Calls begin, and expires_at passes.                                     *)

LEMMA BeginKeeps ==
    ASSUME RequestInv, NEW p \in Procs, ~Works(p), Works(p)', JobsTyped', calls' \in 0..MaxCalls,
           \A q \in Procs \ {p} : job'[q] = job[q],
           \/ /\ job'[p].step = "read" /\ job'[p].gate \in known /\ job'[p].rest \subseteq known
           \/ /\ job'[p].step = "store" /\ job'[p].what = "requested" /\ job'[p].rest = {}
              /\ job'[p].gate \in Gates /\ status[job'[p].gate] = "none" /\ ~Busy(job'[p].gate),
           UNCHANGED <<status, bundles, listed, due, history, audit, published, known, late,
                       cut, aborts>>
    PROVE  RequestInv'
<1>1. GateTypeOK'
  BY DEF RequestInv, GateTypeOK, JobsTyped
<1>2. Moved(p)
  BY DEF Moved
<1>3. KnownAreStored' /\ AnnouncedWasLogged'
  BY DEF RequestInv, KnownAreStored, AnnouncedWasLogged
<1>4. JobKnows(p)'
  <2>1. CASE job'[p].step = "read" /\ job'[p].gate \in known /\ job'[p].rest \subseteq known
    BY <2>1 DEF JobKnows, Before, Unwritten
  <2>2. CASE /\ job'[p].step = "store" /\ job'[p].what = "requested" /\ job'[p].rest = {}
             /\ job'[p].gate \in Gates /\ status[job'[p].gate] = "none" /\ ~Busy(job'[p].gate)
    <3>1. job'[p].gate \notin known
      BY <2>2 DEF RequestInv, KnownAreStored
    <3>2. \A q \in Procs \ {p} : Works(q)' => job'[q].gate # job'[p].gate
      BY <2>2 DEF Busy, Works
    <3> QED
      BY <2>2, <3>1, <3>2 DEF JobKnows, Before, Unwritten, Closed, Decisions
  <2> QED
    BY <2>1, <2>2
<1>5. OnlyRacersOverrule'
  BY <1>2, RacersStill
<1> QED
  BY <1>1, <1>2, <1>3, <1>4, <1>5, Assemble

LEMMA CallKeeps ==
    ASSUME RequestInv, NEW p \in Callers, NEW g \in Gates,
           Request(p, g) \/ \E v \in Decisions : Decide(p, g, v)
    PROVE  RequestInv'
<1>1. p \in Procs
  BY DEF Procs
<1>2. CASE Request(p, g)
  <2>1. Call(p, g, "requested", "store") /\ status[g] = "none" /\ ~Busy(g)
    BY <1>2 DEF Request
  <2>2. /\ JobsTyped' /\ calls' \in 0..MaxCalls /\ ~Works(p) /\ Works(p)'
        /\ \A q \in Procs \ {p} : job'[q] = job[q]
        /\ job'[p].step = "store" /\ job'[p].gate = g /\ job'[p].what = "requested"
        /\ job'[p].rest = {}
    BY <2>1, CallFacts DEF RequestInv
  <2> QED
    BY <1>1, <2>1, <2>2, BeginKeeps DEF Call
<1>3. ASSUME NEW v \in Decisions, Decide(p, g, v)
      PROVE  RequestInv'
  <2>1. Call(p, g, v, "read") /\ g \in known
    BY <1>3 DEF Decide
  <2>2. /\ JobsTyped' /\ calls' \in 0..MaxCalls /\ ~Works(p) /\ Works(p)'
        /\ \A q \in Procs \ {p} : job'[q] = job[q]
        /\ job'[p].step = "read" /\ job'[p].gate = g /\ job'[p].rest = {}
    BY <2>1, CallFacts DEF RequestInv
  <2> QED
    BY <1>1, <2>1, <2>2, BeginKeeps DEF Call
<1> QED
  BY <1>2, <1>3

LEMMA ScanKeeps ==
    ASSUME RequestInv, NEW p \in Sweepers, Scan(p)
    PROVE  RequestInv'
<1>1. p \in Procs
  BY DEF Procs
<1> DEFINE rest == listed \cap due
<1>2. rest \in SUBSET Gates /\ rest # {} /\ rest \subseteq known /\ ~Works(p)
  BY <1>1, JobFacts DEF RequestInv, GateTypeOK, KnownAreStored, Scan
<1>3. NextOf(p, rest)
  BY DEF Scan
<1> HIDE DEF rest
<1>4. /\ JobsTyped' /\ \A q \in Procs \ {p} : job'[q] = job[q]
      /\ Works(p)' => /\ job'[p].step = "read" /\ job'[p].gate \in rest /\ job'[p].rest \subseteq rest
  BY <1>2, <1>3, NextOfFacts DEF RequestInv
<1>5. Works(p)'
  <2>1. PICK g \in rest : job' = [job EXCEPT ![p] = SweepJob(rest, g)]
    BY <1>2, <1>3 DEF NextOf
  <2>2. job'[p] = SweepJob(rest, g)
    BY <1>1, <2>1 DEF RequestInv, GateTypeOK
  <2> QED
    BY <2>2 DEF Works, SweepJob, Idle
<1>6. calls' \in 0..MaxCalls
  BY DEF Scan, RequestInv, GateTypeOK
<1> QED
  BY <1>1, <1>2, <1>4, <1>5, <1>6, BeginKeeps DEF Scan

LEMMA TickKeeps ==
    ASSUME RequestInv, NEW g \in Gates, Tick(g)
    PROVE  RequestInv'
<1>1. GateTypeOK'
  BY DEF RequestInv, GateTypeOK, Tick
<1>2. KnownAreStored' /\ OnlyRacersOverrule' /\ AnnouncedWasLogged'
  BY DEF Tick, RequestInv, KnownAreStored, OnlyRacersOverrule, AnnouncedWasLogged, At
<1>3. JobsKnow'
  BY DEF Tick, RequestInv, JobsKnow, JobKnows, Works, Fact
<1>4. SeenTo'
  BY DEF Tick, RequestInv, SeenTo, Seen, Listing, Unlisting, Telling, Works, Announced
<1> QED
  BY <1>1, <1>2, <1>3, <1>4 DEF RequestInv

-----------------------------------------------------------------------------
(* The steps of a job.                                                     *)

LEMMA StoreKeeps ==
    ASSUME RequestInv, NEW p \in Procs, Store(p)
    PROVE  RequestInv'
<1>0. PICK g : g = job[p].gate
  OBVIOUS
<1> USE <1>0
<1>1. /\ job[p].step = "store" /\ Goto(p, "bundle") /\ status' = [status EXCEPT ![g] = "pending"]
      /\ UNCHANGED <<bundles, listed, due, history, audit, published, known, late, cut, calls, aborts>>
  BY DEF Store, At
<1>2. job[p] \in RequestJob /\ Works(p) /\ g \in Gates /\ job[p].what = "requested"
  <2>1. Works(p)
    BY <1>1 DEF Works, Idle
  <2> QED
    BY <1>1, <2>1, JobFacts DEF RequestInv, Before
<1>3. /\ JobsTyped' /\ Works(p)' /\ \A q \in Procs \ {p} : job'[q] = job[q]
      /\ job'[p].step = "bundle" /\ job'[p].gate = g /\ job'[p].what = "requested"
      /\ job'[p].rest = job[p].rest
  BY <1>1, <1>2, GotoFacts DEF RequestSteps, RequestInv
<1>4. /\ g \notin known /\ status[g] = "none" /\ job[p].rest \subseteq known
      /\ \A q \in Procs \ {p} : Works(q) => job[q].gate # g
  BY <1>1, <1>2 DEF RequestInv, JobsKnow, JobKnows, Before
<1>5. /\ status'[g] = "pending" /\ \A h \in Gates \ {g} : status'[h] = status[h]
      /\ status' \in [Gates -> Statuses]
  BY <1>1, <1>2 DEF RequestInv, GateTypeOK, Statuses
<1>6. GateTypeOK'
  BY <1>1, <1>3, <1>5 DEF RequestInv, GateTypeOK, JobsTyped
<1>7. Moved(p)
  BY <1>1, <1>2, <1>3, <1>4, <1>5 DEF Moved, Closed, Decisions
<1>8. JobKnows(p)'
  <2>1. \A q \in Procs \ {p} : Works(q)' => job'[q].gate # g
    BY <1>3, <1>4 DEF Works
  <2> QED
    BY <1>1, <1>3, <1>4, <1>5, <2>1 DEF JobKnows, Before, Closed, Decisions
<1>9. KnownAreStored' /\ AnnouncedWasLogged'
  BY <1>1, <1>4, <1>5 DEF RequestInv, GateTypeOK, KnownAreStored, AnnouncedWasLogged
<1>10. OnlyRacersOverrule'
  BY <1>2, <1>3, <1>5, <1>7, RacersStill
<1>11. Seen(g)'
  <2>1. Listing(p, g)'
    BY <1>3 DEF Listing, Before
  <2> QED
    BY <1>1, <1>5, <2>1 DEF Seen, Closed, Decisions
<1> QED
  BY <1>6, <1>7, <1>8, <1>9, <1>10, <1>11, Assemble

LEMMA StoreBundleKeeps ==
    ASSUME RequestInv, NEW p \in Procs, StoreBundle(p)
    PROVE  RequestInv'
<1>0. PICK g : g = job[p].gate
  OBVIOUS
<1> USE <1>0
<1>1. /\ job[p].step = "bundle" /\ Goto(p, "list") /\ bundles' = bundles \cup {g}
      /\ UNCHANGED <<status, listed, due, history, audit, published, known, late, cut, calls, aborts>>
  BY DEF StoreBundle, At
<1>2. job[p] \in RequestJob /\ Works(p) /\ g \in Gates /\ job[p].what = "requested"
  <2>1. Works(p)
    BY <1>1 DEF Works, Idle
  <2> QED
    BY <1>1, <2>1, JobFacts DEF RequestInv, Before
<1>3. /\ JobsTyped' /\ Works(p)' /\ \A q \in Procs \ {p} : job'[q] = job[q]
      /\ job'[p].step = "list" /\ job'[p].gate = g /\ job'[p].what = "requested"
      /\ job'[p].rest = job[p].rest
  BY <1>1, <1>2, GotoFacts DEF RequestSteps, RequestInv
<1>4. /\ g \notin known /\ status[g] = "pending" /\ job[p].rest \subseteq known
      /\ \A q \in Procs \ {p} : Works(q) => job[q].gate # g
  BY <1>1, <1>2 DEF RequestInv, JobsKnow, JobKnows, Before
<1>5. GateTypeOK'
  BY <1>1, <1>2, <1>3 DEF RequestInv, GateTypeOK, JobsTyped
<1>6. Moved(p)
  BY <1>1, <1>2, <1>3 DEF Moved
<1>7. JobKnows(p)'
  <2>1. \A q \in Procs \ {p} : Works(q)' => job'[q].gate # g
    BY <1>3, <1>4 DEF Works
  <2> QED
    BY <1>1, <1>3, <1>4, <2>1 DEF JobKnows, Before, Closed, Decisions
<1>8. KnownAreStored' /\ AnnouncedWasLogged'
  BY <1>1 DEF RequestInv, KnownAreStored, AnnouncedWasLogged
<1>9. OnlyRacersOverrule'
  BY <1>1, <1>3, <1>6, RacersStill
<1>10. Seen(g)'
  <2>1. Listing(p, g)'
    BY <1>3 DEF Listing, Before
  <2> QED
    BY <1>1, <1>4, <2>1 DEF Seen, Closed, Decisions
<1> QED
  BY <1>5, <1>6, <1>7, <1>8, <1>9, <1>10, Assemble

LEMMA ListKeeps ==
    ASSUME RequestInv, NEW p \in Procs, List(p)
    PROVE  RequestInv'
<1>0. PICK g : g = job[p].gate
  OBVIOUS
<1> USE <1>0
<1>1. /\ job[p].step = "list" /\ Goto(p, "history")
      /\ listed' = listed \cup {g} /\ known' = known \cup {g}
      /\ UNCHANGED <<status, bundles, due, history, audit, published, late, cut, calls, aborts>>
  BY DEF List, At
<1>2. job[p] \in RequestJob /\ Works(p) /\ g \in Gates /\ job[p].what = "requested"
  <2>1. Works(p)
    BY <1>1 DEF Works, Idle
  <2> QED
    BY <1>1, <2>1, JobFacts DEF RequestInv, Before
<1>3. /\ JobsTyped' /\ Works(p)' /\ \A q \in Procs \ {p} : job'[q] = job[q]
      /\ job'[p].step = "history" /\ job'[p].gate = g /\ job'[p].what = "requested"
      /\ job'[p].rest = job[p].rest
  BY <1>1, <1>2, GotoFacts DEF RequestSteps, RequestInv
<1>4. /\ status[g] = "pending" /\ g \in bundles /\ job[p].rest \subseteq known
  BY <1>1, <1>2 DEF RequestInv, JobsKnow, JobKnows, Before
<1>5. GateTypeOK'
  BY <1>1, <1>2, <1>3 DEF RequestInv, GateTypeOK, JobsTyped
<1>6. Moved(p)
  BY <1>1, <1>2, <1>3 DEF Moved
<1>7. JobKnows(p)'
  BY <1>1, <1>3, <1>4 DEF JobKnows, Before, Closed, Decisions
<1>8. KnownAreStored' /\ AnnouncedWasLogged'
  BY <1>1, <1>4 DEF RequestInv, KnownAreStored, AnnouncedWasLogged
<1>9. OnlyRacersOverrule'
  BY <1>1, <1>3, <1>6, RacersStill
<1>10. Seen(g)'
  BY <1>1, <1>4 DEF Seen, Closed, Decisions
<1> QED
  BY <1>5, <1>6, <1>7, <1>8, <1>9, <1>10, Assemble

(* Read finds the request pending, or gives up on it.                      *)
LEMMA ReadKeeps ==
    ASSUME RequestInv, NEW p \in Procs, Read(p)
    PROVE  RequestInv'
<1>0. PICK g : g = job[p].gate
  OBVIOUS
<1> USE <1>0
<1>1. /\ job[p].step = "read"
      /\ IF status[g] = "pending" THEN Goto(p, "write") ELSE Done(p)
      /\ UNCHANGED <<status, bundles, listed, due, history, audit, published, known, late, cut, calls, aborts>>
  BY DEF Read, At
<1>2. /\ job[p] \in CloseJob /\ Works(p) /\ g \in Gates /\ job[p].what \in Closed
      /\ g \in known /\ job[p].rest \subseteq known
  <2>1. Works(p)
    BY <1>1 DEF Works, Idle
  <2>2. job[p] \in CloseJob /\ g \in Gates /\ job[p].what \in Closed
    BY <1>1, <2>1, JobFacts DEF RequestInv
  <2> QED
    BY <1>1, <2>1, <2>2 DEF RequestInv, JobsKnow, JobKnows, Before
<1>3. /\ JobsTyped' /\ \A q \in Procs \ {p} : job'[q] = job[q]
      /\ Works(p)' => /\ job'[p].step \in Unwritten
                      /\ job'[p].step = "write" => status[job'[p].gate] = "pending"
                      /\ job'[p].gate \in known /\ job'[p].rest \subseteq known
  <2>1. CASE status[g] = "pending"
    <3>1. Goto(p, "write")
      BY <1>1, <2>1
    <3> QED
      BY <1>1, <1>2, <2>1, <3>1, GotoFacts DEF CloseSteps, RequestInv, Unwritten
  <2>2. CASE status[g] # "pending"
    <3>1. Done(p)
      BY <1>1, <2>2
    <3> QED
      BY <1>2, <3>1, DoneFacts DEF RequestInv, Unwritten
  <2> QED
    BY <2>1, <2>2
<1>4. GateTypeOK'
  BY <1>1, <1>3 DEF RequestInv, GateTypeOK, JobsTyped
<1>5. Moved(p)
  BY <1>1, <1>2, <1>3 DEF Moved
<1>6. JobKnows(p)'
  BY <1>1, <1>3 DEF JobKnows, Before, Unwritten
<1>7. KnownAreStored' /\ AnnouncedWasLogged'
  BY <1>1 DEF RequestInv, KnownAreStored, AnnouncedWasLogged
<1>8. OnlyRacersOverrule'
  BY <1>1, <1>3, <1>5, RacersStill
<1>9. ASSUME g \in Gates \ cut'
      PROVE  Seen(g)'
  BY <1>1, <1>5, <1>9, SeenStill DEF Unwritten
<1> QED
  BY <1>4, <1>5, <1>6, <1>7, <1>8, <1>9, Assemble

(* Write closes the request, and whoever else was about to is late.        *)
LEMMA WriteKeeps ==
    ASSUME RequestInv, NEW p \in Procs, Write(p)
    PROVE  RequestInv'
<1>0. PICK g : g = job[p].gate
  OBVIOUS
<1> USE <1>0
<1> DEFINE others == {q \in Procs \ {p} : At(q, "write") /\ job[q].gate = g}
<1>1. /\ job[p].step = "write" /\ Goto(p, "unlist")
      /\ status' = [status EXCEPT ![g] = job[p].what]
      /\ late' = IF status[g] # "pending" THEN late ELSE late \cup {<<q, g>> : q \in others}
      /\ UNCHANGED <<bundles, listed, due, history, audit, published, known, cut, calls, aborts>>
  BY DEF Write, At
<1>2. /\ job[p] \in CloseJob /\ Works(p) /\ g \in Gates /\ job[p].what \in Closed
      /\ g \in known /\ job[p].rest \subseteq known
  <2>1. Works(p)
    BY <1>1 DEF Works, Idle
  <2>2. job[p] \in CloseJob /\ g \in Gates /\ job[p].what \in Closed
    BY <1>1, <2>1, JobFacts DEF RequestInv
  <2> QED
    BY <1>1, <2>1, <2>2 DEF RequestInv, JobsKnow, JobKnows, Before
<1>3. /\ JobsTyped' /\ Works(p)' /\ \A q \in Procs \ {p} : job'[q] = job[q]
      /\ job'[p].step = "unlist" /\ job'[p].gate = g /\ job'[p].what = job[p].what
      /\ job'[p].rest = job[p].rest
  BY <1>1, <1>2, GotoFacts DEF CloseSteps, RequestInv
<1>4. /\ status'[g] = job[p].what /\ \A h \in Gates \ {g} : status'[h] = status[h]
      /\ status' \in [Gates -> Statuses]
  BY <1>1, <1>2 DEF RequestInv, GateTypeOK, Statuses
<1>5. late \subseteq late' /\ late' \in SUBSET (Procs \X Gates)
  BY <1>1, <1>2 DEF RequestInv, GateTypeOK
<1>6. GateTypeOK'
  BY <1>1, <1>3, <1>4, <1>5 DEF RequestInv, GateTypeOK, JobsTyped
<1>7. Moved(p)
  BY <1>1, <1>2, <1>3, <1>4, <1>5 DEF Moved
<1>8. JobKnows(p)'
  BY <1>1, <1>2, <1>3, <1>4 DEF JobKnows, Before, Unwritten
<1>9. KnownAreStored' /\ AnnouncedWasLogged'
  BY <1>1, <1>2, <1>4 DEF RequestInv, GateTypeOK, KnownAreStored, AnnouncedWasLogged, Closed, Decisions
<1>10. OnlyRacersOverrule'
  <2> SUFFICES ASSUME NEW q \in Procs, job'[q].step = "write", status'[job'[q].gate] # "pending"
               PROVE  <<q, job'[q].gate>> \in late'
    BY DEF OnlyRacersOverrule, At
  <2>1. q # p /\ job'[q] = job[q] /\ job[q].step = "write"
    BY <1>3
  <2>2. CASE status[job[q].gate] # "pending"
    BY <1>5, <2>1, <2>2 DEF RequestInv, OnlyRacersOverrule, At
  <2>3. CASE status[job[q].gate] = "pending"
    <3>1. job[q].gate \in Gates
      <4>1. Works(q)
        BY <2>1 DEF Works, Idle
      <4> QED
        BY <4>1, JobFacts DEF RequestInv
    <3>2. job[q].gate = g
      BY <1>4, <2>1, <2>3, <3>1
    <3>3. q \in others
      BY <2>1, <3>2 DEF At
    <3> QED
      BY <1>1, <2>1, <2>3, <3>2, <3>3
  <2> QED
    BY <2>2, <2>3
<1>11. Seen(g)'
  <2>1. Unlisting(p, g)' /\ Telling(p, g)'
    BY <1>3, <1>4 DEF Unlisting, Telling, Unwritten
  <2> QED
    BY <1>2, <1>4, <2>1 DEF Seen, Closed, Decisions
<1> QED
  BY <1>6, <1>7, <1>8, <1>9, <1>10, <1>11, Assemble

LEMMA UnlistKeeps ==
    ASSUME RequestInv, NEW p \in Procs, Unlist(p)
    PROVE  RequestInv'
<1>0. PICK g : g = job[p].gate
  OBVIOUS
<1> USE <1>0
<1> DEFINE s == IF p \in Sweepers THEN "publish" ELSE "history"
<1>1. /\ job[p].step = "unlist" /\ Goto(p, s) /\ listed' = listed \ {g}
      /\ UNCHANGED <<status, bundles, due, history, audit, published, known, late, cut, calls, aborts>>
  BY DEF Unlist, At
<1>2. /\ job[p] \in CloseJob /\ Works(p) /\ g \in Gates /\ job[p].what \in Closed
      /\ g \in known /\ job[p].rest \subseteq known /\ status[g] \in Closed
  <2>1. Works(p)
    BY <1>1 DEF Works, Idle
  <2>2. job[p] \in CloseJob /\ g \in Gates /\ job[p].what \in Closed
    BY <1>1, <2>1, JobFacts DEF RequestInv
  <2> QED
    BY <1>1, <2>1, <2>2 DEF RequestInv, JobsKnow, JobKnows, Before, Unwritten
<1>3. /\ JobsTyped' /\ Works(p)' /\ \A q \in Procs \ {p} : job'[q] = job[q]
      /\ job'[p].step = s /\ job'[p].gate = g /\ job'[p].what = job[p].what
      /\ job'[p].rest = job[p].rest
  BY <1>1, <1>2, GotoFacts DEF CloseSteps, RequestInv
<1>4. s \notin Before \cup Unwritten \cup {"audit"} /\ (p \notin Sweepers => s = "history")
  BY DEF Before, Unwritten
<1> HIDE DEF s
<1>5. GateTypeOK'
  BY <1>1, <1>3 DEF RequestInv, GateTypeOK, JobsTyped
<1>6. Moved(p)
  BY <1>1, <1>2, <1>3 DEF Moved
<1>7. JobKnows(p)'
  BY <1>1, <1>2, <1>3, <1>4 DEF JobKnows
<1>8. KnownAreStored' /\ AnnouncedWasLogged'
  BY <1>1 DEF RequestInv, KnownAreStored, AnnouncedWasLogged
<1>9. OnlyRacersOverrule'
  BY <1>1, <1>3, <1>4, <1>6, RacersStill DEF Unwritten
<1>10. ASSUME g \in Gates \ cut'
       PROVE  Seen(g)'
  <2>1. Announced(g) \/ \E q \in Procs : Telling(q, g)
    BY <1>1, <1>2, <1>10 DEF RequestInv, SeenTo, Seen
  <2>2. ASSUME NEW q \in Procs, Telling(q, g)
        PROVE  Telling(q, g)'
    BY <1>1, <1>3, <1>4, <2>2 DEF Telling, Works
  <2>3. Announced(g) => Announced(g)'
    BY <1>1 DEF Announced
  <2> QED
    BY <1>1, <1>2, <2>1, <2>2, <2>3 DEF Seen, Closed, Decisions
<1> QED
  BY <1>5, <1>6, <1>7, <1>8, <1>9, <1>10, Assemble

(* The decision is logged, then audited; the request stays as it is.       *)
LEMMA LogKeeps ==
    ASSUME RequestInv, NEW p \in Procs, LogHistory(p) \/ LogAudit(p)
    PROVE  RequestInv'
<1>0. PICK g : g = job[p].gate
  OBVIOUS
<1> USE <1>0
<1> DEFINE s == IF job[p].step = "history" THEN "audit" ELSE "publish"
<1>1. /\ job[p].step \in {"history", "audit"} /\ Goto(p, s)
      /\ \/ job[p].step = "history" /\ history' = history \cup {Fact(p)} /\ audit' = audit
         \/ job[p].step = "audit" /\ audit' = audit \cup {Fact(p)} /\ history' = history
      /\ UNCHANGED <<status, bundles, listed, due, published, known, late, cut, calls, aborts>>
  BY DEF LogHistory, LogAudit, At
<1>2. /\ job[p] \in RequestJob \cup CloseJob /\ Works(p) /\ g \in Gates /\ Fact(p) \in Event
      /\ g \in known /\ job[p].rest \subseteq known
      /\ job[p].what \in Closed => status[g] \in Closed
      /\ p \notin Sweepers => (job[p].step = "audit" => Fact(p) \in history)
  <2>1. Works(p)
    BY <1>1 DEF Works, Idle
  <2>2. job[p] \in RequestJob \cup CloseJob /\ g \in Gates /\ Fact(p) \in Event
    BY <2>1, JobFacts DEF RequestInv, Works
  <2> QED
    BY <1>1, <2>1, <2>2 DEF RequestInv, JobsKnow, JobKnows, Before, Unwritten
<1>3. s \in {"audit", "publish"} /\ s \in RequestSteps /\ s \in CloseSteps
  BY DEF RequestSteps, CloseSteps
<1>4. /\ JobsTyped' /\ Works(p)' /\ \A q \in Procs \ {p} : job'[q] = job[q]
      /\ job'[p].step = s /\ job'[p].gate = g /\ job'[p].what = job[p].what
      /\ job'[p].rest = job[p].rest /\ Fact(p)' = Fact(p)
  BY <1>1, <1>2, <1>3, GotoFacts DEF RequestInv
<1>5. s = "audit" => Fact(p) \in history'
  BY <1>1
<1>6. p \notin Sweepers /\ s = "publish" => Fact(p) \in history' \cap audit'
  BY <1>1, <1>2
<1> HIDE DEF s
<1>7. GateTypeOK'
  BY <1>1, <1>2, <1>4 DEF RequestInv, GateTypeOK, JobsTyped
<1>8. Moved(p)
  BY <1>1, <1>2, <1>4 DEF Moved
<1>9. JobKnows(p)'
  BY <1>1, <1>2, <1>3, <1>4, <1>5, <1>6 DEF JobKnows, Before, Unwritten
<1>10. KnownAreStored' /\ AnnouncedWasLogged'
  BY <1>1, <1>8 DEF RequestInv, KnownAreStored, AnnouncedWasLogged, Moved
<1>11. OnlyRacersOverrule'
  BY <1>1, <1>3, <1>4, <1>8, RacersStill
<1>12. ASSUME g \in Gates \ cut'
       PROVE  Seen(g)'
  <2>1. Seen(g)
    BY <1>1, <1>12 DEF RequestInv, SeenTo
  <2>2. \A q \in Procs : Listing(q, g) => Listing(q, g)'
    BY <1>1, <1>4 DEF Listing, Works, Before
  <2>3. \A q \in Procs : Unlisting(q, g) => Unlisting(q, g)'
    BY <1>1, <1>4 DEF Unlisting, Works
  <2>4. \A q \in Procs : Telling(q, g) => Telling(q, g)'
    BY <1>1, <1>3, <1>4 DEF Telling, Works, Unwritten
  <2>5. Announced(g) => Announced(g)'
    BY <1>1 DEF Announced
  <2> QED
    BY <1>1, <2>1, <2>2, <2>3, <2>4, <2>5 DEF Seen
<1> QED
  BY <1>7, <1>8, <1>9, <1>10, <1>11, <1>12, Assemble

LEMMA PublishKeeps ==
    ASSUME RequestInv, NEW p \in Procs, Publish(p)
    PROVE  RequestInv'
<1>0. PICK g : g = job[p].gate
  OBVIOUS
<1> USE <1>0
<1>1. /\ job[p].step = "publish" /\ Done(p) /\ published' = published \cup {Fact(p)}
      /\ UNCHANGED <<status, bundles, listed, due, history, audit, known, late, cut, calls, aborts>>
  BY DEF Publish, At
<1>2. /\ Works(p) /\ g \in Gates /\ Fact(p) \in Event
      /\ job[p].rest \subseteq known
      /\ p \notin Sweepers => Fact(p) \in history \cap audit
      /\ p \in Sweepers => job[p].what = "expired"
  <2>1. Works(p)
    BY <1>1 DEF Works, Idle
  <2> QED
    BY <1>1, <2>1, JobFacts DEF RequestInv, JobsKnow, JobKnows, Before
<1>3. /\ JobsTyped' /\ \A q \in Procs \ {p} : job'[q] = job[q]
      /\ Works(p)' => /\ job'[p].step = "read"
                      /\ job'[p].gate \in known /\ job'[p].rest \subseteq known
  BY <1>1, <1>2, DoneFacts DEF RequestInv
<1>4. GateTypeOK'
  BY <1>1, <1>2, <1>3 DEF RequestInv, GateTypeOK, JobsTyped
<1>5. Moved(p)
  BY <1>1, <1>3 DEF Moved
<1>6. JobKnows(p)'
  BY <1>1, <1>3 DEF JobKnows, Before, Unwritten
<1>7. KnownAreStored'
  BY <1>1 DEF RequestInv, KnownAreStored
<1>8. AnnouncedWasLogged'
  <2>1. Fact(p).what = job[p].what
    BY DEF Fact
  <2> QED
    BY <1>1, <1>2, <2>1 DEF RequestInv, AnnouncedWasLogged
<1>9. OnlyRacersOverrule'
  BY <1>1, <1>3, <1>5, RacersStill
<1>10. ASSUME g \in Gates \ cut'
       PROVE  Seen(g)'
  <2>1. Seen(g)
    BY <1>1, <1>10 DEF RequestInv, SeenTo
  <2>2. \A q \in Procs : Listing(q, g) => Listing(q, g)'
    BY <1>1, <1>3 DEF Listing, Works, Before
  <2>3. \A q \in Procs : Unlisting(q, g) => Unlisting(q, g)'
    BY <1>1, <1>3 DEF Unlisting, Works
  <2>4. \A q \in Procs \ {p} : Telling(q, g) => Telling(q, g)'
    BY <1>1, <1>3 DEF Telling, Works
  <2>5. Announced(g) => Announced(g)'
    BY <1>1 DEF Announced
  <2>6. Telling(p, g) => Announced(g)'
    <3>1. Fact(p).gate = g /\ Fact(p).what = job[p].what /\ Fact(p) \in published'
      BY <1>1 DEF Fact
    <3> QED
      BY <1>1, <3>1 DEF Telling, Announced
  <2> QED
    BY <1>1, <2>1, <2>2, <2>3, <2>4, <2>5, <2>6 DEF Seen
<1> QED
  BY <1>4, <1>5, <1>6, <1>7, <1>8, <1>9, <1>10, Assemble

LEMMA AbortKeeps ==
    ASSUME RequestInv, NEW p \in Procs, Abort(p)
    PROVE  RequestInv'
<1>1. /\ Works(p) /\ job' = [job EXCEPT ![p] = Idle] /\ cut' = cut \cup {job[p].gate}
      /\ aborts < MaxAborts /\ aborts' = aborts + 1
      /\ UNCHANGED <<status, bundles, listed, due, history, audit, published, known, late, calls>>
  BY DEF Abort, Works
<1>2. job[p].gate \in Gates
  BY <1>1, JobFacts DEF RequestInv
<1>3. JobsTyped' /\ ~Works(p)' /\ \A q \in Procs \ {p} : job'[q] = job[q]
  <2>1. Idle \in Job
    BY DEF Job
  <2> QED
    BY <1>1, <2>1, JobSet DEF RequestInv, Works
<1>4. aborts' \in 0..MaxAborts
  BY <1>1, GateAssumption DEF RequestInv, GateTypeOK
<1>5. GateTypeOK'
  BY <1>1, <1>2, <1>3, <1>4 DEF RequestInv, GateTypeOK, JobsTyped
<1>6. Moved(p)
  BY <1>1, <1>3 DEF Moved
<1>7. JobKnows(p)' /\ KnownAreStored' /\ AnnouncedWasLogged'
  BY <1>1, <1>3 DEF JobKnows, RequestInv, KnownAreStored, AnnouncedWasLogged
<1>8. OnlyRacersOverrule'
  BY <1>1, <1>3, <1>6, RacersStill
<1> QED
  BY <1>1, <1>5, <1>6, <1>7, <1>8, Assemble

-----------------------------------------------------------------------------
(* The gates by themselves.                                                *)

LEMMA GateInitHolds == GateInit => RequestInv
<1> SUFFICES ASSUME GateInit
             PROVE  RequestInv
  OBVIOUS
<1>1. \A p \in Procs : job[p] = Idle
  BY DEF GateInit
<1>2. GateTypeOK
  BY <1>1, GateAssumption DEF GateInit, GateTypeOK, Job, Statuses
<1>3. KnownAreStored /\ JobsKnow /\ AnnouncedWasLogged
  BY <1>1 DEF GateInit, KnownAreStored, JobsKnow, JobKnows, Works, AnnouncedWasLogged
<1>4. OnlyRacersOverrule
  BY <1>1 DEF OnlyRacersOverrule, At, Idle
<1>5. SeenTo
  BY DEF GateInit, SeenTo, Seen, Closed, Decisions
<1> QED
  BY <1>2, <1>3, <1>4, <1>5 DEF RequestInv

LEMMA GateStepKeeps ==
    ASSUME RequestInv, [GateNext]_gateVars
    PROVE  RequestInv'
<1>1. CASE \E p \in Callers, g \in Gates : Request(p, g) \/ \E v \in Decisions : Decide(p, g, v)
  BY <1>1, CallKeeps
<1>2. CASE \E g \in Gates : Tick(g)
  BY <1>2, TickKeeps
<1>3. CASE \E p \in Sweepers : Scan(p)
  BY <1>3, ScanKeeps
<1>4. ASSUME NEW p \in Procs, Step(p) \/ Abort(p)
      PROVE  RequestInv'
  BY <1>4, StoreKeeps, StoreBundleKeeps, ListKeeps, ReadKeeps, WriteKeeps, UnlistKeeps, LogKeeps,
     PublishKeeps, AbortKeeps DEF Step
<1>5. CASE UNCHANGED gateVars
  <2>1. GateTypeOK' /\ KnownAreStored' /\ OnlyRacersOverrule' /\ AnnouncedWasLogged'
    BY <1>5 DEF gateVars, RequestInv, GateTypeOK, KnownAreStored, OnlyRacersOverrule,
                AnnouncedWasLogged, At
  <2>2. JobsKnow'
    BY <1>5 DEF gateVars, RequestInv, JobsKnow, JobKnows, Works, Fact
  <2>3. SeenTo'
    BY <1>5 DEF gateVars, RequestInv, SeenTo, Seen, Listing, Unlisting, Telling, Works, Announced
  <2> QED
    BY <2>1, <2>2, <2>3 DEF RequestInv
<1> QED
  BY <1>1, <1>2, <1>3, <1>4, <1>5 DEF GateNext

LEMMA RequestsFollow ==
    ASSUME RequestInv
    PROVE  RequestsAreTrue
<1>1. ASSUME NEW g \in Gates \ cut
      PROVE  /\ ~Busy(g) => (g \in PendingRequests <=> status[g] = "pending")
             /\ g \in PendingRequests => g \in bundles
             /\ status[g] \in Closed /\ ~Busy(g) => Announced(g)
  <2>1. Seen(g) /\ (g \in listed => g \in bundles /\ status[g] # "none")
    BY DEF RequestInv, SeenTo, KnownAreStored
  <2>2. status[g] \in {"none", "pending"} \cup Closed
    BY DEF RequestInv, GateTypeOK, Statuses
  <2>3. ~Busy(g) => \A p \in Procs : ~Listing(p, g) /\ ~Unlisting(p, g) /\ ~Telling(p, g)
    BY DEF Busy, Listing, Unlisting, Telling, Works
  <2> QED
    BY <2>1, <2>2, <2>3 DEF Seen, PendingRequests
<1>2. ShownArePending /\ ClosedIsAnnounced
  BY <1>1 DEF ShownArePending, ClosedIsAnnounced
<1> QED
  BY <1>2 DEF RequestInv, RequestsAreTrue

\* The requests, the pending set, the logs and the jobs of hitl_dispatcher.py keep
\* their types, whoever calls and whatever is cut off.
THEOREM GatesTyped == GateSpec => []GateTypeOK
<1>1. RequestInv => GateTypeOK
  BY DEF RequestInv
<1> QED
  BY <1>1, GateInitHolds, GateStepKeeps, PTL DEF GateSpec

\* However the calls of HITLDispatcher interleave and wherever they are cut off:
\* reviewers are shown the pending requests and no others and each with its evidence,
\* what is announced was logged, a decision is overruled only by those who raced with
\* it, and what a request became is announced.
THEOREM RequestsTrue == GateSpec => []RequestsAreTrue
<1>1. RequestInv => RequestsAreTrue
  BY RequestsFollow
<1> QED
  BY <1>1, GateInitHolds, GateStepKeeps, PTL DEF GateSpec

-----------------------------------------------------------------------------
(* The clicks on one request.                                              *)

Holder(c)   == click[c] \in {"expire", "status", "publish", "record", "release"}
Of(g)       == {c \in Clicks : c.gate = g}
Open(g)     == record[g] \in {"none", "pending"}     \* nothing was decided yet
Taken(g)    == IF lock[g] = "free" THEN 0 ELSE 1
Engaged(g)  == {c \in Of(g) : c \in outcomes \/ Holder(c)}
Spoilt(g)   == {c \in Of(g) : c \in outcomes /\ click[c] = "release"}
Deciding(g) == {c \in Of(g) : c \in outcomes \/ click[c] = "publish"}
Trouble     == failed + expiries

ClickTyped ==
    /\ record \in [Gates -> {"none", "pending", "approved", "rejected"}]
    /\ lock \in [Gates -> {"free", "held", "timed"}]
    /\ click \in [Clicks -> Slack!ClickSteps]
    /\ outcomes \subseteq Clicks
    /\ failed \in 0..MaxFaults /\ expiries \in 0..MaxExpiries

\* Before the record is written, whoever is or was in the critical section is there by the lock,
\* or some fault or expiry let it in; a holder whose SET raised leaves one more such gap.
Bounded(g) ==
    /\ Open(g) => Cardinality(Engaged(g)) + Cardinality(Spoilt(g)) <= Taken(g) + Trouble
    /\ Cardinality(Deciding(g)) <= 1 + Trouble
Clicking ==
    /\ \A c \in Clicks : /\ c \in outcomes => click[c] \in {"record", "release", "done"}
                         /\ click[c] = "record" => c \in outcomes
    /\ \A g \in Gates : Bounded(g)

\* As long as nothing fails the lock does what it is for.
Calm ==
    Trouble = 0 =>
        /\ \A c, d \in Clicks : Holder(c) /\ Holder(d) /\ c.gate = d.gate => c = d
        /\ \A c \in Clicks : Holder(c) => lock[c.gate] # "free"
        /\ \A g \in Gates : lock[g] # "free" => \E c \in Clicks : c.gate = g /\ Holder(c)
        /\ \A c \in outcomes : record[c.gate] = c.what \/ click[c] = "record"
        /\ \A c \in Clicks : click[c] \in {"publish", "record"} => record[c.gate] = "pending"

ClickInv == ClickTyped /\ Clicking /\ Calm

LEMMA TroubleFacts ==
    ASSUME ClickTyped
    PROVE  failed \in Nat /\ expiries \in Nat /\ Trouble = failed + expiries /\ Trouble \in Nat
BY DeskAssumption DEF ClickTyped, Trouble

LEMMA TroubleNext ==
    ASSUME ClickTyped'
    PROVE  failed' \in Nat /\ expiries' \in Nat /\ Trouble' = failed' + expiries' /\ Trouble' \in Nat
<1>1. failed' \in Nat /\ expiries' \in Nat
  BY DeskAssumption DEF ClickTyped
<1>2. Trouble' = failed' + expiries'
  BY DEF Trouble
<1>3. \A m, n \in Nat : m + n \in Nat
  OBVIOUS
<1> QED
  BY <1>1, <1>2, <1>3

(* The sets that are counted are finite, and one of them that loses or     *)
(* gains a click by one.                                                   *)
LEMMA Finite ==
    ASSUME NEW g
    PROVE  /\ \A S : S \subseteq Of(g) => IsFiniteSet(S) /\ Cardinality(S) \in Nat
           /\ \A S, T : S \subseteq Of(g) /\ T \subseteq S => Cardinality(T) <= Cardinality(S)
           /\ \A S, T, c : S \subseteq Of(g) /\ T \subseteq S \cup {c} => Cardinality(T) <= Cardinality(S) + 1
           /\ \A S, T, c : S \subseteq Of(g) /\ T \subseteq S \ {c} /\ c \in S => Cardinality(T) + 1 <= Cardinality(S)
<1>1. IsFiniteSet(Of(g))
  BY DeskAssumption, FS_Subset DEF Of
<1>2. \A S : S \subseteq Of(g) => IsFiniteSet(S) /\ Cardinality(S) \in Nat
  BY <1>1, FS_Subset, FS_CardinalityType
<1>3. ASSUME NEW S, NEW T, S \subseteq Of(g), T \subseteq S
      PROVE  Cardinality(T) <= Cardinality(S)
  BY <1>2, <1>3, FS_Subset
<1>4. ASSUME NEW S, NEW T, NEW c, S \subseteq Of(g), T \subseteq S \cup {c}
      PROVE  Cardinality(T) <= Cardinality(S) + 1
  <2>1. IsFiniteSet(S) /\ Cardinality(S) \in Nat
    BY <1>2, <1>4
  <2>2. IsFiniteSet(S \cup {c}) /\ Cardinality(S \cup {c}) <= Cardinality(S) + 1
    BY <2>1, FS_AddElement
  <2>3. Cardinality(T) <= Cardinality(S \cup {c}) /\ Cardinality(T) \in Nat /\ Cardinality(S \cup {c}) \in Nat
    BY <1>4, <2>2, FS_Subset, FS_CardinalityType
  <2> QED
    BY <2>1, <2>2, <2>3
<1>5. ASSUME NEW S, NEW T, NEW c, S \subseteq Of(g), T \subseteq S \ {c}, c \in S
      PROVE  Cardinality(T) + 1 <= Cardinality(S)
  <2>1. IsFiniteSet(S) /\ Cardinality(S) \in Nat
    BY <1>2, <1>5
  <2>2. IsFiniteSet(S \ {c}) /\ Cardinality(S \ {c}) = Cardinality(S) - 1
    BY <1>5, <2>1, FS_RemoveElement
  <2>3. Cardinality(T) <= Cardinality(S \ {c}) /\ Cardinality(T) \in Nat
    BY <1>5, <2>2, FS_Subset, FS_CardinalityType
  <2> QED
    BY <2>1, <2>2, <2>3
<1> QED
  BY <1>2, <1>3, <1>4, <1>5

LEMMA CountFacts ==
    ASSUME NEW g
    PROVE  /\ Engaged(g) \subseteq Of(g) /\ Spoilt(g) \subseteq Of(g) /\ Deciding(g) \subseteq Of(g)
           /\ Cardinality(Engaged(g)) \in Nat /\ Cardinality(Spoilt(g)) \in Nat
           /\ Cardinality(Deciding(g)) \in Nat
           /\ Taken(g) \in {0, 1}
<1>1. Engaged(g) \subseteq Of(g) /\ Spoilt(g) \subseteq Of(g) /\ Deciding(g) \subseteq Of(g)
  BY DEF Engaged, Spoilt, Deciding
<1> QED
  BY <1>1, Finite DEF Taken

LEMMA CountFactsNext ==
    ASSUME NEW g
    PROVE  /\ Engaged(g)' \subseteq Of(g) /\ Spoilt(g)' \subseteq Of(g) /\ Deciding(g)' \subseteq Of(g)
           /\ Cardinality(Engaged(g)') \in Nat /\ Cardinality(Spoilt(g)') \in Nat
           /\ Cardinality(Deciding(g)') \in Nat
           /\ Taken(g)' \in {0, 1}
<1>1. Engaged(g)' \subseteq Of(g) /\ Spoilt(g)' \subseteq Of(g) /\ Deciding(g)' \subseteq Of(g)
  BY DEF Engaged, Spoilt, Deciding, Of
<1> QED
  BY <1>1, Finite DEF Taken

(* Nobody comes in, no decision is undone, and the lock is given up only   *)
(* for some trouble.                                                       *)
LEMMA NobodyEnters ==
    ASSUME ClickTyped, ClickTyped', NEW g \in Gates, Bounded(g), Open(g)' => Open(g),
           Engaged(g)' \subseteq Engaged(g), Spoilt(g)' \subseteq Spoilt(g),
           Deciding(g)' \subseteq Deciding(g),
           Taken(g) + Trouble <= Taken(g)' + Trouble', Trouble <= Trouble'
    PROVE  Bounded(g)'
<1>1. /\ Cardinality(Engaged(g)') <= Cardinality(Engaged(g))
      /\ Cardinality(Spoilt(g)') <= Cardinality(Spoilt(g))
      /\ Cardinality(Deciding(g)') <= Cardinality(Deciding(g))
  BY CountFacts, Finite
<1>2. Trouble \in Nat /\ Trouble' \in Nat
  BY TroubleFacts, TroubleNext
<1> QED
  BY <1>1, <1>2, CountFacts, CountFactsNext DEF Bounded

(* Nothing changes for the requests that a click is not on.                *)
Turns(c) ==
    /\ \A d \in Clicks \ {c} : click'[d] = click[d] /\ (d \in outcomes' <=> d \in outcomes)
    /\ \A g \in Gates \ {c.gate} : record'[g] = record[g] /\ lock'[g] = lock[g]

LEMMA Elsewhere ==
    ASSUME ClickInv, ClickTyped', NEW c \in Clicks, Turns(c), Trouble <= Trouble',
           NEW g \in Gates \ {c.gate}
    PROVE  Bounded(g)'
<1>1. \A d \in Of(g) : click'[d] = click[d] /\ (d \in outcomes' <=> d \in outcomes)
  BY DEF Turns, Of
<1>2. Engaged(g)' = Engaged(g) /\ Spoilt(g)' = Spoilt(g) /\ Deciding(g)' = Deciding(g)
  BY <1>1 DEF Engaged, Spoilt, Deciding, Of, Holder
<1>3. Open(g)' = Open(g) /\ Taken(g)' = Taken(g)
  BY DEF Turns, Open, Taken
<1>4. Taken(g) + Trouble <= Taken(g)' + Trouble'
  <2>1. Trouble \in Nat
    BY TroubleFacts DEF ClickInv
  <2>2. Trouble' \in Nat
    BY TroubleNext
  <2> QED
    BY <1>3, <2>1, <2>2, CountFacts
<1> QED
  BY <1>2, <1>3, <1>4, NobodyEnters DEF ClickInv, Clicking

LEMMA GotoClick ==
    ASSUME ClickTyped, NEW c \in Clicks, NEW s \in Slack!ClickSteps, Slack!Goto(c, s)
    PROVE  /\ click' \in [Clicks -> Slack!ClickSteps] /\ click'[c] = s
           /\ \A d \in Clicks \ {c} : click'[d] = click[d]
BY DEF ClickTyped, Slack!Goto

(* What stays when a click goes from one step to the next.                 *)
LEMMA Assembled ==
    ASSUME ClickInv, ClickTyped', NEW c \in Clicks, Turns(c), Trouble <= Trouble',
           c \in outcomes' => click'[c] \in {"record", "release", "done"},
           click'[c] = "record" => c \in outcomes',
           Bounded(c.gate)', Calm'
    PROVE  ClickInv'
<1>1. \A g \in Gates : Bounded(g)'
  BY Elsewhere
<1>2. ASSUME NEW d \in Clicks
      PROVE  /\ d \in outcomes' => click'[d] \in {"record", "release", "done"}
             /\ click'[d] = "record" => d \in outcomes'
  BY DEF ClickInv, Clicking, Turns
<1> QED
  BY <1>1, <1>2 DEF ClickInv, Clicking

\* A step without trouble: as long as there was none there is none now.
Smooth == failed' = failed /\ expiries' = expiries

LEMMA SmoothFacts ==
    ASSUME Smooth, ClickTyped
    PROVE  Trouble' = Trouble /\ Trouble <= Trouble' /\ Trouble \in Nat
<1>1. Trouble' = Trouble
  BY DEF Smooth, Trouble
<1> QED
  BY <1>1, TroubleFacts

(* The critical section: who stays where they are, outside of it or in it. *)
LEMMA Sideways ==
    ASSUME ClickInv, ClickTyped', NEW c \in Clicks, Turns(c), Smooth, outcomes' = outcomes,
           record' = record, lock' = lock, ~Holder(c), ~Holder(c)', c \notin outcomes
    PROVE  ClickInv'
<1>1. Trouble' = Trouble /\ Trouble <= Trouble' /\ Trouble \in Nat
  BY SmoothFacts DEF ClickInv
<1>2. c.gate \in Gates
  BY DeskAssumption
<1>3. \A d \in Clicks : /\ Holder(d)' <=> Holder(d)
                        /\ d # c => click'[d] = click[d]
  BY DEF Turns, Holder
<1>4. /\ Engaged(c.gate)' = Engaged(c.gate) /\ Spoilt(c.gate)' = Spoilt(c.gate)
      /\ Deciding(c.gate)' = Deciding(c.gate)
  BY <1>3 DEF Engaged, Spoilt, Deciding, Of, Holder
<1>5. Bounded(c.gate)'
  <2>1. Open(c.gate)' = Open(c.gate) /\ Taken(c.gate)' = Taken(c.gate)
    BY DEF Open, Taken
  <2>2. Bounded(c.gate)
    BY <1>2 DEF ClickInv, Clicking
  <2> QED
    BY <1>1, <1>4, <2>1, <2>2 DEF Bounded
<1>6. Calm'
  <2> SUFFICES ASSUME Trouble = 0
               PROVE  Calm'
    BY <1>1 DEF Calm
  <2>1. Calm
    BY DEF ClickInv
  <2>2. \A d \in outcomes' : record'[d.gate] = d.what \/ click'[d] = "record"
    BY <1>3, <2>1 DEF Calm, ClickInv, ClickTyped
  <2>3. \A d \in Clicks : click'[d] \in {"publish", "record"} => record'[d.gate] = "pending"
    BY <1>3, <2>1 DEF Calm, Holder
  <2> QED
    BY <1>3, <2>1, <2>2, <2>3 DEF Calm
<1>7. click'[c] # "record"
  BY DEF Holder
<1> QED
  BY <1>1, <1>5, <1>6, <1>7, Assembled

LEMMA ClickKeeps ==
    ASSUME ClickInv, NEW c \in Clicks, Slack!Click(c)
    PROVE  ClickInv'
<1> DEFINE s == IF c \in Allowed THEN "lock" ELSE "done"
<1>1. /\ click[c] = "new" /\ Slack!Goto(c, s)
      /\ UNCHANGED <<record, lock, outcomes, failed, expiries>>
  BY DEF Slack!Click, Slack!At
<1>2. s \in Slack!ClickSteps /\ s \in {"lock", "done"}
  BY DEF Slack!ClickSteps
<1> HIDE DEF s
<1>3. /\ click' \in [Clicks -> Slack!ClickSteps] /\ click'[c] = s
      /\ \A d \in Clicks \ {c} : click'[d] = click[d]
  BY <1>1, <1>2, GotoClick DEF ClickInv
<1>4. ClickTyped' /\ Turns(c) /\ Smooth
  BY <1>1, <1>3 DEF ClickInv, ClickTyped, Turns, Smooth
<1>5. ~Holder(c) /\ ~Holder(c)' /\ c \notin outcomes
  BY <1>1, <1>2, <1>3 DEF Holder, ClickInv, Clicking
<1> QED
  BY <1>1, <1>4, <1>5, Sideways

(* SETNX lets in one more, who finds nobody there unless there was trouble. *)
LEMMA AcquireKeeps ==
    ASSUME ClickInv, NEW c \in Clicks, Slack!Acquire(c)
    PROVE  ClickInv'
<1>1. /\ click[c] = "lock" /\ UNCHANGED <<record, outcomes, failed, expiries>>
      /\ \/ lock[c.gate] = "free" /\ lock' = [lock EXCEPT ![c.gate] = "held"] /\ Slack!Goto(c, "expire")
         \/ lock[c.gate] # "free" /\ lock' = lock /\ Slack!Goto(c, "done")
  BY DEF Slack!Acquire, Slack!At
<1>2. c.gate \in Gates /\ "expire" \in Slack!ClickSteps /\ "done" \in Slack!ClickSteps
  BY DeskAssumption DEF Slack!ClickSteps
<1>3. ~Holder(c) /\ c \notin outcomes /\ Smooth
  BY <1>1 DEF Holder, ClickInv, Clicking, Smooth
<1>4. CASE lock[c.gate] # "free"
  <2>1. lock' = lock /\ Slack!Goto(c, "done")
    BY <1>1, <1>4
  <2>2. /\ click' \in [Clicks -> Slack!ClickSteps] /\ click'[c] = "done"
        /\ \A d \in Clicks \ {c} : click'[d] = click[d]
    BY <1>2, <2>1, GotoClick DEF ClickInv
  <2>3. ClickTyped' /\ Turns(c) /\ ~Holder(c)'
    BY <1>1, <2>1, <2>2 DEF ClickInv, ClickTyped, Turns, Holder
  <2> QED
    BY <1>1, <1>3, <2>1, <2>3, Sideways
<1>5. CASE lock[c.gate] = "free"
  <2>1. lock' = [lock EXCEPT ![c.gate] = "held"] /\ Slack!Goto(c, "expire")
    BY <1>1, <1>5
  <2>2. /\ click' \in [Clicks -> Slack!ClickSteps] /\ click'[c] = "expire"
        /\ \A d \in Clicks \ {c} : click'[d] = click[d]
    BY <1>2, <2>1, GotoClick DEF ClickInv
  <2>3. /\ lock' \in [Gates -> {"free", "held", "timed"}] /\ lock'[c.gate] = "held"
        /\ \A g \in Gates \ {c.gate} : lock'[g] = lock[g]
    BY <1>2, <2>1 DEF ClickInv, ClickTyped
  <2>4. ClickTyped' /\ Turns(c)
    BY <1>1, <2>2, <2>3 DEF ClickInv, ClickTyped, Turns
  <2>5. Trouble' = Trouble /\ Trouble <= Trouble' /\ Trouble \in Nat
    BY <1>3, SmoothFacts DEF ClickInv
  <2>6. Bounded(c.gate)'
    <3>1. /\ Engaged(c.gate)' \subseteq Engaged(c.gate) \cup {c}
          /\ Spoilt(c.gate)' \subseteq Spoilt(c.gate) /\ Deciding(c.gate)' \subseteq Deciding(c.gate)
      BY <1>1, <2>2 DEF Engaged, Spoilt, Deciding, Of, Holder
    <3>2. /\ Cardinality(Engaged(c.gate)') <= Cardinality(Engaged(c.gate)) + 1
          /\ Cardinality(Spoilt(c.gate)') <= Cardinality(Spoilt(c.gate))
          /\ Cardinality(Deciding(c.gate)') <= Cardinality(Deciding(c.gate))
      BY <3>1, CountFacts, Finite
    <3>3. Taken(c.gate) = 0 /\ Taken(c.gate)' = 1 /\ Open(c.gate)' = Open(c.gate)
      BY <1>1, <1>5, <2>3 DEF Taken, Open
    <3>4. Bounded(c.gate)
      BY <1>2 DEF ClickInv, Clicking
    <3> QED
      BY <2>5, <3>2, <3>3, <3>4, CountFacts, CountFactsNext DEF Bounded
  <2>7. Calm'
    <3> SUFFICES ASSUME Trouble = 0
                 PROVE  Calm'
      BY <2>5 DEF Calm
    <3>1. Calm
      BY DEF ClickInv
    <3>2. \A d \in Clicks : Holder(d) => d.gate # c.gate
      BY <1>5, <3>1 DEF Calm
    <3>3. \A d \in Clicks : Holder(d)' <=> Holder(d) \/ d = c
      BY <2>2 DEF Holder
    <3>4. \A d, e \in Clicks : Holder(d)' /\ Holder(e)' /\ d.gate = e.gate => d = e
      BY <3>1, <3>2, <3>3 DEF Calm
    <3>5. \A d \in Clicks : Holder(d)' => lock'[d.gate] # "free"
      BY <2>3, <3>1, <3>3, DeskAssumption DEF Calm
    <3>6. ASSUME NEW g \in Gates, lock'[g] # "free"
          PROVE  \E d \in Clicks : d.gate = g /\ Holder(d)'
      <4>1. CASE g = c.gate
        BY <3>3, <4>1
      <4>2. CASE g # c.gate
        BY <2>3, <3>1, <3>3, <3>6, <4>2 DEF Calm
      <4> QED
        BY <4>1, <4>2
    <3>7. \A d \in outcomes' : record'[d.gate] = d.what \/ click'[d] = "record"
      BY <1>1, <1>3, <2>2, <3>1 DEF Calm, ClickInv, ClickTyped
    <3>8. \A d \in Clicks : click'[d] \in {"publish", "record"} => record'[d.gate] = "pending"
      BY <1>1, <2>2, <3>1 DEF Calm
    <3> QED
      BY <3>4, <3>5, <3>6, <3>7, <3>8 DEF Calm
  <2> QED
    BY <1>1, <1>3, <2>2, <2>4, <2>5, <2>6, <2>7, Assembled
<1> QED
  BY <1>4, <1>5

LEMMA SetTtlKeeps ==
    ASSUME ClickInv, NEW c \in Clicks, Slack!SetTtl(c)
    PROVE  ClickInv'
<1>1. /\ click[c] = "expire" /\ Slack!Goto(c, "status")
      /\ lock' = [lock EXCEPT ![c.gate] = IF @ = "held" THEN "timed" ELSE @]
      /\ UNCHANGED <<record, outcomes, failed, expiries>>
  BY DEF Slack!SetTtl, Slack!At
<1>2. c.gate \in Gates /\ "status" \in Slack!ClickSteps
  BY DeskAssumption DEF Slack!ClickSteps
<1>3. /\ click' \in [Clicks -> Slack!ClickSteps] /\ click'[c] = "status"
      /\ \A d \in Clicks \ {c} : click'[d] = click[d]
  BY <1>1, <1>2, GotoClick DEF ClickInv
<1>4. /\ lock' \in [Gates -> {"free", "held", "timed"}]
      /\ \A g \in Gates : lock'[g] = "free" <=> lock[g] = "free"
      /\ \A g \in Gates \ {c.gate} : lock'[g] = lock[g]
  BY <1>1, <1>2 DEF ClickInv, ClickTyped
<1>5. ClickTyped' /\ Turns(c) /\ Smooth
  BY <1>1, <1>3, <1>4 DEF ClickInv, ClickTyped, Turns, Smooth
<1>6. Trouble' = Trouble /\ Trouble <= Trouble' /\ Trouble \in Nat
  BY <1>5, SmoothFacts DEF ClickInv
<1>7. c \notin outcomes /\ \A d \in Clicks : Holder(d)' <=> Holder(d)
  BY <1>1, <1>3 DEF ClickInv, Clicking, Holder
<1>8. Bounded(c.gate)'
  <2>1. /\ Engaged(c.gate)' = Engaged(c.gate) /\ Spoilt(c.gate)' \subseteq Spoilt(c.gate)
        /\ Deciding(c.gate)' \subseteq Deciding(c.gate)
    BY <1>1, <1>3, <1>7 DEF Engaged, Spoilt, Deciding, Of
  <2>2. Open(c.gate)' = Open(c.gate) /\ Taken(c.gate)' = Taken(c.gate)
    BY <1>1, <1>2, <1>4 DEF Open, Taken
  <2>3. Bounded(c.gate) /\ Taken(c.gate) + Trouble <= Taken(c.gate)' + Trouble'
    BY <1>2, <1>6, <2>2, CountFacts DEF ClickInv, Clicking
  <2> QED
    BY <1>2, <1>5, <1>6, <2>1, <2>2, <2>3, NobodyEnters DEF ClickInv
<1>9. Calm'
  <2> SUFFICES ASSUME Trouble = 0
               PROVE  Calm'
    BY <1>6 DEF Calm
  <2>1. Calm
    BY DEF ClickInv
  <2>2. \A d \in outcomes' : record'[d.gate] = d.what \/ click'[d] = "record"
    BY <1>1, <1>3, <1>7, <2>1 DEF Calm, ClickInv, ClickTyped
  <2>3. \A d \in Clicks : click'[d] \in {"publish", "record"} => record'[d.gate] = "pending"
    BY <1>1, <1>3, <2>1 DEF Calm
  <2>4. \A d \in Clicks : Holder(d)' => lock'[d.gate] # "free"
    BY <1>4, <1>7, <2>1, DeskAssumption DEF Calm
  <2>5. \A g \in Gates : lock'[g] # "free" => \E d \in Clicks : d.gate = g /\ Holder(d)'
    BY <1>4, <1>7, <2>1 DEF Calm
  <2> QED
    BY <1>7, <2>1, <2>2, <2>3, <2>4, <2>5 DEF Calm
<1> QED
  BY <1>1, <1>3, <1>5, <1>6, <1>7, <1>8, <1>9, Assembled

(* GET finds the record pending: there was no decision to overrule yet.    *)
LEMMA CheckStatusKeeps ==
    ASSUME ClickInv, NEW c \in Clicks, Slack!CheckStatus(c)
    PROVE  ClickInv'
<1> DEFINE s == IF record[c.gate] = "pending" THEN "publish" ELSE "release"
<1>1. /\ click[c] = "status" /\ Slack!Goto(c, s)
      /\ UNCHANGED <<record, lock, outcomes, failed, expiries>>
  BY DEF Slack!CheckStatus, Slack!At
<1>2. /\ c.gate \in Gates /\ s \in Slack!ClickSteps /\ s \in {"publish", "release"}
      /\ s = "publish" <=> record[c.gate] = "pending"
  BY DeskAssumption DEF Slack!ClickSteps
<1> HIDE DEF s
<1>3. /\ click' \in [Clicks -> Slack!ClickSteps] /\ click'[c] = s
      /\ \A d \in Clicks \ {c} : click'[d] = click[d]
  BY <1>1, <1>2, GotoClick DEF ClickInv
<1>4. ClickTyped' /\ Turns(c) /\ Smooth
  BY <1>1, <1>3 DEF ClickInv, ClickTyped, Turns, Smooth
<1>5. Trouble' = Trouble /\ Trouble <= Trouble' /\ Trouble \in Nat
  BY <1>4, SmoothFacts DEF ClickInv
<1>6. c \notin outcomes /\ \A d \in Clicks : Holder(d)' <=> Holder(d)
  BY <1>1, <1>2, <1>3 DEF ClickInv, Clicking, Holder
<1>7. Bounded(c.gate)'
  <2>1. /\ Engaged(c.gate)' = Engaged(c.gate) /\ Spoilt(c.gate)' = Spoilt(c.gate)
        /\ Deciding(c.gate)' \subseteq Engaged(c.gate)
        /\ s = "release" => Deciding(c.gate)' \subseteq Deciding(c.gate)
    BY <1>1, <1>2, <1>3, <1>6 DEF Engaged, Spoilt, Deciding, Of, Holder
  <2>2. Open(c.gate)' = Open(c.gate) /\ Taken(c.gate)' = Taken(c.gate)
    BY <1>1 DEF Open, Taken
  <2>3. Bounded(c.gate)
    BY <1>2 DEF ClickInv, Clicking
  <2>4. Cardinality(Deciding(c.gate)') <= 1 + Trouble
    <3>1. CASE s = "release"
      <4>1. Cardinality(Deciding(c.gate)') <= Cardinality(Deciding(c.gate))
        BY <2>1, <3>1, CountFacts, Finite
      <4> QED
        BY <1>5, <2>3, <4>1, CountFacts, CountFactsNext DEF Bounded
    <3>2. CASE s = "publish"
      <4>1. Cardinality(Deciding(c.gate)') <= Cardinality(Engaged(c.gate))
        BY <2>1, CountFacts, Finite
      <4>2. Open(c.gate)
        BY <1>2, <3>2 DEF Open
      <4> QED
        BY <1>5, <2>3, <4>1, <4>2, CountFacts, CountFactsNext DEF Bounded
    <3> QED
      BY <1>2, <3>1, <3>2
  <2> QED
    BY <1>5, <2>1, <2>2, <2>3, <2>4 DEF Bounded
<1>8. Calm'
  <2> SUFFICES ASSUME Trouble = 0
               PROVE  Calm'
    BY <1>5 DEF Calm
  <2>1. Calm
    BY DEF ClickInv
  <2>2. \A d \in outcomes' : record'[d.gate] = d.what \/ click'[d] = "record"
    BY <1>1, <1>3, <1>6, <2>1 DEF Calm, ClickInv, ClickTyped
  <2>3. \A d \in Clicks : click'[d] \in {"publish", "record"} => record'[d.gate] = "pending"
    BY <1>1, <1>2, <1>3, <2>1 DEF Calm
  <2> QED
    BY <1>1, <1>6, <2>1, <2>2, <2>3 DEF Calm
<1> QED
  BY <1>1, <1>2, <1>3, <1>4, <1>5, <1>6, <1>7, <1>8, Assembled

LEMMA PublishOutcomeKeeps ==
    ASSUME ClickInv, NEW c \in Clicks, Slack!PublishOutcome(c)
    PROVE  ClickInv'
<1>1. /\ click[c] = "publish" /\ Slack!Goto(c, "record") /\ outcomes' = outcomes \cup {c}
      /\ UNCHANGED <<record, lock, failed, expiries>>
  BY DEF Slack!PublishOutcome, Slack!At
<1>2. c.gate \in Gates /\ "record" \in Slack!ClickSteps
  BY DeskAssumption DEF Slack!ClickSteps
<1>3. /\ click' \in [Clicks -> Slack!ClickSteps] /\ click'[c] = "record"
      /\ \A d \in Clicks \ {c} : click'[d] = click[d]
  BY <1>1, <1>2, GotoClick DEF ClickInv
<1>4. ClickTyped' /\ Turns(c) /\ Smooth
  BY <1>1, <1>3 DEF ClickInv, ClickTyped, Turns, Smooth
<1>5. Trouble' = Trouble /\ Trouble <= Trouble' /\ Trouble \in Nat
  BY <1>4, SmoothFacts DEF ClickInv
<1>6. \A d \in Clicks : Holder(d)' <=> Holder(d)
  BY <1>1, <1>3 DEF Holder
<1>7. Bounded(c.gate)'
  <2>1. /\ Engaged(c.gate)' \subseteq Engaged(c.gate) /\ Spoilt(c.gate)' \subseteq Spoilt(c.gate)
        /\ Deciding(c.gate)' \subseteq Deciding(c.gate)
    BY <1>1, <1>3, <1>6 DEF Engaged, Spoilt, Deciding, Of, Holder
  <2>2. Open(c.gate)' = Open(c.gate) /\ Taken(c.gate)' = Taken(c.gate)
    BY <1>1 DEF Open, Taken
  <2>3. Bounded(c.gate) /\ Taken(c.gate) + Trouble <= Taken(c.gate)' + Trouble'
    BY <1>2, <1>5, <2>2, CountFacts DEF ClickInv, Clicking
  <2> QED
    BY <1>2, <1>4, <1>5, <2>1, <2>2, <2>3, NobodyEnters DEF ClickInv
<1>8. Calm'
  <2> SUFFICES ASSUME Trouble = 0
               PROVE  Calm'
    BY <1>5 DEF Calm
  <2>1. Calm
    BY DEF ClickInv
  <2>2. \A d \in outcomes' : record'[d.gate] = d.what \/ click'[d] = "record"
    BY <1>1, <1>3, <2>1 DEF Calm, ClickInv, ClickTyped
  <2>3. \A d \in Clicks : click'[d] \in {"publish", "record"} => record'[d.gate] = "pending"
    BY <1>1, <1>3, <2>1 DEF Calm
  <2> QED
    BY <1>1, <1>6, <2>1, <2>2, <2>3 DEF Calm
<1> QED
  BY <1>1, <1>3, <1>4, <1>5, <1>7, <1>8, Assembled

(* SET: the request is decided, and no one else is left who found it       *)
(* pending, unless there was trouble.                                      *)
LEMMA RecordKeeps ==
    ASSUME ClickInv, NEW c \in Clicks, Slack!Record(c)
    PROVE  ClickInv'
<1>1. /\ click[c] = "record" /\ Slack!Goto(c, "release")
      /\ record' = [record EXCEPT ![c.gate] = c.what]
      /\ UNCHANGED <<lock, outcomes, failed, expiries>>
  BY DEF Slack!Record, Slack!At
<1>2. /\ c.gate \in Gates /\ c.what \in {"approved", "rejected"}
      /\ "release" \in Slack!ClickSteps
  BY DeskAssumption DEF Slack!ClickSteps, Decisions
<1>3. /\ click' \in [Clicks -> Slack!ClickSteps] /\ click'[c] = "release"
      /\ \A d \in Clicks \ {c} : click'[d] = click[d]
  BY <1>1, <1>2, GotoClick DEF ClickInv
<1>4. /\ record' \in [Gates -> {"none", "pending", "approved", "rejected"}]
      /\ record'[c.gate] = c.what /\ \A g \in Gates \ {c.gate} : record'[g] = record[g]
  BY <1>1, <1>2 DEF ClickInv, ClickTyped
<1>5. ClickTyped' /\ Turns(c) /\ Smooth
  BY <1>1, <1>3, <1>4 DEF ClickInv, ClickTyped, Turns, Smooth
<1>6. Trouble' = Trouble /\ Trouble <= Trouble' /\ Trouble \in Nat
  BY <1>5, SmoothFacts DEF ClickInv
<1>7. Holder(c) /\ \A d \in Clicks : Holder(d)' <=> Holder(d)
  BY <1>1, <1>3 DEF Holder
<1>8. Bounded(c.gate)'
  <2>1. Deciding(c.gate)' \subseteq Deciding(c.gate)
    BY <1>1, <1>3 DEF Deciding, Of
  <2>2. ~Open(c.gate)'
    BY <1>2, <1>4 DEF Open
  <2>3. Bounded(c.gate)
    BY <1>2 DEF ClickInv, Clicking
  <2>4. Cardinality(Deciding(c.gate)') <= Cardinality(Deciding(c.gate))
    BY <2>1, CountFacts, Finite
  <2> QED
    BY <1>6, <2>2, <2>3, <2>4, CountFacts, CountFactsNext DEF Bounded
<1>9. Calm'
  <2> SUFFICES ASSUME Trouble = 0
               PROVE  Calm'
    BY <1>6 DEF Calm
  <2>1. Calm
    BY DEF ClickInv
  <2>2. \A d \in Clicks : Holder(d) /\ d.gate = c.gate => d = c
    BY <1>7, <2>1 DEF Calm
  <2>3. ASSUME NEW d \in outcomes
        PROVE  record'[d.gate] = d.what \/ click'[d] = "record"
    <3>1. d \in Clicks /\ d.gate \in Gates /\ d.what \in {"approved", "rejected"}
      BY DeskAssumption DEF ClickInv, ClickTyped, Decisions
    <3>2. CASE d.gate = c.gate
      <4>1. record[c.gate] = "pending"
        BY <1>1, <2>1 DEF Calm
      <4>2. click[d] = "record"
        BY <2>1, <3>1, <3>2, <4>1 DEF Calm
      <4>3. d = c
        BY <2>2, <3>1, <3>2, <4>2 DEF Holder
      <4> QED
        BY <1>4, <4>3
    <3>3. CASE d.gate # c.gate
      BY <1>3, <1>4, <2>1, <3>1, <3>3 DEF Calm
    <3> QED
      BY <3>2, <3>3
  <2>4. ASSUME NEW d \in Clicks, click'[d] \in {"publish", "record"}
        PROVE  record'[d.gate] = "pending"
    <3>1. d # c /\ click[d] = click'[d]
      BY <1>3, <2>4
    <3>2. d.gate # c.gate /\ d.gate \in Gates
      BY <2>2, <2>4, <3>1, DeskAssumption DEF Holder
    <3> QED
      BY <1>4, <2>1, <2>4, <3>1, <3>2 DEF Calm
  <2>5. \A d \in outcomes' : record'[d.gate] = d.what \/ click'[d] = "record"
    BY <1>1, <2>3
  <2> QED
    BY <1>1, <1>7, <2>1, <2>4, <2>5 DEF Calm
<1>10. c \in outcomes
  BY <1>1 DEF ClickInv, Clicking
<1> QED
  BY <1>1, <1>3, <1>5, <1>6, <1>8, <1>9, <1>10, Assembled

(* DEL: one holder less, and what was left of the lock.                    *)
LEMMA ReleaseKeeps ==
    ASSUME ClickInv, NEW c \in Clicks, Slack!Release(c)
    PROVE  ClickInv'
<1>1. /\ click[c] = "release" /\ Slack!Goto(c, "done")
      /\ lock' = [lock EXCEPT ![c.gate] = "free"]
      /\ UNCHANGED <<record, outcomes, failed, expiries>>
  BY DEF Slack!Release, Slack!At
<1>2. c.gate \in Gates /\ "done" \in Slack!ClickSteps
  BY DeskAssumption DEF Slack!ClickSteps
<1>3. /\ click' \in [Clicks -> Slack!ClickSteps] /\ click'[c] = "done"
      /\ \A d \in Clicks \ {c} : click'[d] = click[d]
  BY <1>1, <1>2, GotoClick DEF ClickInv
<1>4. /\ lock' \in [Gates -> {"free", "held", "timed"}] /\ lock'[c.gate] = "free"
      /\ \A g \in Gates \ {c.gate} : lock'[g] = lock[g]
  BY <1>1, <1>2 DEF ClickInv, ClickTyped
<1>5. ClickTyped' /\ Turns(c) /\ Smooth
  BY <1>1, <1>3, <1>4 DEF ClickInv, ClickTyped, Turns, Smooth
<1>6. Trouble' = Trouble /\ Trouble <= Trouble' /\ Trouble \in Nat
  BY <1>5, SmoothFacts DEF ClickInv
<1>7. Holder(c) /\ \A d \in Clicks : Holder(d)' <=> Holder(d) /\ d # c
  BY <1>1, <1>3 DEF Holder
<1>8. Bounded(c.gate)'
  <2>1. /\ Engaged(c.gate)' \subseteq Engaged(c.gate) /\ Spoilt(c.gate)' \subseteq Spoilt(c.gate) \ {c}
        /\ Deciding(c.gate)' \subseteq Deciding(c.gate)
        /\ c \in outcomes => c \in Spoilt(c.gate)
        /\ c \notin outcomes => c \in Engaged(c.gate) /\ Engaged(c.gate)' \subseteq Engaged(c.gate) \ {c}
    BY <1>1, <1>3, <1>7 DEF Engaged, Spoilt, Deciding, Of
  <2>2. /\ Cardinality(Engaged(c.gate)') <= Cardinality(Engaged(c.gate))
        /\ Cardinality(Spoilt(c.gate)') <= Cardinality(Spoilt(c.gate))
        /\ Cardinality(Deciding(c.gate)') <= Cardinality(Deciding(c.gate))
    <3>1. Spoilt(c.gate)' \subseteq Spoilt(c.gate)
      BY <2>1
    <3> QED
      BY <2>1, <3>1, CountFacts, Finite
  <2>3. \/ Cardinality(Engaged(c.gate)') + 1 <= Cardinality(Engaged(c.gate))
        \/ Cardinality(Spoilt(c.gate)') + 1 <= Cardinality(Spoilt(c.gate))
    BY <2>1, CountFacts, Finite
  <2>4. Open(c.gate)' = Open(c.gate) /\ Taken(c.gate)' = 0
    BY <1>1, <1>4 DEF Open, Taken
  <2>5. Bounded(c.gate)
    BY <1>2 DEF ClickInv, Clicking
  <2> QED
    BY <1>6, <2>2, <2>3, <2>4, <2>5, CountFacts, CountFactsNext DEF Bounded
<1>9. Calm'
  <2> SUFFICES ASSUME Trouble = 0
               PROVE  Calm'
    BY <1>6 DEF Calm
  <2>1. Calm
    BY DEF ClickInv
  <2>2. \A d \in outcomes' : record'[d.gate] = d.what \/ click'[d] = "record"
    BY <1>1, <1>3, <2>1 DEF Calm, ClickInv, ClickTyped
  <2>3. \A d \in Clicks : click'[d] \in {"publish", "record"} => record'[d.gate] = "pending"
    BY <1>1, <1>3, <2>1 DEF Calm
  <2>4. ASSUME NEW d \in Clicks, Holder(d)'
        PROVE  lock'[d.gate] # "free"
    <3>1. Holder(d) /\ d # c /\ d.gate \in Gates
      BY <1>7, <2>4, DeskAssumption
    <3>2. d.gate # c.gate
      BY <1>7, <2>1, <3>1 DEF Calm
    <3> QED
      BY <1>4, <2>1, <3>1, <3>2 DEF Calm
  <2>5. ASSUME NEW g \in Gates, lock'[g] # "free"
        PROVE  \E d \in Clicks : d.gate = g /\ Holder(d)'
    <3>1. g # c.gate /\ lock[g] # "free"
      BY <1>4, <2>5
    <3> QED
      BY <1>7, <2>1, <3>1 DEF Calm
  <2> QED
    BY <1>7, <2>1, <2>2, <2>3, <2>4, <2>5 DEF Calm
<1> QED
  BY <1>1, <1>3, <1>5, <1>6, <1>8, <1>9, Assembled

(* A command of a click raises: if it was the SET, the lock will be given  *)
(* back with the record still open.                                        *)
LEMMA ClickFailsKeeps ==
    ASSUME ClickInv, NEW c \in Clicks, Slack!ClickFails(c)
    PROVE  ClickInv'
<1>1. PICK s \in {"release", "done"} :
         /\ Slack!Goto(c, s) /\ failed < MaxFaults /\ failed' = failed + 1
         /\ s = "release" => click[c] \in {"status", "publish", "record"}
         /\ s = "done" => click[c] \in {"lock", "expire", "release"}
         /\ UNCHANGED <<record, lock, outcomes, expiries>>
  BY DEF Slack!ClickFails
<1>2. c.gate \in Gates /\ s \in Slack!ClickSteps
  BY DeskAssumption DEF Slack!ClickSteps
<1>3. /\ click' \in [Clicks -> Slack!ClickSteps] /\ click'[c] = s
      /\ \A d \in Clicks \ {c} : click'[d] = click[d]
  BY <1>1, <1>2, GotoClick DEF ClickInv
<1>4. failed' \in 0..MaxFaults
  BY <1>1, DeskAssumption DEF ClickInv, ClickTyped
<1>5. ClickTyped' /\ Turns(c)
  BY <1>1, <1>3, <1>4 DEF ClickInv, ClickTyped, Turns
<1>6. Trouble' = Trouble + 1 /\ Trouble <= Trouble' /\ Trouble \in Nat
  <2>1. Trouble' = failed' + expiries'
    BY DEF Trouble
  <2> QED
    BY <1>1, <2>1, TroubleFacts DEF ClickInv
<1>7. Bounded(c.gate)'
  <2>1. /\ Engaged(c.gate)' \subseteq Engaged(c.gate)
        /\ Spoilt(c.gate)' \subseteq Spoilt(c.gate) \cup {c}
        /\ Deciding(c.gate)' \subseteq Deciding(c.gate)
    BY <1>1, <1>3 DEF Engaged, Spoilt, Deciding, Of, Holder
  <2>2. /\ Cardinality(Engaged(c.gate)') <= Cardinality(Engaged(c.gate))
        /\ Cardinality(Spoilt(c.gate)') <= Cardinality(Spoilt(c.gate)) + 1
        /\ Cardinality(Deciding(c.gate)') <= Cardinality(Deciding(c.gate))
    BY <2>1, CountFacts, Finite
  <2>3. Open(c.gate)' = Open(c.gate) /\ Taken(c.gate)' = Taken(c.gate)
    BY <1>1 DEF Open, Taken
  <2>4. Bounded(c.gate)
    BY <1>2 DEF ClickInv, Clicking
  <2> QED
    BY <1>6, <2>2, <2>3, <2>4, CountFacts, CountFactsNext DEF Bounded
<1>8. Calm'
  BY <1>6 DEF Calm
<1>9. /\ c \in outcomes' => click'[c] \in {"record", "release", "done"}
      /\ click'[c] = "record" => c \in outcomes'
  BY <1>1, <1>3
<1> QED
  BY <1>5, <1>6, <1>7, <1>8, <1>9, Assembled

(* Whatever hits more than one click, or none of them.                     *)
LEMMA LockExpiresKeeps ==
    ASSUME ClickInv, NEW g \in Gates, Slack!LockExpires(g)
    PROVE  ClickInv'
<1>1. /\ lock[g] = "timed" /\ expiries < MaxExpiries /\ expiries' = expiries + 1
      /\ lock' = [lock EXCEPT ![g] = "free"]
      /\ UNCHANGED <<record, click, outcomes, failed>>
  BY DEF Slack!LockExpires
<1>2. expiries' \in 0..MaxExpiries
  BY <1>1, DeskAssumption DEF ClickInv, ClickTyped
<1>3. ClickTyped'
  BY <1>1, <1>2 DEF ClickInv, ClickTyped
<1>4. Trouble' = Trouble + 1 /\ Trouble <= Trouble' /\ Trouble \in Nat
  <2>1. Trouble' = failed' + expiries'
    BY DEF Trouble
  <2> QED
    BY <1>1, <2>1, TroubleFacts DEF ClickInv
<1>5. ASSUME NEW h \in Gates
      PROVE  Bounded(h)'
  <2>1. Engaged(h)' = Engaged(h) /\ Spoilt(h)' = Spoilt(h) /\ Deciding(h)' = Deciding(h)
    BY <1>1 DEF Engaged, Spoilt, Deciding, Of, Holder
  <2>2. Open(h)' = Open(h) /\ Bounded(h)
    BY <1>1 DEF Open, ClickInv, Clicking
  <2>3. Taken(h) <= Taken(h)' + 1
    BY CountFacts, CountFactsNext
  <2> QED
    BY <1>3, <1>4, <2>1, <2>2, <2>3, CountFacts, CountFactsNext DEF Bounded
<1>6. Calm'
  BY <1>4 DEF Calm
<1> QED
  BY <1>1, <1>3, <1>5, <1>6 DEF ClickInv, Clicking

LEMMA RestartKeeps ==
    ASSUME ClickInv, Slack!Restart
    PROVE  ClickInv'
<1>1. /\ failed < MaxFaults /\ failed' = failed + 1
      /\ click' = [c \in Clicks |-> IF Slack!Working(c) THEN "done" ELSE click[c]]
      /\ UNCHANGED <<record, lock, outcomes, expiries>>
  BY DEF Slack!Restart
<1>2. \A c \in Clicks : click'[c] \in {click[c], "done"} /\ click'[c] \in {"new", "done"}
  BY <1>1 DEF Slack!Working
<1>3. click' \in [Clicks -> Slack!ClickSteps]
  BY <1>1 DEF ClickInv, ClickTyped, Slack!ClickSteps
<1>4. failed' \in 0..MaxFaults
  BY <1>1, DeskAssumption DEF ClickInv, ClickTyped
<1>5. ClickTyped'
  BY <1>1, <1>3, <1>4 DEF ClickInv, ClickTyped
<1>6. Trouble' = Trouble + 1 /\ Trouble <= Trouble' /\ Trouble \in Nat
  <2>1. Trouble' = failed' + expiries'
    BY DEF Trouble
  <2> QED
    BY <1>1, <2>1, TroubleFacts DEF ClickInv
<1>7. ASSUME NEW g \in Gates
      PROVE  Bounded(g)'
  <2>1. /\ Engaged(g)' \subseteq Engaged(g) /\ Spoilt(g)' \subseteq Spoilt(g)
        /\ Deciding(g)' \subseteq Deciding(g)
    BY <1>1, <1>2 DEF Engaged, Spoilt, Deciding, Of, Holder
  <2>2. Open(g)' = Open(g) /\ Bounded(g) /\ Taken(g)' = Taken(g)
    BY <1>1 DEF Open, Taken, ClickInv, Clicking
  <2>3. Taken(g) + Trouble <= Taken(g)' + Trouble'
    BY <1>6, <2>2, CountFacts
  <2> QED
    BY <1>5, <1>6, <2>1, <2>2, <2>3, NobodyEnters DEF ClickInv
<1>8. Calm'
  BY <1>6 DEF Calm
<1>9. \A c \in Clicks : /\ c \in outcomes' => click'[c] \in {"record", "release", "done"}
                        /\ click'[c] = "record" => c \in outcomes'
  BY <1>1, <1>2 DEF ClickInv, Clicking
<1> QED
  BY <1>5, <1>7, <1>8, <1>9 DEF ClickInv, Clicking

LEMMA RegisterKeeps ==
    ASSUME ClickInv, NEW g \in Gates, Slack!Register(g)
    PROVE  ClickInv'
<1>1. /\ record[g] = "none" /\ record' = [record EXCEPT ![g] = "pending"]
      /\ UNCHANGED <<lock, click, outcomes, failed, expiries>>
  BY DEF Slack!Register
<1>2. /\ record'[g] = "pending" /\ \A h \in Gates \ {g} : record'[h] = record[h]
      /\ record' \in [Gates -> {"none", "pending", "approved", "rejected"}]
  BY <1>1 DEF ClickInv, ClickTyped
<1>3. ClickTyped' /\ Smooth
  BY <1>1, <1>2 DEF ClickInv, ClickTyped, Smooth
<1>4. Trouble' = Trouble /\ Trouble <= Trouble' /\ Trouble \in Nat
  BY <1>3, SmoothFacts DEF ClickInv
<1>5. ASSUME NEW h \in Gates
      PROVE  Bounded(h)'
  <2>1. Engaged(h)' = Engaged(h) /\ Spoilt(h)' = Spoilt(h) /\ Deciding(h)' = Deciding(h)
    BY <1>1 DEF Engaged, Spoilt, Deciding, Of, Holder
  <2>2. (Open(h)' <=> Open(h)) /\ Bounded(h) /\ Taken(h)' = Taken(h)
    BY <1>1, <1>2 DEF Open, Taken, ClickInv, Clicking
  <2> QED
    BY <1>4, <2>1, <2>2 DEF Bounded
<1>6. Calm'
  <2> SUFFICES ASSUME Trouble = 0
               PROVE  Calm'
    BY <1>4 DEF Calm
  <2>1. Calm
    BY DEF ClickInv
  <2>2. \A d \in Clicks : Holder(d)' <=> Holder(d)
    BY <1>1 DEF Holder
  <2>3. \A d \in Clicks : d.gate \in Gates /\ d.what \in {"approved", "rejected"}
    BY DeskAssumption DEF Decisions
  <2>4. \A d \in outcomes' : record'[d.gate] = d.what \/ click'[d] = "record"
    BY <1>1, <1>2, <2>1, <2>3 DEF Calm, ClickInv, ClickTyped
  <2>5. \A d \in Clicks : click'[d] \in {"publish", "record"} => record'[d.gate] = "pending"
    BY <1>1, <1>2, <2>1, <2>3 DEF Calm
  <2> QED
    BY <1>1, <2>1, <2>2, <2>4, <2>5 DEF Calm
<1> QED
  BY <1>1, <1>3, <1>5, <1>6 DEF ClickInv, Clicking

LEMMA ClickStays ==
    ASSUME ClickInv, UNCHANGED <<record, lock, click, outcomes, expiries>>,
           failed' = failed \/ (failed < MaxFaults /\ failed' = failed + 1)
    PROVE  ClickInv'
<1>1. failed' \in 0..MaxFaults
  BY DeskAssumption DEF ClickInv, ClickTyped
<1>2. ClickTyped'
  BY <1>1 DEF ClickInv, ClickTyped
<1>3. Trouble <= Trouble' /\ Trouble \in Nat /\ Trouble' \in Nat
  <2>1. Trouble' = failed' + expiries'
    BY DEF Trouble
  <2> QED
    BY <1>2, <2>1, TroubleFacts, TroubleNext DEF ClickInv
<1>4. ASSUME NEW h \in Gates
      PROVE  Bounded(h)'
  <2>1. Engaged(h)' = Engaged(h) /\ Spoilt(h)' = Spoilt(h) /\ Deciding(h)' = Deciding(h)
    BY DEF Engaged, Spoilt, Deciding, Of, Holder
  <2>2. Open(h)' = Open(h) /\ Bounded(h) /\ Taken(h)' = Taken(h)
    BY DEF Open, Taken, ClickInv, Clicking
  <2> QED
    BY <1>3, <2>1, <2>2, CountFacts, CountFactsNext DEF Bounded
<1>5. Calm'
  <2>1. Trouble' = 0 => Trouble = 0
    BY <1>3
  <2>2. Calm
    BY DEF ClickInv
  <2> QED
    BY <2>1, <2>2 DEF Calm, Holder
<1> QED
  BY <1>2, <1>4, <1>5 DEF ClickInv, Clicking

-----------------------------------------------------------------------------
(* The messages.                                                           *)

(* FiniteSets as SlackGate sees it.                                        *)
LEMMA SameCount == \A S : Slack!Cardinality(S) = Cardinality(S)
BY DEF Slack!Cardinality, Cardinality

Hands == [step : Slack!PostSteps, gate : read]
PostTyped ==
    /\ stream \subseteq Gates /\ read \subseteq stream
    /\ batch \subseteq read /\ Cardinality(batch) <= BatchSize
    /\ hand \in {Slack!NoHand} \cup Hands
    /\ hand # Slack!NoHand => hand.gate \notin batch \cup acked
    /\ posted \subseteq read /\ acked \subseteq read
    /\ messages \in [Gates -> Nat]

\* A request is read once; the message is sent between the check and the mark,
\* and what is handled is neither waiting nor acknowledged.
Posting ==
    /\ IsFiniteSet(stream)
    /\ acked \cap batch = {}
    /\ \A g \in Gates : messages[g] <= 1 /\ (messages[g] > 0 => g \in read \ batch)
    /\ \A g \in posted : messages[g] > 0
    /\ \A g \in acked : messages[g] > 0 \/ g \in Unrouted
    /\ hand # Slack!NoHand =>
         /\ hand.step \in {"check", "post"} => messages[hand.gate] = 0
         /\ hand.step = "mark" => messages[hand.gate] > 0
         /\ hand.step = "ack" => messages[hand.gate] > 0 \/ hand.gate \in Unrouted

PostInv == PostTyped /\ Posting

LEMMA HandFacts ==
    ASSUME PostTyped
    PROVE  /\ \A s \in Slack!PostSteps, g \in read :
                 [step |-> s, gate |-> g] \in Hands /\ [step |-> s, gate |-> g] # Slack!NoHand
           /\ hand # Slack!NoHand =>
                /\ hand \in Hands /\ hand.gate \in read /\ hand.gate \in Gates
                /\ hand.step \in Slack!PostSteps
                /\ \A s \in Slack!PostSteps :
                     [hand EXCEPT !.step = s] = [step |-> s, gate |-> hand.gate]
<1>1. ASSUME NEW s \in Slack!PostSteps, NEW g
      PROVE  [step |-> s, gate |-> g] # Slack!NoHand
  <2>1. s # "none"
    BY DEF Slack!PostSteps
  <2>2. [step |-> s, gate |-> g].step = s /\ Slack!NoHand.step = "none"
    BY DEF Slack!NoHand
  <2> QED
    BY <2>1, <2>2
<1>2. hand # Slack!NoHand => hand \in Hands
  BY DEF PostTyped
<1> QED
  BY <1>1, <1>2 DEF PostTyped, Hands

LEMMA RequestedKeeps ==
    ASSUME PostInv, NEW g \in Gates, Slack!Requested(g)
    PROVE  PostInv'
<1>1. stream' = stream \cup {g} /\ UNCHANGED <<read, batch, hand, posted, acked, messages>>
  BY DEF Slack!Requested
<1>2. IsFiniteSet(stream')
  BY <1>1, FS_AddElement DEF PostInv, Posting
<1>3. PostTyped'
  BY <1>1 DEF PostInv, PostTyped, Hands
<1> QED
  BY <1>1, <1>2, <1>3 DEF PostInv, Posting

LEMMA ReadEventsKeeps ==
    ASSUME PostInv, Slack!ReadEvents
    PROVE  PostInv'
<1>1. PICK new \in SUBSET (stream \ read) :
         /\ hand = Slack!NoHand /\ Cardinality(new) <= BatchSize
         /\ read' = read \cup new /\ batch' = new
         /\ UNCHANGED <<stream, hand, posted, acked, messages>>
  BY SameCount DEF Slack!ReadEvents
<1>2. PostTyped'
  BY <1>1 DEF PostInv, PostTyped
<1> QED
  BY <1>1, <1>2 DEF PostInv, PostTyped, Posting

LEMMA HandleKeeps ==
    ASSUME PostInv, Slack!Handle
    PROVE  PostInv'
<1>1. PICK g \in batch : /\ hand' = [step |-> "check", gate |-> g] /\ batch' = batch \ {g}
                         /\ UNCHANGED <<stream, read, posted, acked, messages>>
  BY DEF Slack!Handle
<1>2. g \in read /\ g \in Gates /\ messages[g] = 0 /\ g \notin acked
  BY DEF PostInv, PostTyped, Posting
<1>3. hand' \in Hands /\ hand'.step = "check" /\ hand'.gate = g
  BY <1>1, <1>2, HandFacts DEF PostInv, Slack!PostSteps
<1>4. Cardinality(batch') <= BatchSize
  <2>1. IsFiniteSet(batch)
    BY FS_Subset DEF PostInv, PostTyped, Posting
  <2>2. Cardinality(batch') = Cardinality(batch) - 1 /\ Cardinality(batch) \in Nat
    BY <1>1, <2>1, FS_RemoveElement, FS_CardinalityType
  <2> QED
    BY <2>2, DeskAssumption DEF PostInv, PostTyped
<1>5. PostTyped'
  BY <1>1, <1>2, <1>3, <1>4 DEF PostInv, PostTyped, Hands
<1> QED
  BY <1>1, <1>2, <1>3, <1>5 DEF PostInv, Posting

(* The hand goes on, by one of the steps after the check.                  *)
LEMMA HandKeeps ==
    ASSUME PostInv, Slack!CheckPosted \/ Slack!Post \/ Slack!MarkPosted \/ Slack!Acknowledge
    PROVE  PostInv'
<1>1. PICK g : g = hand.gate
  OBVIOUS
<1>2. hand # Slack!NoHand /\ UNCHANGED <<stream, read, batch>>
  BY DEF Slack!CheckPosted, Slack!Post, Slack!MarkPosted, Slack!Acknowledge, Slack!HandAt
<1>3. g \in read /\ g \in Gates /\ g \notin batch \cup acked /\ hand \in Hands
  BY <1>1, <1>2, HandFacts DEF PostInv, PostTyped
<1>4. ASSUME NEW s \in Slack!PostSteps, hand' = [hand EXCEPT !.step = s]
      PROVE  hand' \in Hands' /\ hand' # Slack!NoHand /\ hand'.step = s /\ hand'.gate = g
  <2>1. hand' = [step |-> s, gate |-> g]
    BY <1>1, <1>2, <1>4, HandFacts DEF PostInv
  <2> QED
    BY <1>2, <1>3, <2>1, HandFacts DEF PostInv, Hands
<1>5. CASE Slack!CheckPosted
  <2> DEFINE s == IF hand.gate \in posted \cup Unrouted THEN "ack" ELSE "post"
  <2>1. /\ hand.step = "check" /\ hand' = [hand EXCEPT !.step = s]
        /\ UNCHANGED <<posted, acked, messages>>
    BY <1>5 DEF Slack!CheckPosted, Slack!HandAt
  <2>2. /\ s \in Slack!PostSteps /\ s \in {"ack", "post"}
        /\ s = "ack" => g \in posted \cup Unrouted
    BY <1>1 DEF Slack!PostSteps
  <2> HIDE DEF s
  <2>3. hand' \in Hands' /\ hand' # Slack!NoHand /\ hand'.step = s /\ hand'.gate = g
    BY <1>4, <2>1, <2>2
  <2>4. PostTyped'
    BY <1>2, <1>3, <2>1, <2>3 DEF PostInv, PostTyped
  <2>5. messages[g] = 0 /\ (g \in posted => messages[g] > 0)
    BY <1>1, <1>2, <2>1 DEF PostInv, Posting
  <2> QED
    BY <1>2, <2>1, <2>2, <2>3, <2>4, <2>5 DEF PostInv, Posting
<1>6. CASE Slack!Post
  <2>1. /\ hand.step = "post" /\ hand' = [hand EXCEPT !.step = "mark"]
        /\ messages' = [messages EXCEPT ![g] = @ + 1]
        /\ UNCHANGED <<posted, acked>>
    BY <1>1, <1>6 DEF Slack!Post, Slack!HandAt
  <2>2. hand' \in Hands' /\ hand' # Slack!NoHand /\ hand'.step = "mark" /\ hand'.gate = g
    BY <1>4, <2>1 DEF Slack!PostSteps
  <2>3. messages[g] = 0
    BY <1>1, <1>2, <2>1 DEF PostInv, Posting
  <2>4. /\ messages' \in [Gates -> Nat] /\ messages'[g] = 1
        /\ \A h \in Gates \ {g} : messages'[h] = messages[h]
    BY <1>3, <2>1, <2>3 DEF PostInv, PostTyped
  <2>5. PostTyped'
    BY <1>2, <1>3, <2>1, <2>2, <2>4 DEF PostInv, PostTyped
  <2>6. \A h \in Gates : messages'[h] <= 1 /\ (messages'[h] > 0 => h \in read' \ batch')
    BY <1>2, <1>3, <2>4 DEF PostInv, Posting
  <2>7. posted \subseteq Gates /\ acked \subseteq Gates
    BY DEF PostInv, PostTyped
  <2> QED
    BY <1>2, <2>1, <2>2, <2>4, <2>5, <2>6, <2>7 DEF PostInv, Posting
<1>7. CASE Slack!MarkPosted
  <2>1. /\ hand.step = "mark" /\ hand' = [hand EXCEPT !.step = "ack"]
        /\ posted' = posted \cup {g} /\ UNCHANGED <<acked, messages>>
    BY <1>1, <1>7 DEF Slack!MarkPosted, Slack!HandAt
  <2>2. hand' \in Hands' /\ hand' # Slack!NoHand /\ hand'.step = "ack" /\ hand'.gate = g
    BY <1>4, <2>1 DEF Slack!PostSteps
  <2>3. messages[g] > 0
    BY <1>1, <1>2, <2>1 DEF PostInv, Posting
  <2>4. PostTyped'
    BY <1>2, <1>3, <2>1, <2>2 DEF PostInv, PostTyped
  <2> QED
    BY <1>2, <2>1, <2>2, <2>3, <2>4 DEF PostInv, Posting
<1>8. CASE Slack!Acknowledge
  <2>1. /\ hand.step = "ack" /\ hand' = Slack!NoHand
        /\ acked' = acked \cup {g} /\ UNCHANGED <<posted, messages>>
    BY <1>1, <1>8 DEF Slack!Acknowledge, Slack!HandAt
  <2>2. messages[g] > 0 \/ g \in Unrouted
    BY <1>1, <1>2, <2>1 DEF PostInv, Posting
  <2>3. PostTyped'
    BY <1>2, <1>3, <2>1 DEF PostInv, PostTyped
  <2> QED
    BY <1>2, <1>3, <2>1, <2>2, <2>3 DEF PostInv, Posting
<1> QED
  BY <1>5, <1>6, <1>7, <1>8

(* Handling an event fails, or the bridge restarts: what was read and not  *)
(* handled is never read again.                                            *)
LEMMA HandDrops ==
    ASSUME PostInv, hand' = Slack!NoHand, batch' \in {batch, {}},
           UNCHANGED <<stream, read, posted, acked, messages>>
    PROVE  PostInv'
<1>1. Cardinality(batch') <= BatchSize
  <2>1. CASE batch' = batch
    BY <2>1 DEF PostInv, PostTyped
  <2>2. CASE batch' = {}
    <3>1. Cardinality(batch') = 0
      BY <2>2, FS_EmptySet
    <3> QED
      BY <3>1, DeskAssumption
  <2> QED
    BY <2>1, <2>2
<1>2. PostTyped'
  BY <1>1 DEF PostInv, PostTyped
<1> QED
  BY <1>2 DEF PostInv, Posting

LEMMA PostStays ==
    ASSUME PostInv, UNCHANGED Slack!postVars
    PROVE  PostInv'
<1>1. UNCHANGED <<stream, read, batch, hand, posted, acked, messages>>
  BY DEF Slack!postVars
<1>2. PostTyped'
  BY <1>1 DEF PostInv, PostTyped, Hands
<1> QED
  BY <1>1, <1>2 DEF PostInv, Posting

-----------------------------------------------------------------------------
(* The dispatcher and the bridge together.                                 *)

\* What is on the stream has its bundle and was logged as requested.
WasRequested(g) == \E e \in history \cap audit : e.gate = g /\ e.what = "requested"
Evidence == \A g \in stream : g \in bundles /\ WasRequested(g)
DeskInv  == RequestInv /\ PostInv /\ ClickInv /\ Evidence

LEMMA SlackStepKeeps ==
    ASSUME PostInv, ClickInv, Slack!SlackNext
    PROVE  PostInv' /\ ClickInv' /\ stream' = stream
<1>1. CASE Slack!PostStep
  <2>1. UNCHANGED <<record, lock, click, outcomes, failed, expiries, stream>>
    BY <1>1 DEF Slack!PostStep, Slack!ReadEvents, Slack!Handle, Slack!CheckPosted, Slack!Post,
                Slack!MarkPosted, Slack!Acknowledge, Slack!clickVars
  <2> QED
    BY <1>1, <2>1, ClickStays, ReadEventsKeeps, HandleKeeps, HandKeeps DEF Slack!PostStep
<1>2. CASE Slack!PostFails
  <2>1. /\ failed < MaxFaults /\ failed' = failed + 1 /\ hand' = Slack!NoHand
        /\ UNCHANGED <<stream, read, batch, posted, acked, messages>>
        /\ UNCHANGED <<record, lock, click, outcomes, expiries>>
    BY <1>2 DEF Slack!PostFails, Slack!clickVars
  <2> QED
    BY <2>1, ClickStays, HandDrops
<1>3. CASE Slack!Restart
  <2>1. /\ hand' = Slack!NoHand /\ batch' = {}
        /\ UNCHANGED <<stream, read, posted, acked, messages>>
    BY <1>3 DEF Slack!Restart
  <2> QED
    BY <1>3, <2>1, HandDrops, RestartKeeps
<1>4. ASSUME NEW c \in Clicks, Slack!Click(c) \/ Slack!ClickStep(c) \/ Slack!ClickFails(c)
      PROVE  PostInv' /\ ClickInv' /\ stream' = stream
  <2>1. UNCHANGED Slack!postVars
    BY <1>4 DEF Slack!Click, Slack!ClickStep, Slack!Acquire, Slack!SetTtl, Slack!CheckStatus,
                Slack!PublishOutcome, Slack!Record, Slack!Release, Slack!ClickFails
  <2>2. stream' = stream
    BY <2>1 DEF Slack!postVars
  <2>3. ClickInv'
    BY <1>4, ClickKeeps, AcquireKeeps, SetTtlKeeps, CheckStatusKeeps, PublishOutcomeKeeps,
       RecordKeeps, ReleaseKeeps, ClickFailsKeeps DEF Slack!ClickStep
  <2> QED
    BY <2>1, <2>2, <2>3, PostStays
<1>5. ASSUME NEW g \in Gates, Slack!LockExpires(g) \/ Slack!Register(g)
      PROVE  PostInv' /\ ClickInv' /\ stream' = stream
  <2>1. UNCHANGED Slack!postVars
    BY <1>5 DEF Slack!LockExpires, Slack!Register
  <2>2. stream' = stream
    BY <2>1 DEF Slack!postVars
  <2> QED
    BY <1>5, <2>1, <2>2, PostStays, LockExpiresKeeps, RegisterKeeps
<1> QED
  BY <1>1, <1>2, <1>3, <1>4, <1>5 DEF Slack!SlackNext

(* What is published by a step was known, so its bundle is stored.         *)
LEMMA PublishedIsKnown ==
    ASSUME RequestInv, GateNext, NEW e \in published' \ published
    PROVE  e.gate \in known /\ e.gate \in Gates
<1>1. ASSUME NEW p \in Procs, Publish(p)
      PROVE  e.gate \in known /\ e.gate \in Gates
  <2>1. job[p].step = "publish" /\ e = Fact(p)
    BY <1>1 DEF Publish, At
  <2>2. Works(p)
    BY <2>1 DEF Works, Idle
  <2>3. job[p].gate \in known /\ job[p].gate \in Gates
    BY <2>1, <2>2, JobFacts DEF RequestInv, JobsKnow, JobKnows, Before
  <2> QED
    BY <2>1, <2>3 DEF Fact
<1>2. ASSUME published' = published
      PROVE  FALSE
  BY <1>2
<1>3. CASE \E p \in Callers, g \in Gates : Request(p, g) \/ \E v \in Decisions : Decide(p, g, v)
  BY <1>2, <1>3 DEF Request, Decide, Call
<1>4. CASE \E g \in Gates : Tick(g)
  BY <1>2, <1>4 DEF Tick
<1>5. CASE \E p \in Sweepers : Scan(p)
  BY <1>2, <1>5 DEF Scan
<1>6. ASSUME NEW p \in Procs, Step(p) \/ Abort(p)
      PROVE  e.gate \in known /\ e.gate \in Gates
  BY <1>1, <1>2, <1>6 DEF Step, Store, StoreBundle, List, Read, Write, Unlist, LogHistory,
                          LogAudit, Abort
<1> QED
  BY <1>3, <1>4, <1>5, <1>6 DEF GateNext

(* The logs and the bundles only grow.                                     *)
LEMMA LogsGrow ==
    ASSUME GateNext
    PROVE  history \subseteq history' /\ audit \subseteq audit' /\ bundles \subseteq bundles'
<1>1. CASE \E p \in Callers, g \in Gates : Request(p, g) \/ \E v \in Decisions : Decide(p, g, v)
  BY <1>1 DEF Request, Decide, Call
<1>2. CASE \E g \in Gates : Tick(g)
  BY <1>2 DEF Tick
<1>3. CASE \E p \in Sweepers : Scan(p)
  BY <1>3 DEF Scan
<1>4. ASSUME NEW p \in Procs, Step(p) \/ Abort(p)
      PROVE  history \subseteq history' /\ audit \subseteq audit' /\ bundles \subseteq bundles'
  BY <1>4 DEF Step, Store, StoreBundle, List, Read, Write, Unlist, LogHistory, LogAudit, Publish,
              Abort
<1> QED
  BY <1>1, <1>2, <1>3, <1>4 DEF GateNext

LEMMA GateStepKeepsDesk ==
    ASSUME DeskInv, GateStep
    PROVE  DeskInv'
<1> DEFINE new == {e \in published' \ published : e.what = "requested"}
<1>1. GateNext /\ IF new = {} THEN UNCHANGED slackVars ELSE \E e \in new : Slack!Requested(e.gate)
  BY DEF GateStep
<1>2. RequestInv'
  BY <1>1, GateStepKeeps DEF DeskInv
<1>3. \A g \in stream : g \in bundles' /\ WasRequested(g)'
  BY <1>1, LogsGrow DEF DeskInv, Evidence, WasRequested
<1>4. CASE new = {}
  <2>1. UNCHANGED slackVars
    BY <1>1, <1>4
  <2>2. PostInv' /\ ClickInv'
    BY <2>1, PostStays, ClickStays DEF slackVars, Slack!postVars, DeskInv
  <2>3. Evidence'
    BY <1>3, <2>1 DEF slackVars, Evidence
  <2> QED
    BY <1>2, <2>2, <2>3 DEF DeskInv
<1>5. ASSUME NEW e \in new, Slack!Requested(e.gate)
      PROVE  DeskInv'
  <2>1. e \in published' \ published /\ e.what = "requested"
    OBVIOUS
  <2>2. e.gate \in known /\ e.gate \in Gates
    BY <1>1, <2>1, PublishedIsKnown DEF DeskInv
  <2>3. e.gate \in bundles'
    BY <1>1, <2>2, LogsGrow DEF DeskInv, RequestInv, KnownAreStored
  <2>4. e \in history' \cap audit'
    BY <1>2, <2>1 DEF RequestInv, AnnouncedWasLogged
  <2>5. WasRequested(e.gate)'
    BY <2>1, <2>4 DEF WasRequested
  <2>6. /\ stream' = stream \cup {e.gate}
        /\ UNCHANGED <<record, lock, click, outcomes, failed, expiries>>
    BY <1>5 DEF Slack!Requested, Slack!clickVars
  <2>7. Evidence'
    BY <1>3, <2>3, <2>5, <2>6 DEF Evidence
  <2>8. PostInv'
    BY <1>5, <2>2, RequestedKeeps DEF DeskInv
  <2>9. ClickInv'
    BY <2>6, ClickStays DEF DeskInv
  <2> QED
    BY <1>2, <2>7, <2>8, <2>9 DEF DeskInv
<1> QED
  BY <1>1, <1>4, <1>5

LEMMA DeskInitHolds == DeskInit => DeskInv
<1> SUFFICES ASSUME DeskInit
             PROVE  DeskInv
  OBVIOUS
<1>1. RequestInv
  BY GateInitHolds DEF DeskInit
<1>2. PostInv
  <2>1. PostTyped
    BY FS_EmptySet, DeskAssumption DEF DeskInit, Slack!SlackInit, PostTyped
  <2> QED
    BY <2>1, FS_EmptySet DEF DeskInit, Slack!SlackInit, PostInv, Posting
<1>3. ClickTyped
  BY DeskAssumption DEF DeskInit, Slack!SlackInit, ClickTyped, Slack!ClickSteps
<1>4. Clicking
  <2>1. ASSUME NEW g \in Gates
        PROVE  Bounded(g)
    <3>1. Engaged(g) = {} /\ Spoilt(g) = {} /\ Deciding(g) = {}
      BY DEF DeskInit, Slack!SlackInit, Engaged, Spoilt, Deciding, Of, Holder
    <3>2. Taken(g) = 0 /\ Trouble = 0
      BY DEF DeskInit, Slack!SlackInit, Taken, Trouble
    <3> QED
      BY <3>1, <3>2, FS_EmptySet DEF Bounded
  <2> QED
    BY <2>1 DEF DeskInit, Slack!SlackInit, Clicking
<1>5. Calm
  BY DEF DeskInit, Slack!SlackInit, Calm, Holder
<1>6. Evidence
  BY DEF DeskInit, Slack!SlackInit, Evidence
<1> QED
  BY <1>1, <1>2, <1>3, <1>4, <1>5, <1>6 DEF DeskInv, ClickInv

LEMMA DeskKeeps ==
    ASSUME DeskInv, [DeskNext]_deskVars
    PROVE  DeskInv'
<1>1. CASE GateStep
  BY <1>1, GateStepKeepsDesk
<1>2. CASE SlackStep
  <2>1. Slack!SlackNext /\ UNCHANGED gateVars
    BY <1>2 DEF SlackStep
  <2>2. RequestInv'
    BY <2>1, GateStepKeeps DEF DeskInv
  <2>3. PostInv' /\ ClickInv' /\ stream' = stream
    BY <2>1, SlackStepKeeps DEF DeskInv
  <2>4. Evidence'
    BY <2>1, <2>3 DEF DeskInv, Evidence, WasRequested, gateVars
  <2> QED
    BY <2>2, <2>3, <2>4 DEF DeskInv
<1>3. CASE UNCHANGED deskVars
  <2>1. UNCHANGED gateVars /\ UNCHANGED slackVars
    BY <1>3 DEF deskVars
  <2>2. RequestInv'
    BY <2>1, GateStepKeeps DEF DeskInv
  <2>3. PostInv' /\ ClickInv'
    BY <2>1, PostStays, ClickStays DEF slackVars, Slack!postVars, DeskInv
  <2>4. Evidence'
    BY <2>1 DEF DeskInv, Evidence, WasRequested, gateVars, slackVars
  <2> QED
    BY <2>2, <2>3, <2>4 DEF DeskInv
<1> QED
  BY <1>1, <1>2, <1>3 DEF DeskNext

LEMMA DeskAlways == DeskSpec => []DeskInv
BY DeskInitHolds, DeskKeeps, PTL DEF DeskSpec

LEMMA BridgeFollows ==
    ASSUME DeskInv
    PROVE  BridgeIsTrue
<1>1. PostedHasEvidence
  <2>1. ASSUME NEW g \in Gates, messages[g] > 0
        PROVE  g \in stream
    BY <2>1 DEF DeskInv, PostInv, PostTyped, Posting
  <2> QED
    BY <2>1 DEF PostedHasEvidence, DeskInv, Evidence, WasRequested
<1>2. Slack!PostedOnce /\ Slack!AckedIsPosted
  BY DEF DeskInv, PostInv, Posting, Slack!PostedOnce, Slack!AckedIsPosted
<1>3. ASSUME NEW g \in Gates
      PROVE  Cardinality({c \in outcomes : c.gate = g}) <= 1 + failed + expiries
  <2>1. {c \in outcomes : c.gate = g} \subseteq Deciding(g)
    BY DEF Deciding, Of, DeskInv, ClickInv, ClickTyped
  <2>2. Cardinality({c \in outcomes : c.gate = g}) <= Cardinality(Deciding(g))
    BY <2>1, CountFacts, Finite
  <2>3. Cardinality({c \in outcomes : c.gate = g}) \in Nat
    <3>1. {c \in outcomes : c.gate = g} \subseteq Of(g)
      BY <2>1, CountFacts
    <3> QED
      BY <3>1, Finite
  <2>4. Cardinality(Deciding(g)) <= 1 + Trouble
    BY DEF DeskInv, ClickInv, Clicking, Bounded
  <2> QED
    BY <2>2, <2>3, <2>4, CountFacts, TroubleFacts DEF DeskInv, ClickInv
<1>4. Slack!OutcomesHaveACause
  BY <1>3, SameCount DEF Slack!OutcomesHaveACause
<1>5. ASSUME failed + expiries = 0
      PROVE  /\ \A g \in Gates : lock[g] # "free" => \E c \in Clicks : c.gate = g /\ Slack!Working(c)
             /\ \A c \in outcomes : record[c.gate] = c.what \/ click[c] = "record"
  <2>1. Calm /\ Trouble = 0
    BY <1>5 DEF DeskInv, ClickInv, Trouble
  <2>2. \A c \in Clicks : Holder(c) => Slack!Working(c)
    BY DEF Holder, Slack!Working
  <2> QED
    BY <2>1, <2>2 DEF Calm
<1>6. Slack!LocksHaveHolders
  BY <1>5 DEF Slack!LocksHaveHolders
<1>7. Slack!OneOutcome
  <2> SUFFICES ASSUME failed + expiries = 0, NEW g \in Gates
               PROVE  /\ Cardinality({c \in outcomes : c.gate = g}) <= 1
                      /\ \A c \in outcomes : c.gate = g => record[g] = c.what \/ click[c] = "record"
    BY SameCount DEF Slack!OneOutcome
  <2>1. 1 + failed + expiries = 1
    BY TroubleFacts DEF DeskInv, ClickInv
  <2> QED
    BY <1>3, <1>5, <2>1
<1> QED
  BY <1>1, <1>2, <1>4, <1>6, <1>7 DEF BridgeIsTrue

\* The dispatcher and the bridge of src/src/infrastructure/slack_bridge keep their types:
\* in particular the bridge never handles what it has acknowledged.
THEOREM DeskTyped == DeskSpec => []DeskTypeOK
<1>1. DeskInv => DeskTypeOK
  BY SameCount DEF DeskInv, RequestInv, PostInv, PostTyped, Hands, ClickInv, ClickTyped, DeskTypeOK,
         Slack!SlackTypeOK
<1> QED
  BY <1>1, DeskAlways, PTL

\* What HITLDispatcher promises (RequestsTrue) holds beside the bridge as well.
THEOREM DeskRequestsTrue == DeskSpec => []RequestsAreTrue
<1>1. DeskInv => RequestsAreTrue
  BY RequestsFollow DEF DeskInv
<1> QED
  BY <1>1, DeskAlways, PTL

\* The bridge posts a request once, with its evidence, before it acknowledges it; a gate has one
\* outcome, which its record names, and a lock someone holds, unless a lock expired or a command
\* failed, and never more outcomes than one and one for each of those.
THEOREM BridgeTrue == DeskSpec => []BridgeIsTrue
<1>1. DeskInv => BridgeIsTrue
  BY BridgeFollows
<1> QED
  BY <1>1, DeskAlways, PTL
=============================================================================
