----------------------------- MODULE MCServices -----------------------------
(* Instances for TLC of nine components that share no state.  Each behaviour    *)
(* is one of a part, chosen in the initial state: the variables of the others   *)
(* keep their initial values.  The mailbox has two parts, of acknowledgements   *)
(* and of notifications, and the gates have two: of the callers of the          *)
(* dispatcher, with the bridge down, and of the bridge, with requests that      *)
(* nobody decides elsewhere.                                                    *)
EXTENDS ClassificationQueue, SwarmReview, CoordinationMailbox, GitGateway, StageGates, TddLoop, RlmExplore, MessageQueries, GateDesk

CONSTANTS a1, a2, a3, b1, b2, g1, g2, c1, c2, s1

\* Two reviewers who disagree about g1, and one who has not the role for it.
MCClick(what, by) == [gate |-> g1, what |-> what, by |-> by]
MCAllowed == {MCClick("approved", 1), MCClick("rejected", 2)}
MCClicks == MCAllowed \cup {MCClick("approved", 3)}

VARIABLE part

Parts == {"batch", "swarm", "acks", "mail", "git", "stages", "tdd", "rlm", "queries",
          "dispatcher", "bridge"}

servicesVars == <<batchVars, swarmVars, mailVars, gitVars, stageVars, tddVars, rlmVars,
    queryVars, deskVars, part>>

MCInit ==
    /\ part \in Parts
    /\ BatchInit /\ SwarmInit /\ MailInit /\ GitInit /\ StageInit /\ TddInit /\ RlmInit
    /\ QueryInit /\ DeskInit
    /\ IF part = "queries" THEN \E m \in Sent : sent[m].second > 1 /\ sent[m].apt
       ELSE \A m \in Sent : sent[m] = [second |-> 1, apt |-> TRUE]

\* Of two that are alike, the swarms and the reviewers of a swarm, the first goes first.
Unfinished(s, v) == reviewer[s][v] \in {"none", "running"}
Swarming ==
    /\ SwarmNext
    /\ request[a1] = "new" => request'[a2] = "new"
    /\ \A s \in Swarms : Unfinished(s, b1)' => Unfinished(s, b2)'
Acks ==
    /\ MailNext
    /\ presence' = presence /\ fresh' = fresh /\ listening' = listening /\ queue' = queue
    /\ \A m \in Broadcasts : publish'[m] = "new"
Mail == MailNext /\ acker' = acker /\ \A m \in Msgs : hash'[m] # "expired"
\* Those since a moment are asked for without another filter and while nobody acknowledges,
\* those of an inbox all; and no acknowledgement begins within a query.
Querying ==
    /\ QueryNext
    /\ query'.since # NoMoment => ~query'.inbox /\ ~query'.pending /\ ~query'.sifted /\ acking' = 0
    /\ query'.inbox => ~query'.sifted
    /\ query'.at # "new" => acking' \in {0, acking}
\* One caller requests, both decide.
Dispatching == GateStep /\ (job'[c2] # Idle => job'[c2].what # "requested")
\* A request is made without the bridge in between and before any click; first clicks the one
\* who has not the role; no request expires, and the one that is not posted has no record.
Bridging ==
    /\ DeskNext /\ aborts' = 0
    /\ job[c1] # Idle => job' # job
    /\ record'[g2] = "none" /\ due' = {}
    /\ \A c \in Clicks : click[c] # "new" => job' = job
    /\ \A c \in Clicks \ Allowed, d \in Allowed : click[d] # "new" => click'[c] = click[c]
    /\ \A p \in Procs : job'[p] # Idle => p = c1 /\ job'[p].what = "requested"

Others(what) ==
    /\ what # "batch" => UNCHANGED batchVars
    /\ what # "swarm" => UNCHANGED swarmVars
    /\ what # "mail" => UNCHANGED mailVars
    /\ what # "git" => UNCHANGED gitVars
    /\ what # "stages" => UNCHANGED stageVars
    /\ what # "tdd" => UNCHANGED tddVars
    /\ what # "rlm" => UNCHANGED rlmVars
    /\ what # "queries" => UNCHANGED queryVars
    /\ what # "desk" => UNCHANGED deskVars

MCNext ==
    /\ UNCHANGED part
    /\ \/ part = "batch" /\ BatchNext /\ Others("batch")
       \/ part = "swarm" /\ Swarming /\ Others("swarm")
       \/ part = "acks" /\ Acks /\ Others("mail")
       \/ part = "mail" /\ Mail /\ Others("mail")
       \/ part = "git" /\ GitNext /\ Others("git")
       \/ part = "stages" /\ StageNext /\ Others("stages")
       \/ part = "tdd" /\ TddNext /\ Others("tdd")
       \/ part = "rlm" /\ RlmNext /\ Others("rlm")
       \/ part = "queries" /\ Querying /\ Others("queries")
       \/ part = "dispatcher" /\ Dispatching /\ Others("desk")
       \/ part = "bridge" /\ Bridging /\ Others("desk")

\* A process that runs goes on, and check_expired is called.
MCSpec ==
    /\ MCInit /\ [][MCNext]_servicesVars
    /\ WF_batchVars(part = "batch" /\ BatchProgress)
    /\ WF_swarmVars(part = "swarm" /\ SwarmProgress)
    /\ WF_tddVars(part = "tdd" /\ TddProgress)
    /\ WF_rlmVars(part = "rlm" /\ RlmProgress)
    /\ \A p \in Sweepers : WF_deskVars(part = "dispatcher" /\ Sweep(p))
    /\ WF_deskVars(part = "bridge" /\ PostLoop)

----------------------------------------------------------------------------
(* The properties that are of several components. *)

\* A release was approved at its gates and nobody decides for nobody; an implementation that is
\* submitted passed its tests and its review, after a bounded number of codings.
WorkIsJudged ==
    /\ StageTypeOK /\ ReleaseWasApproved /\ UndecidedIsAwaited
    /\ TddTypeOK /\ SubmittedIsJudged /\ CodingsBounded /\ AnalysisIsRecent

\* A message is heard or waits, and waits for its acknowledgement until it has one; a query
\* misses what it was asked for only for a cause, and fails only on what a race left.
MailIsKept ==
    /\ MailTypeOK /\ NotificationsKept /\ PendingIsUnanswered /\ PartialWasCaught
    /\ AnswerHasTheNewest /\ AnswerIsAsked /\ FailsOnPartial

\* Swarms stay within their slots and explorations within their budget, a report has every
\* reviewer that was waited for, and a question is paid once.
LimitsHold ==
    /\ SwarmTypeOK /\ SlotsBounded /\ ReportIsFull
    /\ RlmTypeOK /\ BudgetKept /\ AnsweredOnce

\* What begins ends: a batch, a slot that is taken, a swarm, the TDD loop, an exploration; and
\* stays as it ended: a session, the name on an answered message, a budget that refuses.
EndsAreReached ==
    /\ EndedStays /\ AnswerStays /\ RefusedIsSpent
    /\ part = "batch" => BatchEnds
    /\ SlotsReturn /\ SwarmsEnd
    /\ part = "tdd" => LoopEnds
    /\ ExplorationsEnd

\* A request does not stay as it is: past its time it is closed, if check_expired is called; and
\* while the bridge runs it is posted.
DeskMovesOn == DueIsClosed /\ (part = "bridge" => RequestsArePosted)
=============================================================================
