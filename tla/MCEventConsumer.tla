--------------------------- MODULE MCEventConsumer --------------------------
(* Instances of EventConsumer for TLC. *)
EXTENDS EventConsumer

CONSTANTS c1, c2, k1, k2

MCConsumers == {c1, c2}
MCKeys == {k1, k2}

\* A keyed event, one published without a key, and one for another handler.
MCPublishable == {[key |-> k1, kind |-> "event"],
                  [key |-> NoKey, kind |-> "event"],
                  [key |-> k2, kind |-> "foreign"]}

\* Events of one key only: retried or duplicated requests.
SameKey == {[key |-> k1, kind |-> "event"]}

\* What a behaviour studies: "faults", one consumer whose commands fail and
\* which crashes, or "handover", two that take over each other's events.
VARIABLE study

mcVars == <<vars, study>>

\* Two events of every kind, with or without the placeholder before them.
Faults ==
    /\ pc[c2] = "down" /\ stops = 0
    /\ Len(stream) = 3 => stream[1] = Placeholder
    /\ crashes + faults + retries <= (IF Len(stream) = 3 THEN 1 ELSE 2)

\* Two events of one key, which are not evicted and are read one at a time.
Handover ==
    /\ \A i \in Ids : i <= 2 /\ stream[i] \in SameKey
    /\ Len(stream) <= cursor + 1
    /\ trimmed = 0 /\ faults + retries = 0

Within == /\ UNCHANGED study
          /\ \/ study = "faults" /\ Faults'
             \/ study = "handover" /\ Handover'

MCInit == /\ Init /\ study \in {"faults", "handover"}
          /\ study = "handover" => stream = <<>>

\* The fairness of RestartSpec, within these bounds.
MCSpec ==
    /\ MCInit
    /\ [][Next /\ Within]_mcVars
    /\ \A c \in Consumers : /\ WF_mcVars(Loop(c) /\ Within)
                            /\ WF_mcVars(Handle(c) /\ Within)
                            /\ WF_mcVars(ListPending(c) /\ Within)
    /\ \A i \in 1..MaxEvents : WF_mcVars(GoStale(i) /\ Within)

\* The recovery of RecoveredUnlessCrashedAgain, where both consumers may run.
HandoverRecovers == study = "handover" => RecoveredUnlessCrashedAgain

\* One consumer whose handler asks for a retry, with the fairness of
\* RestartSpec and without those bounds.
RetryInit == Init /\ study = "handover"

RetrySpec ==
    /\ RetryInit
    /\ [][Next /\ UNCHANGED study]_mcVars
    /\ \A c \in Consumers : /\ WF_mcVars(Loop(c) /\ UNCHANGED study)
                            /\ WF_mcVars(Handle(c) /\ UNCHANGED study)
                            /\ WF_mcVars(ListPending(c) /\ UNCHANGED study)
    /\ \A i \in 1..MaxEvents : WF_mcVars(GoStale(i) /\ UNCHANGED study)
=============================================================================
