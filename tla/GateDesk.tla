------------------------------ MODULE GateDesk ------------------------------
(***************************************************************************)
(* HITLDispatcher and the Slack bridge together.  They meet in the event   *)
(* stream only: GATE_REQUESTED goes from HitlGate to the bridge, and what  *)
(* the bridge publishes does not come back to the dispatcher, because      *)
(* nothing under src/ calls record_decision for it.                        *)
(***************************************************************************)
EXTENDS HitlGate

CONSTANTS Clicks, Allowed, Unrouted, BatchSize, MaxFaults, MaxExpiries

\* A click is on a button of a message: it names a request and a decision.
ASSUME DeskAssumption ==
    /\ IsFiniteSet(Clicks)
    /\ \A c \in Clicks : c.gate \in Gates /\ c.what \in Decisions
    /\ BatchSize \in Nat /\ MaxFaults \in Nat /\ MaxExpiries \in Nat

VARIABLES stream, read, batch, hand, posted, acked, messages,
          record, lock, click, outcomes, failed, expiries

Slack == INSTANCE SlackGate

slackVars == <<stream, read, batch, hand, posted, acked, messages,
               record, lock, click, outcomes, failed, expiries>>
deskVars  == <<gateVars, slackVars>>

DeskInit == GateInit /\ Slack!SlackInit

\* The publication of GATE_REQUESTED is also an entry for the bridge's group.
GateStep ==
    /\ GateNext
    /\ LET new == {e \in published' \ published : e.what = "requested"}
       IN IF new = {} THEN UNCHANGED slackVars
          ELSE \E e \in new : Slack!Requested(e.gate)

SlackStep == Slack!SlackNext /\ UNCHANGED gateVars

DeskNext == GateStep \/ SlackStep

\* The loop of the bridge goes on; somebody calls check_expired as long as there
\* is something to expire (nothing under src/ does), and its coroutine goes on.
Sweep(p) == (Scan(p) \/ Step(p)) /\ UNCHANGED slackVars
PostLoop == Slack!PostStep /\ UNCHANGED gateVars

DeskSpec == /\ DeskInit /\ [][DeskNext]_deskVars
            /\ \A p \in Sweepers : WF_deskVars(Sweep(p))
            /\ WF_deskVars(PostLoop)

-----------------------------------------------------------------------------
(* Properties of the two together, and those of the bridge.                *)

\* Whoever is asked in Slack can look at the evidence: the message comes after
\* the bundle, the pending set and the log (request_gate publishes last).
PostedHasEvidence ==
    \A g \in Gates : messages[g] > 0 =>
        /\ g \in bundles
        /\ \E e \in history \cap audit : e.gate = g /\ e.what = "requested"

DeskTypeOK == GateTypeOK /\ Slack!SlackTypeOK
RequestsArePosted == Slack!RequestsArePosted

\* The bridge posts a request once, with its evidence, before it acknowledges it, and takes one
\* outcome of all the clicks on it, under a lock that is given back (GateConsumer,
\* DecisionHandler).
BridgeIsTrue ==
    /\ PostedHasEvidence /\ Slack!PostedOnce /\ Slack!AckedIsPosted
    /\ Slack!OneOutcome /\ Slack!OutcomesHaveACause /\ Slack!LocksHaveHolders
=============================================================================
