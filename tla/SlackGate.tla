----------------------------- MODULE SlackGate ------------------------------
(***************************************************************************)
(* The Slack bridge (src/src/infrastructure/slack_bridge/): GateConsumer   *)
(* posts the requests of the event stream to a channel, and                *)
(* DecisionHandler takes the clicks of reviewers there, one gate record    *)
(* and one lock per request, both in Redis.                                *)
(*                                                                         *)
(* A click is a coroutine of the bridge; its steps are its Redis commands. *)
(* The records "slack_bridge:gate:<id>" are only read and updated by the   *)
(* bridge: who creates them is outside src/ (Register).                    *)
(***************************************************************************)
EXTENDS Naturals, FiniteSets

CONSTANTS
    Gates,
    Clicks,         \* clicks of reviewers: records with a gate and a verdict (what)
    Allowed,        \* clicks by users whose role the channel requires
    Unrouted,       \* gates of a type without a channel
    BatchSize,      \* events read at a time
    MaxFaults,      \* bound: commands that raise, and crashes of the bridge
    MaxExpiries     \* bound: locks that expire

VARIABLES
    stream,     \* requests published on the event stream
    read,       \* of these, read by the group
    batch,      \* read and not handled yet
    hand,       \* the request that is being posted, and how far it got
    posted,     \* the set slack_bridge:posted_requests
    acked,      \* requests acknowledged to the group
    messages,   \* messages in Slack, per request
    record,     \* the status in slack_bridge:gate:<id>
    lock,       \* slack_bridge:lock:<id>: "free", "held" or "timed" (it has a TTL)
    click,      \* what each click is doing
    outcomes,   \* GATE_APPROVED and GATE_REJECTED published
    \* history of the run
    failed,     \* a command raised or the bridge crashed
    expiries

postVars  == <<stream, read, batch, hand, posted, acked, messages>>
clickVars == <<record, lock, click, outcomes>>
slackVars == <<postVars, clickVars, failed, expiries>>

ClickSteps == {"new", "lock", "expire", "status", "publish", "record", "release", "done"}
PostSteps  == {"check", "post", "mark", "ack"}
NoHand     == [step |-> "none"]

SlackTypeOK ==
    /\ stream \subseteq Gates /\ read \subseteq stream
    /\ batch \subseteq read /\ Cardinality(batch) <= BatchSize
    /\ hand \in {NoHand} \cup [step : PostSteps, gate : read]
    /\ hand # NoHand => hand.gate \notin batch \cup acked
    /\ posted \subseteq read /\ acked \subseteq read
    /\ messages \in [Gates -> Nat]
    /\ record \in [Gates -> {"none", "pending", "approved", "rejected"}]
    /\ lock \in [Gates -> {"free", "held", "timed"}]
    /\ click \in [Clicks -> ClickSteps]
    /\ outcomes \subseteq Clicks
    /\ failed \in 0..MaxFaults /\ expiries \in 0..MaxExpiries

SlackInit ==
    /\ stream = {} /\ read = {} /\ batch = {} /\ hand = NoHand
    /\ posted = {} /\ acked = {}
    /\ messages = [g \in Gates |-> 0]
    /\ record = [g \in Gates |-> "none"]
    /\ lock = [g \in Gates |-> "free"]
    /\ click = [c \in Clicks |-> "new"]
    /\ outcomes = {}
    /\ failed = 0 /\ expiries = 0

-----------------------------------------------------------------------------
(* GateConsumer.run posts what is requested.                               *)

Requested(g) ==
    /\ g \notin stream
    /\ stream' = stream \cup {g}
    /\ UNCHANGED <<read, batch, hand, posted, acked, messages, clickVars, failed, expiries>>

\* XREADGROUP asks for new entries only, and only between two batches.
ReadEvents ==
    /\ batch = {} /\ hand = NoHand
    /\ \E new \in SUBSET (stream \ read) :
         /\ new # {} /\ Cardinality(new) <= BatchSize
         /\ read' = read \cup new
         /\ batch' = new
    /\ UNCHANGED <<stream, hand, posted, acked, messages, clickVars, failed, expiries>>

Handle ==
    /\ hand = NoHand
    /\ \E g \in batch : /\ hand' = [step |-> "check", gate |-> g]
                        /\ batch' = batch \ {g}
    /\ UNCHANGED <<stream, read, posted, acked, messages, clickVars, failed, expiries>>

HandAt(step) == hand # NoHand /\ hand.step = step

\* Mutant: the event is acknowledged before it is handled.
CheckAcknowledged ==
    /\ HandAt("check")
    /\ acked' = acked \cup {hand.gate}
    /\ hand' = [hand EXCEPT !.step =
                  IF hand.gate \in posted \cup Unrouted THEN "ack" ELSE "post"]
    /\ UNCHANGED <<stream, read, batch, posted, messages, clickVars, failed, expiries>>

\* is_already_posted, and get_channel_for_gate.
CheckPosted ==
    /\ HandAt("check")
    /\ hand' = [hand EXCEPT !.step =
                  IF hand.gate \in posted \cup Unrouted THEN "ack" ELSE "post"]
    /\ UNCHANGED <<stream, read, batch, posted, acked, messages, clickVars, failed, expiries>>

\* chat_postMessage
Post ==
    /\ HandAt("post")
    /\ messages' = [messages EXCEPT ![hand.gate] = @ + 1]
    /\ hand' = [hand EXCEPT !.step = "mark"]
    /\ UNCHANGED <<stream, read, batch, posted, acked, clickVars, failed, expiries>>

MarkPosted ==
    /\ HandAt("mark")
    /\ posted' = posted \cup {hand.gate}
    /\ hand' = [hand EXCEPT !.step = "ack"]
    /\ UNCHANGED <<stream, read, batch, acked, messages, clickVars, failed, expiries>>

Acknowledge ==
    /\ HandAt("ack")
    /\ acked' = acked \cup {hand.gate}
    /\ hand' = NoHand
    /\ UNCHANGED <<stream, read, batch, posted, messages, clickVars, failed, expiries>>

\* What handling the event awaits raises: the event stays pending.
PostFails ==
    /\ hand # NoHand /\ failed < MaxFaults
    /\ failed' = failed + 1
    /\ hand' = NoHand
    /\ UNCHANGED <<stream, read, batch, posted, acked, messages, clickVars, expiries>>

-----------------------------------------------------------------------------
(* DecisionHandler takes a click.                                          *)

At(c, step) == click[c] = step
Goto(c, step) == click' = [click EXCEPT ![c] = step]

\* A user clicks on a message; RBAC comes first.
Click(c) ==
    /\ At(c, "new") /\ messages[c.gate] > 0
    /\ Goto(c, IF c \in Allowed THEN "lock" ELSE "done")
    /\ UNCHANGED <<postVars, record, lock, outcomes, failed, expiries>>

\* Mutant: a lock that is taken is only waited for by those who hold it.
AcquireAlways(c) ==
    /\ At(c, "lock")
    /\ lock' = [lock EXCEPT ![c.gate] = "held"]
    /\ Goto(c, "expire")
    /\ UNCHANGED <<postVars, record, outcomes, failed, expiries>>

\* SETNX; the click is refused when another one holds the lock.
Acquire(c) ==
    /\ At(c, "lock")
    /\ IF lock[c.gate] = "free"
       THEN /\ lock' = [lock EXCEPT ![c.gate] = "held"]
            /\ Goto(c, "expire")
       ELSE /\ Goto(c, "done") /\ UNCHANGED lock
    /\ UNCHANGED <<postVars, record, outcomes, failed, expiries>>

\* EXPIRE, a command of its own.
SetTtl(c) ==
    /\ At(c, "expire")
    /\ lock' = [lock EXCEPT ![c.gate] = IF @ = "held" THEN "timed" ELSE @]
    /\ Goto(c, "status")
    /\ UNCHANGED <<postVars, record, outcomes, failed, expiries>>

\* GET; a gate that is not found or not PENDING is refused.
CheckStatus(c) ==
    /\ At(c, "status")
    /\ Goto(c, IF record[c.gate] = "pending" THEN "publish" ELSE "release")
    /\ UNCHANGED <<postVars, record, lock, outcomes, failed, expiries>>

PublishOutcome(c) ==
    /\ At(c, "publish")
    /\ outcomes' = outcomes \cup {c}
    /\ Goto(c, "record")
    /\ UNCHANGED <<postVars, record, lock, failed, expiries>>

Record(c) ==
    /\ At(c, "record")
    /\ record' = [record EXCEPT ![c.gate] = c.what]
    /\ Goto(c, "release")
    /\ UNCHANGED <<postVars, lock, outcomes, failed, expiries>>

\* DEL, whoever holds the lock by now.
Release(c) ==
    /\ At(c, "release")
    /\ lock' = [lock EXCEPT ![c.gate] = "free"]
    /\ Goto(c, "done")
    /\ UNCHANGED <<postVars, record, outcomes, failed, expiries>>

\* A command of a click raises.  Only those after the lock is acquired are in
\* a try whose end releases it.
ClickFails(c) ==
    /\ failed < MaxFaults /\ failed' = failed + 1
    /\ \/ click[c] \in {"status", "publish", "record"} /\ Goto(c, "release")
       \/ click[c] \in {"lock", "expire", "release"} /\ Goto(c, "done")
    /\ UNCHANGED <<postVars, record, lock, outcomes, expiries>>

\* LOCK_TTL seconds pass.
LockExpires(g) ==
    /\ lock[g] = "timed" /\ expiries < MaxExpiries
    /\ lock' = [lock EXCEPT ![g] = "free"]
    /\ expiries' = expiries + 1
    /\ UNCHANGED <<postVars, record, click, outcomes, failed>>

Working(c) == click[c] \notin {"new", "done"}

\* The bridge crashes and starts again: nothing reads what was pending.
Restart ==
    /\ failed < MaxFaults /\ failed' = failed + 1
    /\ batch' = {} /\ hand' = NoHand
    /\ click' = [c \in Clicks |-> IF Working(c) THEN "done" ELSE click[c]]
    /\ UNCHANGED <<stream, read, posted, acked, messages, record, lock, outcomes, expiries>>

\* Outside src/: the record of a request is created.
Register(g) ==
    /\ g \in stream /\ record[g] = "none"
    /\ record' = [record EXCEPT ![g] = "pending"]
    /\ UNCHANGED <<postVars, lock, click, outcomes, failed, expiries>>

PostStep == ReadEvents \/ Handle \/ CheckPosted \/ Post \/ MarkPosted \/ Acknowledge
ClickStep(c) == \/ Acquire(c) \/ SetTtl(c) \/ CheckStatus(c) \/ PublishOutcome(c)
                \/ Record(c) \/ Release(c)

SlackNext ==
    \/ PostStep \/ PostFails \/ Restart
    \/ \E c \in Clicks : Click(c) \/ ClickStep(c) \/ ClickFails(c)
    \/ \E g \in Gates : LockExpires(g) \/ Register(g)

-----------------------------------------------------------------------------
(* Properties.                                                             *)

\* A request is posted at most once, though messages are sent before they are
\* marked: nothing that was read once is ever read again (is_already_posted).
PostedOnce == \A g \in Gates : messages[g] <= 1

\* An acknowledged request has its message, or there is no channel for it.
AckedIsPosted == \A g \in acked : messages[g] > 0 \/ g \in Unrouted

\* However many reviewers click at once, a gate has one outcome and its record
\* says which, unless a lock expired under its holder or a command failed
\* (the lock around GET, the event and SET).
OneOutcome ==
    failed + expiries = 0 =>
        \A g \in Gates :
            /\ Cardinality({c \in outcomes : c.gate = g}) <= 1
            /\ \A c \in outcomes : c.gate = g =>
                    record[g] = c.what \/ click[c] = "record"

\* A second outcome needs the lock to have expired, or the SET after the first
\* event to have failed.
OutcomesHaveACause ==
    \A g \in Gates : Cardinality({c \in outcomes : c.gate = g}) <= 1 + failed + expiries

\* A lock is held by a click at work, or was left behind by a failure; only a
\* lock without a TTL stays for ever.
LocksHaveHolders ==
    failed + expiries = 0 =>
        \A g \in Gates : lock[g] # "free" => \E c \in Clicks : c.gate = g /\ Working(c)

\* Every request that has a channel is posted, if nothing fails meanwhile.
RequestsArePosted ==
    \A g \in Gates \ Unrouted : (g \in stream) ~> (messages[g] > 0 \/ failed > 0)
=============================================================================
