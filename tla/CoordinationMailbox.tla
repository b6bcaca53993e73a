------------------------- MODULE CoordinationMailbox -------------------------
(***************************************************************************)
(* Messages between the instances of the coordination service              *)
(* (infrastructure/coordination): a publish stores the message, its inbox  *)
(* and pending entries and the pub/sub notification in one MULTI, then     *)
(* queues the notification if the recipient's presence says it is away;    *)
(* an acknowledgement reads the message and writes it in a second round    *)
(* trip; the recipient registers, heartbeats, listens and pops what was    *)
(* queued.  Each message has one publisher and one recipient is modelled;  *)
(* ids are random, so no two publishes share one.                          *)
(***************************************************************************)
EXTENDS Naturals, SequencesExt

CONSTANTS
    Msgs,
    Broadcasts,       \* sent to "all": no queue, no presence check
    NeedAck,          \* published with requires_ack
    Ackers,           \* concurrent calls of acknowledge_message
    PopLimits,        \* the limits pop_notifications is called with
    MaxMailFaults,    \* bound: Redis commands that raise
    MaxMailExpiries   \* bound: TTLs of messages and of the notification list that end

NoAck == "nobody"

ASSUME MailAssumption ==
    /\ Broadcasts \subseteq Msgs /\ NeedAck \subseteq Msgs /\ NoAck \notin Ackers
    /\ PopLimits \subseteq Nat

NoCall == [at |-> "idle", msg |-> "none"]

VARIABLES
    publish,    \* where each message's publisher is
    hash,       \* the message's hash: absent, open, acked, expired, or ack fields only
    ackBy,      \* its ack_by field
    pending,    \* the pending set
    queue,      \* the recipient's notification list, newest first
    presence,   \* its presence fields: none, active, or a heartbeat without "active"
    fresh,      \* whether its last heartbeat is within the timeout
    listening,  \* whether it is subscribed
    acker,      \* the call of each acker
    heard,      \* history: notifications the recipient received
    overLimit, dropped, misjudged, \* history: beyond a pop's limit; failed to be queued; taken for heard
    lapsed,     \* history: notifications that ended with their list's TTL
    ackRaced,   \* history: messages answered while another call had read them unanswered
    ackCaught,  \* history: messages that expired under an acknowledgement
    mailFaults, mailExpiries

mailVars == <<publish, hash, ackBy, pending, queue, presence, fresh, listening, acker, heard, overLimit,
              dropped, misjudged, lapsed, ackRaced, ackCaught, mailFaults, mailExpiries>>
storeVars == <<publish, hash, ackBy, pending>>
presenceVars == <<presence, fresh, listening>>
hearVars == <<queue, heard, overLimit, dropped, misjudged, lapsed>>
ackHistory == <<ackRaced, ackCaught>>
boundVars == <<mailFaults, mailExpiries>>

MailInit ==
    /\ publish = [m \in Msgs |-> "new"] /\ hash = [m \in Msgs |-> "absent"]
    /\ ackBy = [m \in Msgs |-> NoAck] /\ pending = {} /\ queue = <<>>
    /\ presence = "none" /\ fresh = FALSE /\ listening = FALSE
    /\ acker = [a \in Ackers |-> NoCall]
    /\ heard = {} /\ overLimit = {} /\ dropped = {} /\ misjudged = {} /\ lapsed = {}
    /\ ackRaced = {} /\ ackCaught = {}
    /\ mailFaults = 0 /\ mailExpiries = 0

----------------------------------------------------------------------------
(* publish_message and _queue_if_offline. *)

\* The MULTI: hash, inbox, pending set and PUBLISH take effect together.
PublishMail(m) ==
    /\ publish[m] = "new"
    /\ publish' = [publish EXCEPT ![m] = IF m \in Broadcasts THEN "done" ELSE "presence"]
    /\ hash' = [hash EXCEPT ![m] = "open"]
    /\ pending' = IF m \in NeedAck THEN pending \cup {m} ELSE pending
    /\ heard' = IF listening THEN heard \cup {m} ELSE heard
    /\ UNCHANGED <<ackBy, queue, presenceVars, acker, overLimit, dropped, misjudged, lapsed, ackHistory, boundVars>>

\* get_presence: active, and not stale.
Active == presence = "active" /\ fresh
\* Mutant: an instance that never registered is taken for present.
KnownAway == presence # "none" /\ ~Active
Away == ~Active

ReadPresence(m) ==
    /\ publish[m] = "presence"
    /\ publish' = [publish EXCEPT ![m] = IF Away THEN "queue" ELSE "done"]
    /\ misjudged' = IF Active /\ m \notin heard THEN misjudged \cup {m} ELSE misjudged
    /\ UNCHANGED <<hash, ackBy, pending, queue, presenceVars, acker, heard, overLimit, dropped, lapsed, ackHistory,
                   boundVars>>

QueueNotification(m) ==
    /\ publish[m] = "queue"
    /\ publish' = [publish EXCEPT ![m] = "done"]
    /\ queue' = <<m>> \o queue
    /\ UNCHANGED <<hash, ackBy, pending, presenceVars, acker, heard, overLimit, dropped, misjudged, lapsed,
                   ackHistory, boundVars>>

\* A command after the MULTI raises: the publish succeeds all the same.  When the reply
\* of the MULTI itself is lost, the caller is told that the publish failed.
QueueingFails(m) ==
    /\ mailFaults < MaxMailFaults /\ publish[m] \in {"presence", "queue"}
    /\ mailFaults' = mailFaults + 1
    /\ publish' = [publish EXCEPT ![m] = "done"]
    /\ \/ dropped' = dropped \cup {m} /\ UNCHANGED queue
       \/ publish[m] = "queue" /\ queue' = <<m>> \o queue /\ UNCHANGED dropped
    /\ UNCHANGED <<hash, ackBy, pending, presenceVars, acker, heard, overLimit, misjudged, lapsed, ackHistory,
                   mailExpiries>>

----------------------------------------------------------------------------
(* acknowledge_message. *)

Exists(m) == hash[m] # "expired"

\* EXISTS, then HGET: an absent message and an acknowledged one end the call.
CheckExists(a, m) ==
    /\ acker[a].at = "idle" /\ publish[m] # "new"
    /\ Exists(m)
    /\ acker' = [acker EXCEPT ![a] = [at |-> "read", msg |-> m]]
    /\ UNCHANGED <<storeVars, presenceVars, hearVars, ackHistory, boundVars>>

Acknowledged(m) == hash[m] \in {"acked", "partial"}

ReadAck(a) ==
    /\ acker[a].at = "read"
    /\ acker' = [acker EXCEPT ![a] = IF Acknowledged(acker[a].msg) THEN NoCall ELSE [@ EXCEPT !.at = "write"]]
    /\ UNCHANGED <<storeVars, presenceVars, hearVars, ackHistory, boundVars>>

\* The MULTI: HSET of the ack fields, which creates the hash when the message expired
\* meanwhile, and SREM from the pending set.
WriteAck(a) ==
    LET m == acker[a].msg IN
    /\ acker[a].at = "write"
    /\ hash' = [hash EXCEPT ![m] = IF @ \in {"open", "acked"} THEN "acked" ELSE "partial"]
    /\ ackBy' = [ackBy EXCEPT ![m] = a]
    /\ pending' = pending \ {m}
    /\ ackRaced' = IF \E b \in Ackers \ {a} : acker[b] = acker[a] THEN ackRaced \cup {m} ELSE ackRaced
    /\ acker' = [acker EXCEPT ![a] = NoCall]
    /\ UNCHANGED <<publish, presenceVars, hearVars, ackCaught, boundVars>>

\* A command of an acknowledgement raises before it ran.
AckFails(a) ==
    /\ mailFaults < MaxMailFaults /\ acker[a].at # "idle"
    /\ mailFaults' = mailFaults + 1
    /\ acker' = [acker EXCEPT ![a] = NoCall]
    /\ UNCHANGED <<storeVars, presenceVars, hearVars, ackHistory, mailExpiries>>

----------------------------------------------------------------------------
(* The recipient: presence, subscription, pop_notifications. *)

SetPresence(p, f) ==
    /\ presence' = p /\ fresh' = f
    /\ UNCHANGED <<storeVars, listening, acker, hearVars, ackHistory, boundVars>>

RegisterInstance == SetPresence("active", TRUE)
\* HSET of last_heartbeat only.
Heartbeat == SetPresence(IF presence = "none" THEN "heartbeat only" ELSE presence, TRUE)
UnregisterInstance == SetPresence("none", FALSE)
\* The timeout passes without a heartbeat.
GrowStale == presence # "none" /\ SetPresence(presence, FALSE)

\* A listener of the instance connects or goes away (subscribe_notifications).
Listen(on) ==
    /\ listening' = on
    /\ UNCHANGED <<storeVars, presence, fresh, acker, hearVars, ackHistory, boundVars>>

\* One MULTI reads at most the limit and deletes the list.
Taken(limit) == {queue[n] : n \in {k \in DOMAIN queue : k <= limit}}
BeyondLimit(limit) == {queue[n] : n \in {k \in DOMAIN queue : k > limit}}

PopNotifications(limit) ==
    /\ queue # <<>>
    /\ queue' = <<>>
    /\ heard' = heard \cup Taken(limit)
    /\ overLimit' = overLimit \cup BeyondLimit(limit)
    /\ UNCHANGED <<storeVars, presenceVars, acker, dropped, misjudged, lapsed, ackHistory, boundVars>>

\* The reply of the pop is lost after the list was deleted.
PopFails ==
    /\ mailFaults < MaxMailFaults /\ queue # <<>>
    /\ mailFaults' = mailFaults + 1
    /\ queue' = <<>>
    /\ dropped' = dropped \cup ToSet(queue)
    /\ UNCHANGED <<storeVars, presenceVars, acker, heard, overLimit, misjudged, lapsed, ackHistory, mailExpiries>>

\* Redis drops a message at the end of its TTL, but not its pending and inbox entries.
ExpireMessage(m) ==
    /\ mailExpiries < MaxMailExpiries /\ hash[m] \in {"open", "acked"}
    /\ mailExpiries' = mailExpiries + 1
    /\ hash' = [hash EXCEPT ![m] = "expired"]
    /\ ackCaught' = IF \E a \in Ackers : acker[a].msg = m THEN ackCaught \cup {m} ELSE ackCaught
    /\ UNCHANGED <<publish, ackBy, pending, presenceVars, acker, hearVars, ackRaced, mailFaults>>

\* The list has the TTL of a message, begun again by each notification that is queued: at
\* its end Redis drops what still waits there.
ExpireQueue ==
    /\ mailExpiries < MaxMailExpiries /\ queue # <<>>
    /\ mailExpiries' = mailExpiries + 1
    /\ queue' = <<>>
    /\ lapsed' = lapsed \cup ToSet(queue)
    /\ UNCHANGED <<storeVars, presenceVars, acker, heard, overLimit, dropped, misjudged, ackHistory, mailFaults>>

MailNext ==
    \/ \E m \in Msgs : \/ PublishMail(m) \/ ReadPresence(m) \/ QueueNotification(m) \/ QueueingFails(m)
                       \/ ExpireMessage(m) \/ \E a \in Ackers : CheckExists(a, m)
    \/ \E a \in Ackers : ReadAck(a) \/ WriteAck(a) \/ AckFails(a)
    \/ RegisterInstance \/ Heartbeat \/ UnregisterInstance \/ GrowStale
    \/ \E on \in BOOLEAN : Listen(on)
    \/ \E limit \in PopLimits : PopNotifications(limit)
    \/ PopFails \/ ExpireQueue

----------------------------------------------------------------------------
(* Properties. *)

MailTypeOK ==
    /\ pending \subseteq NeedAck /\ ToSet(queue) \subseteq Msgs \ Broadcasts
    /\ ackBy \in [Msgs -> Ackers \cup {NoAck}]
    /\ presence \in {"none", "active", "heartbeat only"}

\* A notification whose publish is over was heard or waits in the list; it is lost only
\* beyond the limit of a pop, which deletes the whole list, by a command that failed, with
\* the list itself when nobody pops it for the TTL of a message, or because presence called
\* active an instance that had not heard it: one that was not listening, or came between
\* the PUBLISH and the presence check.
NotificationsKept ==
    \A m \in Msgs \ Broadcasts :
        publish[m] = "done" => m \in heard \cup ToSet(queue) \cup overLimit \cup dropped \cup misjudged \cup lapsed

\* The pending set holds what needs an acknowledgement and has none, whoever races.
PendingIsUnanswered == pending = {m \in NeedAck : publish[m] # "new" /\ ackBy[m] = NoAck}

\* Once a message is answered the name on it stays, unless another call had also read
\* it unanswered, or was under way when it expired: then the last one wins, and both
\* were told they answered.
AnswerStays ==
    [][\A m \in Msgs : ackBy[m] # NoAck /\ ackBy'[m] # ackBy[m] => m \in ackRaced \cup ackCaught]_mailVars

\* A hash of acknowledgement fields alone, which _hash_to_message cannot read, comes
\* only from a message that expired between the EXISTS and the write of one call.
PartialWasCaught == \A m \in Msgs : hash[m] = "partial" => m \in ackCaught
=============================================================================
