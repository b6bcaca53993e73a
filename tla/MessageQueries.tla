--------------------------- MODULE MessageQueries ---------------------------
(***************************************************************************)
(* A query of the coordination messages (coord_check_messages of the MCP   *)
(* server, get_messages of the client) while others publish, acknowledge   *)
(* and let expire: the ids come from the inbox, the pending set or the     *)
(* timeline, its newest or those since a moment; then each message is      *)
(* read, sifted by sender, type and moment, and the newest are answered.   *)
(* The timeline has the fraction of a second in its scores, the messages   *)
(* have their timestamps without it.                                       *)
(***************************************************************************)
EXTENDS Naturals, Sequences, FiniteSets, SequencesExt, FiniteSetsExt

CONSTANTS
    MaxMessages,    \* published, each with the number of its publication
    QueryLimit,
    TimelineSize,   \* timeline_max_size
    MaxSecond       \* the second of now: a timestamp has no less

ASSUME QueryAssumption ==
    /\ MaxMessages \in Nat \ {0} /\ QueryLimit \in Nat /\ TimelineSize \in Nat
    /\ MaxSecond \in Nat

VARIABLES
    sent,           \* the messages: second, and whether for the inbox, or of the sender and type, asked for
    body,           \* per message its hash: open, acked, gone, or the acknowledgement alone
    acking,         \* the message that an acknowledgement has found there, or 0
    query,          \* where it is, what it asks, the ids left, what it read, the answer
    steady          \* history: messages that were there, as asked for, since the query began

queryVars == <<sent, body, acking, query, steady>>

Sent == 1..Len(sent)

\* A moment: its second, whether it is the second's beginning, and how many messages were
\* published before it.
Moments == {t \in [second : 1..MaxSecond, whole : BOOLEAN, after : 0..Len(sent)] :
    /\ \A m \in Sent : m > t.after => sent[m].second >= t.second
    /\ \A m \in 1..t.after : sent[m].second <= t.second /\ (t.whole => sent[m].second # t.second)}
NoMoment == [second |-> 0, whole |-> TRUE, after |-> 0]

AskedMessages == [inbox : BOOLEAN, pending : BOOLEAN, sifted : BOOLEAN, since : Moments \cup {NoMoment}]
NoQuery == [at |-> "new", inbox |-> FALSE, pending |-> FALSE, sifted |-> FALSE, since |-> NoMoment,
            ids |-> {}, read |-> {}, answer |-> {}]

\* Messages of some seconds before the query, none of them acknowledged.
QueryInit ==
    /\ sent \in [1..(MaxMessages - 1) -> [second : 1..MaxSecond, apt : BOOLEAN]]
    /\ \A m, n \in Sent : m < n => sent[m].second <= sent[n].second
    /\ body = [m \in Sent |-> "open"] /\ acking = 0
    /\ query = NoQuery /\ steady = {}

PublishMessage(apt) ==
    /\ Len(sent) < MaxMessages
    /\ sent' = Append(sent, [second |-> MaxSecond, apt |-> apt])
    /\ body' = Append(body, "open")
    /\ UNCHANGED <<acking, query, steady>>

\* The acknowledgement looks for the message, and writes its own fields later; what it writes
\* for a message that is gone meanwhile has no end of life.
FindMessage(m) ==
    /\ acking = 0 /\ body[m] = "open" /\ acking' = m
    /\ UNCHANGED <<sent, body, query, steady>>

\* What an acknowledged message is no longer: pending.
Leave1(m) == steady' = IF query.pending THEN steady \ {m} ELSE steady

AckMessage ==
    /\ acking # 0
    /\ body' = [body EXCEPT ![acking] = IF @ = "gone" THEN "partial" ELSE "acked"]
    /\ acking' = 0 /\ Leave1(acking)
    /\ UNCHANGED <<sent, query>>

\* A message ends (one does): its ids in the inbox, the pending set and the timeline stay.
Vanish(m) ==
    /\ body[m] \in {"open", "acked"} /\ \A n \in Sent : body[n] \notin {"gone", "partial"}
    /\ body' = [body EXCEPT ![m] = "gone"] /\ steady' = steady \ {m}
    /\ UNCHANGED <<sent, acking, query>>

\* The id of a message that is gone stays in the pending set; one that is nowhere read does no harm.
PendingIds == {m \in Sent : body[m] \in {"open", "gone"}}

OnTimeline == {m \in Sent : m + TimelineSize > Len(sent)}
\* zrevrange: twice as many as asked for.
Newest == {m \in OnTimeline : m + 2 * QueryLimit > Len(sent)}
\* zrangebyscore: all that were published since.
Since(moment) == {m \in OnTimeline : m > moment.after}

IdsOf1(asked) ==
    LET inbox == {m \in Sent : sent[m].apt} IN
    CASE asked.inbox /\ asked.pending -> inbox \cap PendingIds
      [] asked.inbox /\ ~asked.pending -> inbox
      [] ~asked.inbox /\ asked.pending -> PendingIds
      [] OTHER -> IF asked.since = NoMoment THEN Newest ELSE Since(asked.since)

Wanted(asked, m) ==
    /\ asked.inbox => sent[m].apt
    /\ asked.pending => body[m] = "open"
    /\ asked.sifted => sent[m].apt
    /\ m > asked.since.after

BeginQuery(asked) ==
    /\ query.at = "new"
    /\ query' = [query EXCEPT !.at = "ids", !.inbox = asked.inbox, !.pending = asked.pending,
                              !.sifted = asked.sifted, !.since = asked.since, !.ids = IdsOf1(asked)]
    /\ steady' = {m \in Sent : body[m] \in {"open", "acked"} /\ Wanted(asked, m)}
    /\ UNCHANGED <<sent, body, acking>>

Passed(m) == [query EXCEPT !.ids = @ \ {m}]
\* A timestamp is the beginning of its second: one of the moment's second is not before the
\* moment only if the moment is that beginning.
NotBefore(m, moment) == sent[m].second > moment.second \/ (sent[m].second = moment.second /\ moment.whole)
Fits(m) == (query.sifted => sent[m].apt) /\ NotBefore(m, query.since)
Taken1(m) == [query EXCEPT !.ids = @ \ {m}, !.read = IF Fits(m) THEN @ \cup {m} ELSE @]
\* A message that is gone is passed over; one without the fields of a message, which
\* _hash_to_message needs, fails the whole query.
Read1(m) ==
    CASE body[m] = "gone" -> Passed(m)
      [] body[m] = "partial" -> [query EXCEPT !.at = "failed"]
      [] OTHER -> Taken1(m)

ReadMessage(m) ==
    /\ query.at = "ids" /\ m \in query.ids /\ query' = Read1(m)
    /\ UNCHANGED <<sent, body, acking, steady>>

Bound(n) == IF n < QueryLimit THEN n ELSE QueryLimit
\* Sorted by their seconds: of one second, in any order.
Latest(read) == {some \in kSubset(Bound(Cardinality(read)), read) :
    \A m \in some, n \in read \ some : sent[m].second >= sent[n].second}

AnswerQuery(answer) ==
    /\ query.at = "ids" /\ query.ids = {}
    /\ answer \in Latest(query.read)
    /\ query' = [query EXCEPT !.at = "done", !.answer = answer]
    /\ UNCHANGED <<sent, body, acking, steady>>

QueryNext ==
    \/ AckMessage
    \/ \E apt \in BOOLEAN : PublishMessage(apt)
    \/ \E m \in Sent : FindMessage(m) \/ Vanish(m) \/ ReadMessage(m)
    \/ \E asked \in AskedMessages : BeginQuery(asked)
    \/ \E answer \in SUBSET Sent : AnswerQuery(answer)

----------------------------------------------------------------------------
(* Properties. *)

\* A message that was there and as asked for from the beginning of a query to its end is in the
\* answer, unless the answer is full of others, none older; a query without an inbox that is not of
\* the pending ones misses what the timeline has lost and, unless it asks for those since a moment,
\* what is not among its newest, twice the limit, of any sender and type; and one since a moment
\* within a second misses what was published after it in that second.
AnswerHasTheNewest == query.at = "done" =>
    \A m \in steady \ query.answer :
        \/ Cardinality(query.answer) = QueryLimit /\ \A n \in query.answer : sent[n].second >= sent[m].second
        \/ /\ ~query.inbox /\ ~query.pending
           /\ \/ Cardinality({n \in Sent : n > m}) >= TimelineSize
              \/ query.since = NoMoment /\ Cardinality({n \in Sent : n > m}) >= 2 * QueryLimit
        \/ ~query.since.whole /\ sent[m].second = query.since.second

\* What is answered is for the inbox, of the sender and type and since the moment asked for; of
\* the pending ones it may have been acknowledged since the query began, never before.
AnswerIsAsked == query.at = "done" => \A m \in query.answer :
    (query.inbox => sent[m].apt) /\ (query.sifted => sent[m].apt) /\ m > query.since.after

\* A query fails only on a message whose end of life fell into an acknowledgement; that message
\* then fails every query of its inbox, for it does not end.
FailsOnPartial == query.at = "failed" => \E m \in Sent : body[m] = "partial" /\ (query.inbox => sent[m].apt)
=============================================================================
