---------------------------- MODULE EventEntries ----------------------------
(***************************************************************************)
(* The entries of the Redis event stream, as src/src/core/events.py and    *)
(* src/src/infrastructure/redis_streams.py write and read them.  Only what *)
(* the consumers branch on is kept: the idempotency key, and whether the   *)
(* entry parses and is of a type the group's handler accepts.              *)
(***************************************************************************)
EXTENDS Naturals, Sequences

CONSTANTS Keys,     \* idempotency keys (hash of type, session, task, epic)
          NoKey     \* an entry published without a key

ASSUME KeyAssumption == NoKey \notin Keys

\* "event": a type the handler accepts; "foreign": another type;
\* "unparseable": ASDLCEvent.from_stream_dict raises on it.
Kinds == {"event", "foreign", "unparseable"}

Entry == [key : Keys \cup {NoKey}, kind : Kinds]

\* ensure_stream_exists writes an entry with neither event_type nor
\* session_id; from_stream_dict rejects the empty session_id.
Placeholder == [key |-> NoKey, kind |-> "unparseable"]

Parses(e) == e.kind # "unparseable"
CanHandle(e) == e.kind = "event"
=============================================================================
