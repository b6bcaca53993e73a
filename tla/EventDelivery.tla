---------------------------- MODULE EventDelivery ---------------------------
(***************************************************************************)
(* What a consumer group promises about the event stream, whatever its     *)
(* consumers do: an entry is settled (acknowledged for good) only for one  *)
(* of four reasons, and a key is recorded as processed only after an entry *)
(* with that key was handled successfully.  An entry may be handled any    *)
(* number of times: delivery is at least once, not exactly once.           *)
(***************************************************************************)
EXTENDS EventEntries

VARIABLES log,        \* the published entries, in order
          succeeded,  \* entries some handler run completed successfully
          refused,    \* entries some handler run failed permanently
          done,       \* idempotency keys recorded as processed
          settled     \* acknowledged entries

vars == <<log, succeeded, refused, done, settled>>

Ids == 1..Len(log)

Init == /\ log \in {<<>>, <<Placeholder>>}
        /\ succeeded = {}
        /\ refused = {}
        /\ done = {}
        /\ settled = {}

Publish == /\ \E e \in Entry : log' = Append(log, e)
           /\ UNCHANGED <<succeeded, refused, done, settled>>

Complete(i) == /\ CanHandle(log[i])
               /\ succeeded' = succeeded \cup {i}
               /\ UNCHANGED <<log, refused, done, settled>>

Refuse(i) == /\ CanHandle(log[i])
             /\ refused' = refused \cup {i}
             /\ UNCHANGED <<log, succeeded, done, settled>>

Record(i) == /\ i \in succeeded
             /\ log[i].key # NoKey
             /\ done' = done \cup {log[i].key}
             /\ UNCHANGED <<log, succeeded, refused, settled>>

\* Why an entry may leave the group for good.
Cause(i) == \/ log[i].kind = "foreign"
            \/ log[i].key \in done
            \/ log[i].key = NoKey /\ i \in succeeded
            \/ i \in refused

Settle(i) == /\ Cause(i)
             /\ settled' = settled \cup {i}
             /\ UNCHANGED <<log, succeeded, refused, done>>

Next == \/ Publish
        \/ \E i \in Ids : Complete(i) \/ Refuse(i) \/ Record(i) \/ Settle(i)

Spec == Init /\ [][Next]_vars
=============================================================================
