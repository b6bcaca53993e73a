---------------------------- MODULE AgentRequests ---------------------------
(***************************************************************************)
(* What the worker pools promise to whoever publishes AGENT_STARTED,       *)
(* however many pools there are and however they stop: a request (a key)   *)
(* is taken up at most once, by one entry; AGENT_COMPLETED is published    *)
(* for an entry only if its agent succeeded; and an entry is settled       *)
(* (acknowledged) only once it is answered, or when another entry with     *)
(* its key was taken up.  Execution is at most once, unlike the            *)
(* at-least-once handling that EventDelivery describes.                    *)
(***************************************************************************)
EXTENDS EventEntries

VARIABLES log,        \* the stream of events, requests and answers
          taken,      \* for every key the entry that was taken up, or 0
          succeeded,  \* entries whose agent returned success
          completed,  \* entries answered with AGENT_COMPLETED
          errored,    \* entries answered with AGENT_ERROR
          settled     \* acknowledged entries

vars == <<log, taken, succeeded, completed, errored, settled>>

Ids == 1..Len(log)
Answer == [key |-> NoKey, kind |-> "foreign"]

Init == /\ log \in {<<>>, <<Placeholder>>}
        /\ taken = [k \in Keys |-> 0]
        /\ succeeded = {}
        /\ completed = {}
        /\ errored = {}
        /\ settled = {}

Submit == /\ \E e \in Entry : log' = Append(log, e)
          /\ UNCHANGED <<taken, succeeded, completed, errored, settled>>

TakeUp(i) == /\ CanHandle(log[i])
             /\ \E k \in Keys : /\ k = log[i].key
                                /\ taken[k] = 0
                                /\ taken' = [taken EXCEPT ![k] = i]
             /\ UNCHANGED <<log, succeeded, completed, errored, settled>>

Succeed(i) == /\ CanHandle(log[i])
              /\ log[i].key \in Keys /\ taken[log[i].key] = i
              /\ succeeded' = succeeded \cup {i}
              /\ UNCHANGED <<log, taken, completed, errored, settled>>

Complete(i) == /\ i \in succeeded
               /\ log' = Append(log, Answer)
               /\ completed' = completed \cup {i}
               /\ UNCHANGED <<taken, succeeded, errored, settled>>

Report(i) == /\ CanHandle(log[i])
             /\ log' = Append(log, Answer)
             /\ errored' = errored \cup {i}
             /\ UNCHANGED <<taken, succeeded, completed, settled>>

\* Another entry than i was taken up for the key of i.
Duplicate(i) == log[i].key \in Keys /\ taken[log[i].key] \notin {0, i}

Settle(i) == /\ \/ log[i].kind = "foreign"
                \/ i \in completed \cup errored
                \/ Duplicate(i)
             /\ settled' = settled \cup {i}
             /\ UNCHANGED <<log, taken, succeeded, completed, errored>>

Next == \/ Submit
        \/ \E i \in Ids : \/ TakeUp(i) \/ Succeed(i) \/ Complete(i) \/ Report(i)
                          \/ Settle(i)

Spec == Init /\ [][Next]_vars
=============================================================================
