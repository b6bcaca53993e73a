---------------------------- MODULE MCWorkerPool ----------------------------
(* Instances of WorkerPool for TLC. *)
EXTENDS WorkerPool

CONSTANTS p1, p2, k1, k2

MCKeys == {k1, k2}

Request(k) == [key |-> k, kind |-> "event"]

\* Requests of one key: a request sent again.
SameKey == {Request(k1)}

OnlyRequests == {Request(k1), Request(k2)}

\* What a behaviour studies: "replicas", two pools that share the requests of
\* one key, or "limits", one pool with fewer permits than requests.
VARIABLE study

mcVars == <<vars, study>>

Sent == {i \in Ids : CanHandle(stream[i])}

\* Two replicas: two requests and one crash or failed command.
Replicas ==
    /\ \A i \in Sent : i <= 2 /\ stream[i].key = k1
    /\ Cardinality(Sent) + crashes + faults <= 3

\* One pool: three requests, or two with a crash and a failed command; the
\* first has key k1, and no entry is evicted or fails to parse.
Limits ==
    /\ loop[p2] = "down" /\ trimmed = 0 /\ AllParse
    /\ Cardinality(Sent) <= 2 \/ crashes + faults = 0
    /\ \A i \in Firsts(Sent) : stream[i].key = k1

Within == /\ UNCHANGED study
          /\ \/ study = "replicas" /\ Replicas'
             \/ study = "limits" /\ Limits'

MCInit == Init /\ study \in {"replicas", "limits"}

MCSpec ==
    /\ MCInit
    /\ [][Next /\ Within]_mcVars
    /\ \A p \in Pools : /\ WF_mcVars(Start(p) /\ Within)
                        /\ WF_mcVars(EventLoop(p) /\ Within)
                        /\ WF_mcVars(Stopping(p) /\ Within)
    /\ \A i \in 1..MaxEvents :
           WF_mcVars((\E t \in tasks : t.id = i /\ Process(t)) /\ Within)

\* A pool that is stopped, without those bounds.
ExitInit == Init /\ study = "limits"
ExitSpec == ExitInit /\ [][Next /\ UNCHANGED study]_mcVars
=============================================================================
