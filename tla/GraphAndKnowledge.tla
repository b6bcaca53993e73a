-------------------------- MODULE GraphAndKnowledge --------------------------
(***************************************************************************)
(* Correlations of ideas (orchestrator/routes/correlation_api) in the      *)
(* graph that RedisGraphStore keeps (infrastructure/graph_store): one set  *)
(* of neighbours per idea and type, for both ends, and one hash of         *)
(* properties per direction and type.  A call is several Redis commands,   *)
(* each of which may fail.                                                 *)
(***************************************************************************)
EXTENDS Naturals, FiniteSets

CONSTANTS
    Correlated,     \* the ideas
    EdgeTypes,
    GraphCalls      \* POSTs and DELETEs; a POST makes the correlation of its name

ASSUME GraphAssumption == "none" \notin GraphCalls

VARIABLES
    neighbours,     \* the directed edges <<from, to, type>> of the neighbour sets
    properties,     \* per directed edge the id in its hash, or none
    graphCall,      \* per call: its operation, edge, next command and answer
    correlations,   \* history: the properties, had every answered call been one step
    raced           \* history: types of calls that overlapped, or failed on the way

graphVars == <<neighbours, properties, graphCall, correlations, raced>>

Edges == {e \in Correlated \X Correlated \X EdgeTypes : e[1] # e[2]}
Back(e) == <<e[2], e[1], e[3]>>
NotCalled == [does |-> "none", edge |-> <<>>, next |-> 0, found |-> FALSE, answer |-> "none"]

GraphInit ==
    /\ neighbours = {} /\ properties = [e \in Edges |-> "none"] /\ correlations = properties
    /\ graphCall = [c \in GraphCalls |-> NotCalled] /\ raced = {}

Under(c) == graphCall[c].does # "none" /\ graphCall[c].answer = "none"

\* An idea is not correlated with itself.
BeginCall(c, what, e) ==
    /\ graphCall[c].does = "none" /\ e \in Edges
    /\ graphCall' = [graphCall EXCEPT ![c] = [NotCalled EXCEPT !.does = what, !.edge = e, !.next = 1]]
    /\ raced' = IF \E d \in GraphCalls : Under(d) /\ graphCall[d].edge[3] = e[3] THEN raced \cup {e[3]} ELSE raced
    /\ UNCHANGED <<neighbours, properties, correlations>>

At(c, what, n) == Under(c) /\ graphCall[c].does = what /\ graphCall[c].next = n
StepOn(c) == graphCall' = [graphCall EXCEPT ![c].next = @ + 1]
Answer(c, what) == graphCall' = [graphCall EXCEPT ![c].answer = what]

AddForward(c) ==
    /\ At(c, "add", 1) /\ neighbours' = neighbours \cup {graphCall[c].edge} /\ StepOn(c)
    /\ UNCHANGED <<properties, correlations, raced>>

\* Mutant: the target does not learn of its neighbour.
AddNothing(c) == UNCHANGED neighbours
AddBack(c) == neighbours' = neighbours \cup {Back(graphCall[c].edge)}

AddBackward(c) ==
    /\ At(c, "add", 2) /\ AddBack(c) /\ StepOn(c)
    /\ UNCHANGED <<properties, correlations, raced>>

\* Properties of an earlier correlation of the same direction and type are overwritten.
SetProperties(c) ==
    /\ At(c, "add", 3)
    /\ properties' = [properties EXCEPT ![graphCall[c].edge] = c]
    /\ correlations' = [correlations EXCEPT ![graphCall[c].edge] = c]
    /\ Answer(c, "ok")
    /\ UNCHANGED <<neighbours, raced>>

WasThere(e) == e \in neighbours

RemoveForward(c) ==
    LET e == graphCall[c].edge IN
    /\ At(c, "remove", 1)
    /\ neighbours' = neighbours \ {e}
    /\ graphCall' = [graphCall EXCEPT ![c].next = 2, ![c].found = WasThere(e)]
    /\ UNCHANGED <<properties, correlations, raced>>

RemoveBackward(c) ==
    /\ At(c, "remove", 2)
    /\ neighbours' = neighbours \ {Back(graphCall[c].edge)} /\ StepOn(c)
    /\ UNCHANGED <<properties, correlations, raced>>

DropForward(c) ==
    /\ At(c, "remove", 3)
    /\ properties' = [properties EXCEPT ![graphCall[c].edge] = "none"] /\ StepOn(c)
    /\ UNCHANGED <<neighbours, correlations, raced>>

DropBack(e) == properties' = [properties EXCEPT ![Back(e)] = "none"]

\* The correlation's id is not compared: every one between the two ideas goes with its type.
DropBackward(c) ==
    LET e == graphCall[c].edge IN
    /\ At(c, "remove", 4)
    /\ DropBack(e)
    /\ correlations' = [correlations EXCEPT ![e] = "none", ![Back(e)] = "none"]
    /\ Answer(c, IF graphCall[c].found THEN "ok" ELSE "missing")
    /\ UNCHANGED <<neighbours, raced>>

\* A Redis command raises: 500, and what was written stays.
CallFails(c) ==
    /\ Under(c)
    /\ Answer(c, "failed") /\ raced' = raced \cup {graphCall[c].edge[3]}
    /\ UNCHANGED <<neighbours, properties, correlations>>

GraphNext ==
    \E c \in GraphCalls :
        \/ \E what \in {"add", "remove"}, e \in Edges : BeginCall(c, what, e)
        \/ AddForward(c) \/ AddBackward(c) \/ SetProperties(c)
        \/ RemoveForward(c) \/ RemoveBackward(c) \/ DropForward(c) \/ DropBackward(c)
        \/ CallFails(c)

\* get_edges of any type: the other direction is tried if this one has no properties.
TypesFrom(a, b) ==
    LET of(f, t) == {e \in Edges : e[1] = f /\ e[2] = t /\ properties[e] # "none"}
    IN  IF of(a, b) # {} THEN of(a, b) ELSE of(b, a)
NextTo(a) == {e[2] : e \in {d \in neighbours : d[1] = a}}
EdgesOf(a) == UNION {TypesFrom(a, b) : b \in NextTo(a)}

----------------------------------------------------------------------------
(* Properties. *)

GraphTypeOK ==
    /\ neighbours \subseteq Edges /\ properties \in [Edges -> GraphCalls \cup {"none"}]
    /\ raced \subseteq EdgeTypes

Settled == {e \in Edges : e[3] \notin raced /\ \A c \in GraphCalls : Under(c) => graphCall[c].edge[3] # e[3]}

\* Of a type whose calls neither overlapped nor failed the store is what the answered calls made:
\* the last correlation per direction, and both ends neighbours as long as there is one.
StoreIsGraph ==
    \A e \in Settled :
        /\ properties[e] = correlations[e]
        /\ e \in neighbours <=> correlations[e] # "none" \/ correlations[Back(e)] # "none"

\* A correlation is listed with both its ideas, except with its target when that is itself the
\* source of correlations with the other idea.
ListedWithBoth ==
    \A e \in Settled : correlations[e] # "none" =>
        e \in EdgesOf(e[1]) /\ (e \in EdgesOf(e[2]) \/ \E d \in EdgesOf(e[2]) : d[1] = e[2] /\ d[2] = e[1])

------------------------------------------------------------------------------
(***************************************************************************)
(* The knowledge store (infrastructure/knowledge_store/elasticsearch_store)*)
(* as its callers see it: the API process and the MCP server, each with a  *)
(* client that remembers which indices it has found.  A tenant has an      *)
(* index of its own.  One document; a call takes a few requests to         *)
(* Elasticsearch, and an operator may remove an index.                     *)
(***************************************************************************)

CONSTANTS
    StoreClients,
    Tenants,
    StoreCalls      \* each runs once; its revision of the document is its own name

\* What a call answers tells a revision from an outcome.
ASSUME StoreAssumption == StoreCalls \cap {"none", "done", "failed"} = {}

VARIABLES
    indices,        \* per index: whether it is there, was created with its mapping, and the document
    remembered,     \* per client: the indices it takes to be there
    request,        \* per call: where it is, what it does, for whom, and its answer
    wiped,        \* history: the indices that an operator removed
    outages,        \* history: the calls that Elasticsearch failed
    losers          \* history: the calls that found an index made by another after their check

knowledgeVars == <<indices, remembered, request, wiped, outages, losers>>

NoRevision == "none"
NoIndex == [there |-> FALSE, mapped |-> FALSE, doc |-> NoRevision]
NoRequest == [at |-> "new", does |-> "none", client |-> "none", tenant |-> "none", answer |-> "none"]

KnowledgeInit ==
    /\ indices = [t \in Tenants |-> NoIndex] /\ remembered = [k \in StoreClients |-> {}]
    /\ request = [c \in StoreCalls |-> NoRequest]
    /\ wiped = {} /\ outages = {} /\ losers = {}

\* _get_index_name: the tenant's prefix.
IndexName(tenant) == tenant
IndexOf(c) == IndexName(request[c].tenant)
KnownTo(c) == remembered[request[c].client]

\* A tool of the MCP server or an endpoint of the API begins.
BeginRequest(c, what, client, tenant) ==
    /\ request[c].at = "new"
    /\ request' = [request EXCEPT ![c] =
        [at |-> "check", does |-> what, client |-> client, tenant |-> tenant, answer |-> "none"]]
    /\ UNCHANGED <<indices, remembered, wiped, outages, losers>>

RequestAt(c, at) == request' = [request EXCEPT ![c].at = at]
Remember(c) == remembered' = [remembered EXCEPT ![request[c].client] = @ \cup {IndexOf(c)}]
AnswerRequest(c, answer) == request' = [request EXCEPT ![c].at = "done", ![c].answer = answer]

\* _ensure_index_exists looks once per client, and never again.
CheckIndex(c) ==
    /\ request[c].at = "check"
    /\ IF IndexOf(c) \in KnownTo(c) THEN RequestAt(c, "use") /\ UNCHANGED remembered
       ELSE IF indices[IndexOf(c)].there THEN RequestAt(c, "use") /\ Remember(c)
       ELSE RequestAt(c, "create") /\ UNCHANGED remembered
    /\ UNCHANGED <<indices, wiped, outages, losers>>

Created(i) == [indices EXCEPT ![i].there = TRUE, ![i].mapped = TRUE]

\* The index is created, unless it is there by now: then the call fails.
CreateIndex(c) ==
    /\ request[c].at = "create"
    /\ IF indices[IndexOf(c)].there
       THEN /\ AnswerRequest(c, "failed") /\ losers' = losers \cup {c}
            /\ UNCHANGED <<indices, remembered>>
       ELSE /\ indices' = Created(IndexOf(c)) /\ Remember(c) /\ RequestAt(c, "use") /\ UNCHANGED losers
    /\ UNCHANGED <<wiped, outages>>

Using(c, what) == request[c].at = "use" /\ request[c].does = what
NoHistory == UNCHANGED <<remembered, wiped, outages, losers>>

\* Elasticsearch makes an index that is not there, without the mapping of the vectors.
IndexDocument(c) ==
    /\ Using(c, "index")
    /\ indices' = [indices EXCEPT ![IndexOf(c)].there = TRUE, ![IndexOf(c)].doc = c]
    /\ AnswerRequest(c, "done") /\ NoHistory

\* A document, or an index, that is not there: none.
GetDocument(c) ==
    /\ Using(c, "get") /\ AnswerRequest(c, indices[IndexOf(c)].doc)
    /\ UNCHANGED indices /\ NoHistory

DeleteDocument(c) ==
    /\ Using(c, "delete") /\ indices' = [indices EXCEPT ![IndexOf(c)].doc = NoRevision]
    /\ AnswerRequest(c, IF indices[IndexOf(c)].doc = NoRevision THEN NoRevision ELSE "done")
    /\ NoHistory

\* A search needs the index and its mapping; it need not find what was just indexed.
SearchDocuments(c, answer) ==
    /\ Using(c, "search")
    /\ answer \in {NoRevision, indices[IndexOf(c)].doc}
    /\ AnswerRequest(c, IF indices[IndexOf(c)].there /\ indices[IndexOf(c)].mapped THEN answer ELSE "failed")
    /\ UNCHANGED indices /\ NoHistory

\* Elasticsearch fails a request; an index or a delete may have been done.
OutageHits(c) ==
    /\ request[c].at \in {"check", "create", "use"} /\ Cardinality(outages) < 1
    /\ AnswerRequest(c, "failed") /\ outages' = outages \cup {c}
    /\ indices' \in {indices} \cup
        (IF Using(c, "index") THEN {[indices EXCEPT ![IndexOf(c)].there = TRUE, ![IndexOf(c)].doc = c]} ELSE {})
        \cup (IF Using(c, "delete") THEN {[indices EXCEPT ![IndexOf(c)].doc = NoRevision]} ELSE {})
    /\ UNCHANGED <<remembered, wiped, losers>>

RemoveIndex(i) ==
    /\ indices[i].there /\ wiped = {}
    /\ indices' = [indices EXCEPT ![i] = NoIndex] /\ wiped' = {i}
    /\ UNCHANGED <<remembered, request, outages, losers>>

KnowledgeNext ==
    \/ \E i \in Tenants : RemoveIndex(i)
    \/ \E c \in StoreCalls :
        \/ \E what \in {"index", "get", "delete", "search"}, client \in StoreClients, tenant \in Tenants :
            BeginRequest(c, what, client, tenant)
        \/ CheckIndex(c) \/ CreateIndex(c) \/ IndexDocument(c) \/ GetDocument(c) \/ DeleteDocument(c)
        \/ OutageHits(c) \/ \E answer \in StoreCalls \cup {NoRevision} : SearchDocuments(c, answer)

----------------------------------------------------------------------------
(* Properties. *)

\* A document that a call finds is of the tenant of the call, and was to be indexed.
TenantsAreApart == \A c, d \in StoreCalls :
    request[c].answer = d => request[d].does = "index" /\ request[d].tenant = request[c].tenant

\* A call fails only for an outage, because another call made the index after it had looked for
\* it, or because an index that its client remembers was removed: a client never looks again.
FailuresHaveACause == \A c \in StoreCalls : request[c].answer = "failed" =>
    \/ c \in outages \cup losers
    \/ request[c].does = "search" /\ IndexOf(c) \in wiped
==============================================================================
