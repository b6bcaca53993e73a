-------------------------- MODULE RequirementTrace --------------------------
(***************************************************************************)
(* The requirements of an interview in the documents made of them          *)
(* (workers/agents/ideation: prd_generator, user_story_extractor;          *)
(* workers/agents/discovery: acceptance_agent, models).  Ids are numbers;  *)
(* what the interview extracted and what the model answers may repeat an   *)
(* id, name one that is not there, or leave things out.                    *)
(***************************************************************************)
EXTENDS Naturals, Sequences, FiniteSets, SequencesExt

CONSTANTS
    MaxExtracted,   \* bound: requirements of the interview
    MaxPlaced,      \* bound: requirements in the sections the model answers with
    MaxTraced       \* bound: criteria, and stories

ASSUME TraceAssumption == {MaxExtracted, MaxPlaced, MaxTraced} \subseteq Nat

\* One more than the ids the interview can give.
RequirementIds == 1..(MaxExtracted + 1)

VARIABLES
    extracted,      \* the interview's requirements: an id or 0 for none, and whether the
                    \* priority and the type are known ones
    prd,            \* all_requirements: the id, the index in extracted (0: the model's words)
                    \* and whether it is deeper than a section's own list
    prdState,       \* none, failed, answered, fallback
    criteria,       \* requirement_ids of each criterion
    stories,        \* linked_requirements of each story
    traced          \* documents there are: prd, criteria, stories

traceVars == <<extracted, prd, prdState, criteria, stories, traced>>

TraceInit ==
    /\ extracted \in BoundedSeq([id : 0..MaxExtracted, known : BOOLEAN], MaxExtracted)
    /\ prd = <<>> /\ prdState = "none" /\ criteria = <<>> /\ stories = <<>> /\ traced = {}

\* The items at the given places, in their order.
Only(items, places) ==
    LET kept[n \in 0..Len(items)] ==
        IF n = 0 THEN <<>> ELSE IF n \in places THEN Append(kept[n - 1], items[n]) ELSE kept[n - 1]
    IN kept[Len(items)]

\* An id that is missing is made of the position, whatever ids the others have.
IdAt(i) == IF extracted[i].id = 0 THEN i ELSE extracted[i].id

\* _convert_requirements: one of an unknown type or priority is dropped.
Converted ==
    Only([i \in DOMAIN extracted |-> [id |-> IdAt(i), from |-> i, deep |-> FALSE]], {i \in DOMAIN extracted : extracted[i].known})

OfModel(id) == [id |-> id, from |-> 0, deep |-> FALSE]

\* The first that was extracted with the id, or what the model says.
Matched(id) ==
    IF \E r \in Range(Converted) : r.id = id
    THEN Converted[SelectInSeq(Converted, LAMBDA r : r.id = id)] ELSE OfModel(id)

\* What the model places: in a section's own list, or deeper (objectives, scope,
\* subsections), where its wording is taken, and one of an unknown type fails the PRD.
Placements == [id : RequirementIds, known : BOOLEAN, deep : BOOLEAN]
PlacedRequirement(p) == IF p.deep THEN [OfModel(p.id) EXCEPT !.deep = TRUE] ELSE Matched(p.id)
Skipped(p) == ~p.deep /\ ~p.known /\ Matched(p.id).from = 0

NoPrd == prdState = "none" /\ extracted # <<>>

GeneratePrd(placed) ==
    /\ NoPrd
    /\ IF \E i \in DOMAIN placed : placed[i].deep /\ ~placed[i].known
       THEN prdState' = "failed" /\ UNCHANGED <<prd, traced>>
       ELSE /\ prdState' = "answered" /\ traced' = {"prd"}
            /\ LET kept == Only(placed, {i \in DOMAIN placed : ~Skipped(placed[i])}) IN
               prd' = [i \in DOMAIN kept |-> PlacedRequirement(kept[i])]
    /\ UNCHANGED <<extracted, criteria, stories>>

\* Sections by type: every type has one, so that none is left out.
Fallback == Converted

\* Without an answer after the retries, sections of what was extracted.
FallbackPrd ==
    /\ NoPrd /\ prdState' = "fallback" /\ traced' = {"prd"}
    /\ prd' = Fallback
    /\ UNCHANGED <<extracted, criteria, stories>>

IdsOfPrd == { r.id : r \in Range(prd) }
IsTraced(document) == document \in traced

\* What is answered: complete criteria; where there are none, one for each requirement.
WriteCriteria(answer) ==
    /\ IsTraced("prd") /\ ~IsTraced("criteria") /\ prd # <<>> /\ traced' = traced \cup {"criteria"}
    /\ criteria' = IF answer = <<>> THEN [i \in DOMAIN prd |-> <<prd[i].id>>] ELSE answer
    /\ UNCHANGED <<extracted, prd, prdState, stories>>

\* The extractor takes the interview's requirements, and an answer of no stories for none.
ExtractStories(answer) ==
    /\ IsTraced("prd") /\ ~IsTraced("stories") /\ traced' = traced \cup {"stories"}
    /\ stories' = answer
    /\ UNCHANGED <<extracted, prd, prdState, criteria>>

----------------------------------------------------------------------------
(* The reports. *)

\* AcceptanceCriteria.create: an id is counted each time it is mentioned.
Mentions(id) ==
    LET made[n \in 0..Len(criteria)] ==
        IF n = 0 THEN 0 ELSE made[n - 1] + Cardinality({ j \in DOMAIN criteria[n] : criteria[n][j] = id })
    IN made[Len(criteria)]

Level(id) == IF Mentions(id) = 0 THEN "none" ELSE IF Mentions(id) >= 2 THEN "full" ELSE "partial"

\* The extractor's ids are those that are given: none is made up here.
GivenIds == { e.id : e \in Range(extracted) } \ {0}

Linked == UNION { Range(stories[i]) : i \in DOMAIN stories }

UncoveredByStories == GivenIds \ Linked
\* coverage_percentage is 100 or more.
StoriesFull == GivenIds # {} /\ Cardinality(Linked) >= Cardinality(GivenIds)

Links == { <<>>, <<1>>, <<1, 1>>, <<1, 2>>, <<MaxExtracted + 1>> }

TraceNext ==
    \/ \E placed \in BoundedSeq(Placements, MaxPlaced) : GeneratePrd(placed)
    \/ FallbackPrd
    \/ \E answer \in BoundedSeq(Links \ {<<>>}, MaxTraced) : WriteCriteria(answer)
    \/ \E answer \in BoundedSeq(Links, MaxTraced) : ExtractStories(answer)

----------------------------------------------------------------------------
(* Properties. *)

\* In a fallback every extracted requirement is there once, in its own words, unless its
\* type or priority is unknown, also where ids repeat.
FallbackKeepsAll ==
    prdState = "fallback" =>
        \A i \in DOMAIN extracted : extracted[i].known =>
            Cardinality({ n \in DOMAIN prd : prd[n].from = i }) = 1

\* What a section of an answered PRD says of an id is what was first extracted under it;
\* the model's words stand only for an id nothing known was extracted under, or deeper.
\* What is extracted under an id that came before (a made-up id may be one) is lost.
WordsAreKept ==
    prdState = "answered" =>
        /\ \A n \in DOMAIN prd : prd[n].from = 0 /\ ~prd[n].deep =>
               ~\E i \in DOMAIN extracted : extracted[i].known /\ IdAt(i) = prd[n].id
        /\ \A n \in DOMAIN prd, i \in DOMAIN extracted :
               prd[n].from > i /\ IdAt(i) = prd[n].id => ~extracted[i].known

\* Full is two criteria, unless one names the requirement twice; and what is partial has one.
LevelsAreOfCriteria ==
    IsTraced("criteria") => \A id \in IdsOfPrd :
        LET by == { i \in DOMAIN criteria : id \in Range(criteria[i]) } IN
        /\ Level(id) = "full" => Cardinality(by) >= 2 \/ \E i \in by : Cardinality(Range(criteria[i])) < Len(criteria[i])
        /\ Level(id) = "partial" => Cardinality(by) = 1
        /\ Level(id) = "none" => by = {}

\* Stories cover 100% with a requirement left uncovered only where one links an id that was
\* never given: such ids count as covered.
FullLeavesNone ==
    IsTraced("stories") /\ StoriesFull /\ UncoveredByStories # {} => Linked \ GivenIds # {}
=============================================================================
