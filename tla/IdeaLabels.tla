----------------------------- MODULE IdeaLabels ------------------------------
(***************************************************************************)
(* One idea of the hub: its document in Elasticsearch                      *)
(* (orchestrator/services/ideas_service), its last classification result   *)
(* in Redis (classification_service), and the calls that change either     *)
(* (routes/classification_api, routes/ideas_api, the worker).  A change of *)
(* the document sets whole fields; a call computes them from the document  *)
(* it read, with an LLM call between for a classification.                 *)
(***************************************************************************)
EXTENDS Naturals, FiniteSets, Sequences, SequencesExt

CONSTANTS
    IdeaClasses,    \* functional and non-functional; an idea may also be undetermined
    Labels,         \* the labels of the taxonomy
    IdeaCalls       \* classifications and changes of labels: each runs once

Undetermined == "undetermined"
Classification == IdeaClasses \cup {Undetermined}
NoResult == [class |-> "none", labels |-> {}]
NoChoice == "none"

VARIABLES
    idea,           \* the document
    result,         \* classification:<id>: the stored class and labels, or none
    edit,           \* per call: where it is, what it does, and what it read or computed
    choice,         \* history: the class a person chose while a result was stored and no
                    \* classification was under way, unless a forced one began since
    wanted,         \* history: the labels asked for, call by call in the order of the writes
    relabelled,    \* history: a call wrote labels that another had read and then wrote
    apart           \* history: why result and document may differ

ideaVars == <<idea, result, edit, choice, wanted, relabelled, apart>>

NoEdit == [at |-> "new", does |-> "none", forced |-> FALSE, class |-> Undetermined, labels |-> {}, adds |-> {}]

IdeaInit ==
    /\ idea \in [there : {TRUE}, class : Classification, labels : SUBSET Labels]
    /\ result = NoResult /\ edit = [c \in IdeaCalls |-> NoEdit]
    /\ choice = NoChoice /\ wanted = idea.labels /\ relabelled = FALSE /\ apart = FALSE

Classifying == {c \in IdeaCalls : edit[c].does = "classify" /\ edit[c].at \notin {"new", "done"}}
HoldsLabels(c) == edit[c].at \in {"result", "model", "store", "write"}
Over(c) == edit' = [edit EXCEPT ![c].at = "done"]
SameHistory == UNCHANGED <<choice, wanted, relabelled, apart>>

\* classify_idea, add_labels and remove_label read the document; without one the call ends.
ReadIdea(c, what, forced, labels) ==
    /\ edit[c].at = "new"
    /\ edit' = [edit EXCEPT ![c] =
        IF ~idea.there THEN [@ EXCEPT !.at = "done"]
        ELSE [at |-> IF what # "classify" THEN "write"
                     ELSE IF forced \/ idea.class = Undetermined THEN "model" ELSE "result",
              does |-> what, forced |-> forced, class |-> idea.class, labels |-> idea.labels,
              adds |-> labels]]
    /\ choice' = IF what = "classify" /\ forced THEN NoChoice ELSE choice
    /\ UNCHANGED <<idea, result, wanted, relabelled, apart>>

LookForResult(c) == edit' = [edit EXCEPT ![c].at = IF result = NoResult THEN "model" ELSE "done"]

\* A document that has a class is classified once more if no result of it is stored: also one
\* whose class was given at its creation.
GetResult(c) == edit[c].at = "result" /\ LookForResult(c) /\ UNCHANGED <<idea, result>> /\ SameHistory

\* The model's answer, or the rules if it fails: any class, and labels of the taxonomy.
ModelAnswers(c, class, labels) ==
    /\ edit[c].at = "model"
    /\ edit' = [edit EXCEPT ![c].at = "store", ![c].class = class, ![c].adds = labels]
    /\ UNCHANGED <<idea, result>> /\ SameHistory

KeepResult(c) ==
    /\ edit[c].at = "store"
    /\ result' = [class |-> edit[c].class, labels |-> edit[c].adds]
    /\ edit' = [edit EXCEPT ![c].at = "write"]
    /\ apart' = (apart \/ \E d \in IdeaCalls \ {c} : edit[d].does = "classify" /\ edit[d].at = "write")
    /\ UNCHANGED <<idea, choice, wanted, relabelled>>

LabelsAfter(c) ==
    IF edit[c].does = "remove" THEN edit[c].labels \ edit[c].adds ELSE edit[c].labels \cup edit[c].adds

ClassAfter(c) == IF edit[c].does = "classify" THEN edit[c].class ELSE idea.class

\* update_idea sets the fields it was given; a document that is gone stays so.
WriteIdea(c) ==
    /\ edit[c].at = "write"
    /\ idea' = IF idea.there THEN [idea EXCEPT !.class = ClassAfter(c), !.labels = LabelsAfter(c)] ELSE idea
    /\ wanted' = IF edit[c].does = "remove" THEN wanted \ edit[c].adds ELSE wanted \cup edit[c].adds
    /\ relabelled' = (relabelled \/ \E d \in IdeaCalls \ {c} : HoldsLabels(d))
    /\ Over(c)
    /\ UNCHANGED <<result, choice, apart>>

\* Elasticsearch fails, or Redis before: the result may be stored without the document.
WriteFails(c) ==
    /\ edit[c].at \in {"store", "write"}
    /\ Over(c) /\ apart' = (apart \/ (edit[c].does = "classify" /\ edit[c].at = "write"))
    /\ UNCHANGED <<idea, result, choice, wanted, relabelled>>

\* The PUT of an idea sets its class or its labels, whatever is under way.
ChooseClass(class) ==
    /\ idea.there
    /\ idea' = [idea EXCEPT !.class = class] /\ apart' = TRUE
    /\ choice' = IF class # Undetermined /\ result # NoResult /\ Classifying = {} THEN class ELSE NoChoice
    /\ UNCHANGED <<result, edit, wanted, relabelled>>

SetLabels(labels) ==
    /\ idea.there /\ labels # idea.labels
    /\ idea' = [idea EXCEPT !.labels = labels] /\ wanted' = labels
    /\ relabelled' = (relabelled \/ \E c \in IdeaCalls : HoldsLabels(c))
    /\ UNCHANGED <<result, edit, choice, apart>>

DeleteIdea ==
    /\ idea.there /\ idea' = [idea EXCEPT !.there = FALSE]
    /\ UNCHANGED <<result, edit>> /\ SameHistory

IdeaNext ==
    \/ DeleteIdea
    \/ \E class \in Classification : ChooseClass(class)
    \/ \E labels \in SUBSET Labels : SetLabels(labels)
    \/ \E c \in IdeaCalls :
        \/ \E forced \in BOOLEAN : ReadIdea(c, "classify", forced, {})
        \/ \E what \in {"add", "remove"}, labels \in (SUBSET Labels) \ {{}} : ReadIdea(c, what, FALSE, labels)
        \/ \E class \in Classification, labels \in SUBSET Labels : ModelAnswers(c, class, labels)
        \/ GetResult(c) \/ KeepResult(c) \/ WriteIdea(c) \/ WriteFails(c)

----------------------------------------------------------------------------
(* Properties. *)

IdeaTypeOK ==
    /\ idea \in [there : BOOLEAN, class : Classification, labels : SUBSET Labels]
    /\ result = NoResult \/ result \in [class : Classification, labels : SUBSET Labels]

\* The class that a person chose for an idea that had been classified, with no classification
\* under way, stays until a forced classification or another choice.
ChoiceStays == choice # NoChoice /\ idea.there => idea.class = choice

\* Once its classification has ended, the stored result is what the document says, unless a
\* person chose another class, the write of the document failed, or two classifications wrote
\* in different orders.
ResultIsOfIdea ==
    result # NoResult /\ idea.there /\ ~apart /\ (\A c \in Classifying : edit[c].at # "write")
        => idea.class = result.class

\* The labels are what the calls asked for, each on top of the one before, unless one wrote
\* after it had read what another then changed.
LabelsAreKept == idea.there /\ ~relabelled => idea.labels = wanted

------------------------------------------------------------------------------
(***************************************************************************)
(* The taxonomy of labels (orchestrator/services/label_taxonomy_service):  *)
(* one JSON value in Redis, which each change reads, changes and writes    *)
(* whole; and a classification, which reads it twice, to tell the model    *)
(* and to sift its answer (services/classification_service).               *)
(***************************************************************************)

CONSTANTS
    LabelIds,
    DefaultId,      \* of the labels that the service starts with
    TaxonomyCalls   \* changes of the taxonomy: each runs once

ASSUME TaxonomyAssumption == DefaultId \in LabelIds /\ "none" \notin LabelIds

VARIABLES
    taxonomy,       \* the stored labels: id, and whether a keyword of it is in the idea; or none
    change,         \* per call: where it is, the change, and the labels it read
    intended,       \* history: the labels after the changes, each on top of the one before
    overlaid,          \* history: a change was written while another held what it had read
    renamed,        \* history: a label was given the id of another
    sorting,        \* the classification: where it is, the ids it sifts with, those it told, its labels
    moved           \* history: the taxonomy was written during the classification

taxonomyVars == <<taxonomy, change, intended, overlaid, renamed, sorting, moved>>

TaxLabel == [id : LabelIds, apt : BOOLEAN]
Default == <<[id |-> DefaultId, apt |-> TRUE]>>
NotStored == <<[id |-> "none", apt |-> FALSE]>>
IdsOf(labels) == {label.id : label \in ToSet(labels)}
AllDiffer(labels) == \A i, j \in DOMAIN labels : labels[i].id = labels[j].id => i = j

NoChange == [at |-> "new", does |-> "none", id |-> DefaultId, label |-> Default[1], labels |-> <<>>]

TaxonomyInit ==
    /\ taxonomy = NotStored /\ change = [c \in TaxonomyCalls |-> NoChange]
    /\ intended = Default /\ overlaid = FALSE /\ renamed = FALSE
    /\ sorting = [at |-> "new", known |-> {}, apt |-> {}, told |-> {}, labels |-> {}, by |-> "none"]
    /\ moved = FALSE

\* Without a stored taxonomy the default one is taken.
TaxonomyRead == IF taxonomy = NotStored THEN Default ELSE taxonomy

\* A change of a label reads the taxonomy.
ReadTaxonomy(c, what, id, label) ==
    /\ change[c].at = "new"
    /\ change' = [change EXCEPT ![c] =
        [at |-> "read", does |-> what, id |-> id, label |-> label, labels |-> TaxonomyRead]]
    /\ UNCHANGED <<taxonomy, intended, overlaid, renamed, sorting, moved>>

\* A new label has a new id; a label that is changed or removed is there.
Refused(does, id, label, labels) ==
    IF does = "add" THEN label.id \in IdsOf(labels) ELSE id \notin IdsOf(labels)

Without(labels, id) ==
    LET kept[n \in 0..Len(labels)] ==
        IF n = 0 THEN <<>> ELSE IF labels[n].id = id THEN kept[n - 1] ELSE Append(kept[n - 1], labels[n])
    IN kept[Len(labels)]

\* The first label of the id is replaced, whatever id the new one has; all of an id are removed.
Changed(does, id, label, labels) ==
    CASE does = "add" -> Append(labels, label)
      [] does = "update" -> ReplaceAt(labels, SelectInSeq(labels, LAMBDA l : l.id = id), label)
      [] does = "delete" -> Without(labels, id)

Sorting == sorting.at \in {"sift", "model"}
Others1(c) == \E d \in TaxonomyCalls \ {c} : change[d].at = "read"

\* update_taxonomy writes the whole value; a change that is refused writes nothing.
WriteTaxonomy(c) ==
    /\ change[c].at = "read"
    /\ LET h == change[c] IN
       IF Refused(h.does, h.id, h.label, h.labels)
       THEN UNCHANGED <<taxonomy, intended, overlaid, renamed, moved>>
       ELSE /\ taxonomy' = Changed(h.does, h.id, h.label, h.labels)
            /\ intended' = IF Refused(h.does, h.id, h.label, intended) THEN intended
                           ELSE Changed(h.does, h.id, h.label, intended)
            /\ overlaid' = (overlaid \/ Others1(c)) /\ moved' = (moved \/ Sorting)
            /\ renamed' = \/ renamed
                          \/ h.does = "update" /\ h.label.id # h.id /\ h.label.id \in IdsOf(h.labels)
    /\ change' = [change EXCEPT ![c].at = "done"]
    /\ UNCHANGED sorting

\* The whole taxonomy is put, as the client has it.
PutTaxonomy(c, labels) ==
    /\ change[c].at = "new"
    /\ taxonomy' = labels /\ intended' = labels /\ change' = [change EXCEPT ![c].at = "done"]
    /\ overlaid' = (overlaid \/ Others1(c)) /\ moved' = (moved \/ Sorting)
    /\ renamed' = (renamed \/ ~AllDiffer(labels))
    /\ UNCHANGED sorting

\* classify_idea reads the taxonomy, and once more for the prompt.
ReadToSift ==
    /\ sorting.at = "new"
    /\ sorting' = [sorting EXCEPT !.at = "sift", !.known = IdsOf(TaxonomyRead),
                                  !.apt = {label.id : label \in {l \in ToSet(TaxonomyRead) : l.apt}}]
    /\ UNCHANGED <<taxonomy, change, intended, overlaid, renamed, moved>>

TellModel ==
    /\ sorting.at = "sift"
    /\ sorting' = [sorting EXCEPT !.at = "model", !.told = IdsOf(TaxonomyRead)]
    /\ UNCHANGED <<taxonomy, change, intended, overlaid, renamed, moved>>

\* validate_labels leaves the labels of the taxonomy.
Sifted(named) == named \cap sorting.known

Sorted(by, labels) ==
    /\ sorting.at = "model"
    /\ sorting' = [sorting EXCEPT !.at = "done", !.labels = labels, !.by = by]
    /\ UNCHANGED <<taxonomy, change, intended, overlaid, renamed, moved>>

\* The model names labels, of the taxonomy or not.
ModelSorts(named) == Sorted("model", Sifted(named))
\* An answer that is not JSON is undetermined, without labels: the rules are not asked.
UnreadableAnswer == Sorted("nobody", {})
\* The rules name the labels with a keyword in the idea.
ByRules == sorting.apt
\* The model, or a field of its answer, raises: the rules decide.
RulesSort == Sorted("rules", ByRules)

TaxonomyNext ==
    \/ ReadToSift \/ TellModel \/ UnreadableAnswer \/ RulesSort
    \/ \E named \in SUBSET LabelIds : ModelSorts(named)
    \/ \E c \in TaxonomyCalls :
        \/ WriteTaxonomy(c)
        \/ \E label \in TaxLabel : ReadTaxonomy(c, "add", label.id, label)
        \/ \E id \in LabelIds, label \in TaxLabel : ReadTaxonomy(c, "update", id, label)
        \/ \E id \in LabelIds : ReadTaxonomy(c, "delete", id, NoChange.label)
        \/ \E n \in 0..2 : \E labels \in [1..n -> TaxLabel] : PutTaxonomy(c, labels)

----------------------------------------------------------------------------
(* Properties. *)

\* The stored taxonomy is the changes that were answered as made, each on top of the one before,
\* unless one was written over what another had read.
ChangesAreKept == ~overlaid => TaxonomyRead = intended

\* No two labels have one id, whatever changes cross, unless a label was renamed to an id that is
\* there, or a whole taxonomy was put with two: neither is checked.
LabelsDiffer == ~renamed => AllDiffer(TaxonomyRead)

\* The labels that a classification gives are of the taxonomy, and the model was told of them,
\* unless the taxonomy was written meanwhile; the rules give those with a keyword in the idea.
GivenAreKnown == sorting.at = "done" /\ ~moved =>
    /\ sorting.labels \subseteq sorting.told
    /\ sorting.by = "rules" => sorting.labels = sorting.apt
==============================================================================
