---------------------------- MODULE IdeationChat -----------------------------
(***************************************************************************)
(* The chats of one ideation session (orchestrator/services/               *)
(* ideation_service): the session, its messages and its maturity are in    *)
(* Postgres, and every read and every write of a chat is a transaction of  *)
(* its own, with the model's answer between them.  A draft that the client *)
(* saves is one transaction.                                               *)
(***************************************************************************)
EXTENDS Naturals, Sequences, SequencesExt, FiniteSets

CONSTANTS
    Chats,
    Categories,     \* the categories of maturity
    Scores,
    HistoryLimit,   \* messages that the repository returns, oldest first
    PromptWindow,   \* of those, the last that the agent is told
    MaxDrafts       \* bound on saved drafts

ASSUME ChatAssumption == {HistoryLimit, PromptWindow, MaxDrafts} \subseteq Nat

VARIABLES
    session,        \* whether the session's row is there
    messages,       \* its messages in the order of their timestamps
    maturity,       \* the stored score per category; a session without a row has zeros
    chat,           \* per chat: where it is, what it read, what the model made of it
    screen,         \* what the client shows: the exchanges and the maturity it was answered
    drafts,         \* drafts saved so far
    heldLast,       \* history: per chat the last messages of the session as it read them, or none
    asked,          \* history: per category the score asked for last
    crossed         \* history: a chat or a draft wrote while a chat held the maturity

chatVars == <<session, messages, maturity, chat, screen, drafts, heldLast, asked, crossed>>
talkVars == <<session, messages, screen, drafts, heldLast>>
scoreVars == <<maturity, asked, crossed>>

Zeros == [k \in Categories |-> 0]

ChatInit ==
    /\ session = FALSE /\ messages = <<>> /\ maturity = Zeros /\ drafts = 0 /\ crossed = FALSE
    /\ chat = [c \in Chats |-> [at |-> "new", saw |-> FALSE, told |-> <<>>, scores |-> Zeros]]
    /\ screen = [shows |-> <<>>, scores |-> Zeros]
    /\ heldLast = [c \in Chats |-> [messages |-> <<>>, long |-> FALSE]] /\ asked = Zeros

Goes(c, from, to) == chat[c].at = from /\ chat' = [chat EXCEPT ![c].at = to]
Suffix(s, n) == SubSeq(s, IF Len(s) > n THEN Len(s) - n + 1 ELSE 1, Len(s))
Prefix(s, n) == SubSeq(s, 1, IF Len(s) > n THEN n ELSE Len(s))
Question(c) == [of |-> c, role |-> "user"]
AnswerOf(c) == [of |-> c, role |-> "assistant"]

\* _ensure_session_exists: the row is looked for, and inserted in the same transaction.
LookForSession(c) ==
    /\ chat[c].at = "new"
    /\ chat' = [chat EXCEPT ![c].at = IF session THEN "history" ELSE "creating"]
    /\ UNCHANGED <<talkVars, scoreVars>>

\* A row that another chat inserted since is a conflict, and the chat fails.
CreateSession(c) ==
    /\ Goes(c, "creating", IF session THEN "failed" ELSE "history")
    /\ session' = TRUE
    /\ UNCHANGED <<messages, screen, drafts, heldLast, scoreVars>>

Told == Suffix(Prefix(messages, HistoryLimit), PromptWindow)

ReadHistory(c) ==
    /\ chat[c].at = "history"
    /\ chat' = [chat EXCEPT ![c].at = "maturity", ![c].told = Told]
    /\ heldLast' = [heldLast EXCEPT ![c] = [messages |-> Suffix(messages, PromptWindow),
                                            long |-> Len(messages) > HistoryLimit]]
    /\ UNCHANGED <<session, messages, screen, drafts, scoreVars>>

ReadMaturity(c) ==
    /\ chat[c].at = "maturity"
    /\ chat' = [chat EXCEPT ![c].at = "asking", ![c].scores = maturity]
    /\ UNCHANGED <<talkVars, scoreVars>>

HoldsMaturity(c) == chat[c].at \in {"asking", "answered", "question", "answer"}
Crossed(S) == crossed \/ \E c \in S : HoldsMaturity(c)

SaveQuestion(c) ==
    /\ Goes(c, "asking", "question")
    /\ messages' = Append(messages, Question(c))
    /\ UNCHANGED <<session, screen, drafts, heldLast, scoreVars>>

SaveAnswer(c) ==
    /\ Goes(c, "question", "answer")
    /\ messages' = Append(messages, AnswerOf(c))
    /\ UNCHANGED <<session, screen, drafts, heldLast, scoreVars>>

Updated(c, cats, score) == [k \in Categories |-> IF k \in cats THEN score ELSE chat[c].scores[k]]

\* The scores that were read, with the model's updates, replace the stored ones.
SaveMaturity(c) == \E cats \in SUBSET Categories, score \in Scores :
    /\ Goes(c, "answer", "done")
    /\ maturity' = Updated(c, cats, score)
    /\ asked' = [k \in Categories |-> IF k \in cats THEN score ELSE asked[k]]
    /\ crossed' = Crossed(Chats \ {c})
    /\ screen' = [shows |-> screen.shows \o <<Question(c), AnswerOf(c)>>, scores |-> maturity']
    /\ UNCHANGED <<session, messages, drafts, heldLast>>

\* The model or a transaction fails: what was stored stays, and the route answers 500.
ChatFails(c) ==
    /\ chat[c].at \in {"history", "maturity", "asking", "question", "answer"}
    /\ chat' = [chat EXCEPT ![c].at = "failed"]
    /\ UNCHANGED <<talkVars, scoreVars>>

\* Mutant: a draft replaces the conversation.
PutInstead(draft) == messages' = draft
PutAfter(draft) == messages' = messages \o draft

\* save_draft: the client's maturity, and every message it shows once more, under a new id.
SaveDraft ==
    /\ session /\ drafts < MaxDrafts /\ drafts' = drafts + 1
    /\ maturity' = screen.scores /\ asked' = screen.scores
    /\ crossed' = Crossed(Chats)
    /\ PutAfter(screen.shows)
    /\ UNCHANGED <<session, chat, screen, heldLast>>

ChatNext ==
    \/ SaveDraft
    \/ \E c \in Chats :
        \/ LookForSession(c) \/ CreateSession(c) \/ ReadHistory(c) \/ ReadMaturity(c)
        \/ SaveQuestion(c) \/ SaveAnswer(c) \/ SaveMaturity(c) \/ ChatFails(c)

----------------------------------------------------------------------------
(* Properties. *)

ChatTypeOK ==
    /\ maturity \in [Categories -> Scores \cup {0}] /\ drafts \in 0..MaxDrafts
    /\ \A i \in DOMAIN messages : messages[i].of \in Chats

\* However chats and drafts interleave, an answer is stored after its question, and a chat
\* that was answered has both.
ExchangesAreWhole ==
    /\ \A j \in DOMAIN messages : messages[j].role = "assistant" =>
        \E i \in 1..(j - 1) : messages[i] = Question(messages[j].of)
    /\ \A c \in Chats : chat[c].at = "done" => AnswerOf(c) \in ToSet(messages)

\* The agent is told the last messages of the session, unless it has more than the repository
\* returns: then it is told older ones, and never hears of what was said since.
ToldTheLatest == \A c \in Chats : ~heldLast[c].long => chat[c].told = heldLast[c].messages

\* Category by category the stored score is the one asked for last, by a chat or with a draft,
\* unless something was written between a chat's reading and its writing.
ScoresAreKept == crossed \/ maturity = asked

------------------------------------------------------------------------------
(***************************************************************************)
(* When an ideation session may be submitted (workers/agents/ideation/     *)
(* ideation_agent; orchestrator/services/ideation_service, routes/         *)
(* ideation_api): the agent judges the scores it is left with by a chat,   *)
(* the store keeps them cut to whole points, a browser shows what it was   *)
(* answered or has loaded, saves that as a draft, and submits it.  A chat  *)
(* is one step here; how chats interleave is above.                        *)
(***************************************************************************)

CONSTANTS
    AspectCount,    \* the number of categories of maturity, of equal weight here
    Marks,          \* the scores the model gives, in halves of a point
    SubmitAt,       \* submit_threshold, in halves of a point
    GapBelow,       \* a category below it is a gap; in halves of a point
    Browsers,
    MaxTalks        \* bound on chats

ASSUME ReadinessAssumption ==
    /\ AspectCount \in Nat \ {0} /\ Marks \subseteq Nat
    /\ SubmitAt \in Nat /\ SubmitAt % 8 = 0 /\ GapBelow \in Nat /\ GapBelow % 2 = 0
    /\ GapBelow + 2 < SubmitAt     \* the maturity of the mock is not ready

VARIABLES
    store,          \* postgres or redis; or mock, where the implementation cannot be imported
    hasSession,     \* whether the session itself is stored
    kept,           \* the stored maturity, or NothingKept
    display,        \* per browser, the maturity it shows
    talks,          \* chats so far
    submitted,      \* whether a PRD was answered to a submission
    savedDraft,     \* whether a browser was told that its draft is saved
    judgedReady     \* history: whether a chat judged the session ready

readyVars == <<store, hasSession, kept, display, talks, submitted, savedDraft, judgedReady>>

Aspects == 1..AspectCount

\* Weighted scores, added category by category: halves of a point, times the number of categories.
TotalOf(scores) ==
    LET total[n \in 0..AspectCount] == IF n = 0 THEN 0 ELSE total[n - 1] + scores[n] IN total[AspectCount]
SubmitTotal == SubmitAt * AspectCount
PointTotal == 2 * AspectCount

\* get_maturity_level: five levels, bounded by the quarters of the threshold.
LevelBounds == { (i * SubmitTotal) \div 4 : i \in 1..4 }
LevelOf(total) == Cardinality({ b \in LevelBounds : total >= b })

GapsOf(scores) == { k \in Aspects : scores[k] < GapBelow }

\* Mutant: the threshold itself is not enough.
JudgedStrictly(scores) ==
    [scores |-> scores, total |-> TotalOf(scores), level |-> LevelOf(TotalOf(scores)),
     ready |-> TotalOf(scores) > SubmitTotal, gaps |-> GapsOf(scores)]
\* What calculate_overall_maturity, get_maturity_level, can_submit and identify_gaps say.
Judged(scores) ==
    [scores |-> scores, total |-> TotalOf(scores), level |-> LevelOf(TotalOf(scores)),
     ready |-> TotalOf(scores) >= SubmitTotal, gaps |-> GapsOf(scores)]

Blank == Judged([k \in Aspects |-> 0])
\* _mock_maturity_state: the total is not that of its scores.
MockMaturity ==
    LET total == TotalOf([k \in Aspects |-> GapBelow]) + PointTotal IN
    [Judged([k \in Aspects |-> GapBelow]) EXCEPT !.total = total, !.level = LevelOf(total)]
NothingKept == [Blank EXCEPT !.level = 9]
IsKept == kept # NothingKept

ReadyInit ==
    /\ store \in {"postgres", "redis", "mock"} /\ hasSession = FALSE /\ kept = NothingKept
    /\ display = [b \in Browsers |-> Blank] /\ talks = 0 /\ submitted = FALSE /\ savedDraft = FALSE
    /\ judgedReady = FALSE

Whole(n, unit) == n - (n % unit)

\* The total is an integer column, or JSON.
Column(total) == IF store = "postgres" THEN Whole(total, PointTotal) ELSE total

\* What a chat stores: categories cut to whole points, the rest of the uncut ones.
Cut(scores) ==
    [Judged(scores) EXCEPT !.scores = [k \in Aspects |-> Whole(scores[k], 2)], !.total = Column(TotalOf(scores))]

StoredScores == IF IsKept THEN kept.scores ELSE Blank.scores

Raised(cats, mark) == [k \in Aspects |-> IF k \in cats THEN mark ELSE StoredScores[k]]

Chat(b, cats, mark) ==
    /\ store # "mock" /\ talks < MaxTalks /\ talks' = talks + 1
    /\ LET scores == Raised(cats, mark) IN
       /\ hasSession' = TRUE /\ kept' = Cut(scores)
       /\ display' = [display EXCEPT ![b] = Judged(scores)]
       /\ judgedReady' = (judgedReady \/ Judged(scores).ready)
    /\ UNCHANGED <<store, submitted, savedDraft>>

\* The model does not answer what can be parsed, max_retries times: the session is there.
ChatWithoutAnswer ==
    /\ store # "mock" /\ talks < MaxTalks /\ talks' = talks + 1
    /\ hasSession' = TRUE
    /\ UNCHANGED <<store, kept, display, submitted, savedDraft, judgedReady>>

\* The route answers for an implementation that is missing: a maturity that is not ready.
MockAnswer(b) ==
    /\ store = "mock" /\ talks < MaxTalks /\ talks' = talks + 1
    /\ display' = [display EXCEPT ![b] = MockMaturity]
    /\ UNCHANGED <<store, hasSession, kept, submitted, savedDraft, judgedReady>>

\* Postgres refuses the maturity of a session that is not there, and the route answers 500.
DraftFails == store = "postgres" /\ ~hasSession

\* save_draft: what the browser shows replaces what is stored.
SaveShown(b) ==
    /\ ~DraftFails /\ savedDraft' = TRUE
    /\ kept' = IF store = "mock" THEN kept ELSE [display[b] EXCEPT !.total = Column(display[b].total)]
    /\ UNCHANGED <<store, hasSession, display, talks, submitted, judgedReady>>

\* Without a session the browser keeps what it shows; without a maturity it shows zeros.
Load(b) ==
    /\ hasSession
    /\ display' = [display EXCEPT ![b] = IF IsKept THEN kept ELSE Blank]
    /\ UNCHANGED <<store, hasSession, kept, talks, submitted, savedDraft, judgedReady>>

\* submit_prd: what the browser sends, its total and whether that is enough, is believed.
Accepts(m) == m.total >= SubmitTotal

\* submit_for_prd is not implemented: the answer names a gate that nobody made.
SubmitPrd(b) ==
    /\ Accepts(display[b]) /\ ~submitted /\ submitted' = TRUE
    /\ UNCHANGED <<store, hasSession, kept, display, talks, savedDraft, judgedReady>>

ReadyNext ==
    \/ ChatWithoutAnswer
    \/ \E b \in Browsers :
        \/ MockAnswer(b) \/ SaveShown(b) \/ Load(b) \/ SubmitPrd(b)
        \/ \E cats \in SUBSET Aspects, mark \in Marks : Chat(b, cats, mark)

----------------------------------------------------------------------------
(* Properties. *)

Maturities == { display[b] : b \in Browsers } \cup (IF IsKept THEN {kept} ELSE {})

\* A PRD is answered only to a session that a chat judged ready, though the route asks the
\* browser and not the store.
SubmittedWasReady == submitted => judgedReady

\* Whatever was cut, the level and the readiness are those of the total beside them, and the
\* gaps those of the scores beside them.
PartsAgree == \A m \in Maturities :
    /\ m.ready = (m.total >= SubmitTotal) /\ m.level = LevelOf(m.total)
    /\ m.gaps = GapsOf(m.scores)

\* The total is less than a point from that of the scores beside it, except the mock's.
TotalIsNear == store # "mock" => \A m \in Maturities :
    /\ m.total < TotalOf(m.scores) + PointTotal
    /\ TotalOf(m.scores) < m.total + PointTotal

\* What is stored as ready stops being so only where a score is lowered, or where the
\* fractions that were cut made the difference: then a chat that changes nothing is enough.
ReadinessIsLostForACause == [][
    kept.ready /\ ~kept'.ready =>
        (\E k \in Aspects : kept'.scores[k] < kept.scores[k]) \/ TotalOf(kept.scores) < SubmitTotal ]_readyVars

\* A draft that is said to be saved can be loaded, except where Redis or the mock took it of
\* a session that is not there.
SavedCanBeLoaded == savedDraft /\ ~hasSession => store \in {"redis", "mock"}
==============================================================================
