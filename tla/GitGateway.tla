----------------------------- MODULE GitGateway -----------------------------
(***************************************************************************)
(* apply_patch of the Git gateway (orchestrator/git_gateway) on one        *)
(* repository: git apply, its --3way fallback, add -A, commit, rev-parse   *)
(* HEAD, each a process of its own with the event loop free in between.    *)
(* A task applies its own patch.  What a git command does to the working   *)
(* tree and the index is modelled from its documented behaviour; nothing   *)
(* under src/ resets or cleans the tree (reset_hard has no caller).        *)
(***************************************************************************)
EXTENDS Naturals, Sequences, FiniteSets

CONSTANTS
    Tasks,
    MaxGitFaults    \* bound: git commands that fail for another reason (index.lock, disk)

Whole(t) == [of |-> t, whole |-> TRUE]
\* What a three-way merge with conflicts leaves: part of the patch, and markers.
Part(t) == [of |-> t, whole |-> FALSE]
Changes == [of : Tasks, whole : BOOLEAN]

VARIABLES
    tree,     \* changes in the working tree that HEAD has not
    index,    \* those of them that are staged
    unmerged, \* whether the index has conflict entries, which commit refuses
    log,      \* the commits on HEAD: whose call made it, and its changes
    call,     \* the step each task's apply_patch is at
    sha,      \* what it returned: a position in the log, 0 for none
    interleaved, \* history: two calls at a time
    unread,   \* history: tasks whose commit was made and could not be read
    gitFaults

gitVars == <<tree, index, unmerged, log, call, sha, interleaved, unread, gitFaults>>

Underway == {t \in Tasks : call[t] \notin {"new", "done", "rejected"}}
InLog(c) == \E n \in DOMAIN log : c \in log[n].changes

GitInit ==
    /\ tree = {} /\ index = {} /\ unmerged = FALSE /\ log = <<>>
    /\ call = [t \in Tasks |-> "new"] /\ sha = [t \in Tasks |-> 0]
    /\ interleaved = FALSE /\ unread = {} /\ gitFaults = 0

Begin(t) ==
    /\ call[t] = "new"
    /\ call' = [call EXCEPT ![t] = "apply"]
    /\ interleaved' = (interleaved \/ Underway # {})
    /\ UNCHANGED <<tree, index, unmerged, log, sha, unread, gitFaults>>

\* git apply changes the working tree whole or not at all.
Apply(t) ==
    /\ call[t] = "apply"
    /\ \/ tree' = tree \cup {Whole(t)} /\ call' = [call EXCEPT ![t] = "add"]
       \/ UNCHANGED tree /\ call' = [call EXCEPT ![t] = "3way"]
    /\ UNCHANGED <<index, unmerged, log, sha, interleaved, unread, gitFaults>>

\* git apply --3way works on the index too.  With conflicts it fails, and leaves them.
ThreeWay(t) ==
    /\ call[t] = "3way"
    /\ \/ /\ tree' = tree \cup {Whole(t)} /\ index' = index \cup {Whole(t)}
          /\ call' = [call EXCEPT ![t] = "add"]
          /\ UNCHANGED unmerged
       \/ /\ tree' = tree \cup {Part(t)} /\ unmerged' = TRUE
          /\ call' = [call EXCEPT ![t] = "rejected"]
          /\ UNCHANGED index
       \/ /\ call' = [call EXCEPT ![t] = "rejected"]
          /\ UNCHANGED <<tree, index, unmerged>>
    /\ UNCHANGED <<log, sha, interleaved, unread, gitFaults>>

\* add -A stages all there is, conflict markers too.
Add(t) ==
    /\ call[t] = "add"
    /\ index' = tree /\ unmerged' = FALSE
    /\ call' = [call EXCEPT ![t] = "commit"]
    /\ UNCHANGED <<tree, log, sha, interleaved, unread, gitFaults>>

\* The commit takes what is staged; with nothing staged, or conflicts, it fails.
Commit(t) ==
    /\ call[t] = "commit"
    /\ IF index = {} \/ unmerged
       THEN /\ call' = [call EXCEPT ![t] = "rejected"]
            /\ UNCHANGED <<tree, index, log>>
       ELSE /\ log' = Append(log, [by |-> t, changes |-> index])
            /\ tree' = tree \ index /\ index' = {}
            /\ call' = [call EXCEPT ![t] = "sha"]
    /\ UNCHANGED <<unmerged, sha, interleaved, unread, gitFaults>>

\* Mutant: the commit before HEAD is read.
ReadParent(t) ==
    /\ call[t] = "sha"
    /\ sha' = [sha EXCEPT ![t] = IF Len(log) > 1 THEN Len(log) - 1 ELSE 1]
    /\ call' = [call EXCEPT ![t] = "done"]
    /\ UNCHANGED <<tree, index, unmerged, log, interleaved, unread, gitFaults>>

\* get_current_sha: HEAD, whoever moved it.
ReadSha(t) ==
    /\ call[t] = "sha"
    /\ sha' = [sha EXCEPT ![t] = Len(log)]
    /\ call' = [call EXCEPT ![t] = "done"]
    /\ UNCHANGED <<tree, index, unmerged, log, interleaved, unread, gitFaults>>

\* A command fails: the caller publishes a rejection whatever was done before it.
GitFails(t) ==
    /\ gitFaults < MaxGitFaults /\ call[t] \in {"add", "commit", "sha"}
    /\ gitFaults' = gitFaults + 1
    /\ call' = [call EXCEPT ![t] = "rejected"]
    /\ unread' = IF call[t] = "sha" THEN unread \cup {t} ELSE unread
    /\ UNCHANGED <<tree, index, unmerged, log, sha, interleaved>>

GitNext ==
    \E t \in Tasks : Begin(t) \/ Apply(t) \/ ThreeWay(t) \/ Add(t) \/ Commit(t) \/ ReadSha(t) \/ GitFails(t)

GitSpec == GitInit /\ [][GitNext]_gitVars

----------------------------------------------------------------------------
(* Properties. *)

GitTypeOK ==
    /\ tree \subseteq Changes /\ index \subseteq tree
    /\ \A n \in DOMAIN log : log[n].by \in Tasks /\ log[n].changes \in (SUBSET Changes) \ {{}}

\* A task that was told its patch is applied has it whole in the commit it was given
\* or an earlier one, whatever ran at the same time (apply_patch, git_gateway.py:190-197).
AppliedIsCommitted ==
    \A t \in Tasks : call[t] = "done" =>
        \E n \in 1..sha[t] : Whole(t) \in log[n].changes

\* A commit holds its own task's patch, and of others only what a rejected one left in
\* the tree; and the commit a task is given is its own; unless two calls interleaved.
CommitIsOwn ==
    ~interleaved =>
        /\ \A n \in DOMAIN log :
               /\ Whole(log[n].by) \in log[n].changes
               /\ \A c \in log[n].changes : c = Whole(log[n].by) \/ call[c.of] = "rejected"
        /\ \A t \in Tasks : call[t] = "done" => log[sha[t]].by = t

\* A task whose patch was rejected has made no commit, unless reading HEAD failed after it,
\* however the calls interleave.
RejectedMadeNone ==
    \A n \in DOMAIN log : call[log[n].by] = "rejected" => log[n].by \in unread

\* What a task is told of its patch is what the repository has (apply_patch).
PatchesAreTrue == GitTypeOK /\ AppliedIsCommitted /\ CommitIsOwn /\ RejectedMadeNone

\* "Failed patches don't leave dirty state" (user_stories.md): of a patch that was
\* rejected, whole or in part, nothing is in the working tree.
FailedLeavesClean == \A c \in tree : call[c.of] # "rejected"
=============================================================================
