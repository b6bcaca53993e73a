--------------------------- MODULE ServicesProofs ---------------------------
(* What MCServices checks of its components on an instance, for every value of *)
(* the constants.  Each component has its invariant, which is inductive, and a  *)
(* lemma that its specification keeps it; the properties are parts of these     *)
(* invariants or follow from them.  A behaviour of the instance is one of every *)
(* component, so that the last theorem is of the specification the run checks.  *)
(* The gates and the bridge, which it also has, are in GateDeskProofs.          *)
EXTENDS MCServices, FiniteSetTheorems, TLAPS
-----------------------------------------------------------------------------
(* Lists: an element pushed at the front.                                  *)

LEMMA PushFront ==
    ASSUME NEW S, NEW s \in Seq(S), NEW x \in S, NEW t, t = <<x>> \o s
    PROVE  /\ t \in Seq(S) /\ 1 \in DOMAIN t /\ t[1] = x /\ DOMAIN t \subseteq Nat
           /\ \A n \in DOMAIN t : n = 1 \/ (n - 1 \in DOMAIN s /\ t[n] = s[n - 1])
           /\ \A n \in DOMAIN s : n + 1 \in DOMAIN t /\ t[n + 1] = s[n]
<1> DEFINE f == <<x>>
<1>1. f \in Seq(S) /\ Len(f) = 1 /\ f[1] = x
  OBVIOUS
<1> HIDE DEF f
<1>2. t = f \o s
  BY DEF f
<1>3. /\ t \in Seq(S) /\ Len(t) = Len(s) + 1 /\ Len(s) \in Nat
      /\ \A n \in 1..(Len(s) + 1) : t[n] = IF n <= 1 THEN f[n] ELSE s[n - 1]
  BY <1>1, <1>2
<1>4. DOMAIN s = 1..Len(s) /\ DOMAIN t = 1..(Len(s) + 1)
  BY <1>3
<1>5. /\ \A n \in DOMAIN t : n = 1 \/ (n - 1 \in DOMAIN s /\ t[n] = s[n - 1])
      /\ \A n \in DOMAIN s : n + 1 \in DOMAIN t /\ t[n + 1] = s[n]
      /\ 1 \in DOMAIN t /\ t[1] = x /\ DOMAIN t \subseteq Nat
  BY <1>1, <1>3, <1>4
<1> QED
  BY <1>3, <1>5

LEMMA PushedSet ==
    ASSUME NEW s, NEW x, NEW t, 1 \in DOMAIN t, t[1] = x,
           \A n \in DOMAIN t : n = 1 \/ (n - 1 \in DOMAIN s /\ t[n] = s[n - 1]),
           \A n \in DOMAIN s : n + 1 \in DOMAIN t /\ t[n + 1] = s[n]
    PROVE  ToSet(t) = {x} \cup ToSet(s)
<1>1. /\ \A n \in DOMAIN t : t[n] = x \/ \E k \in DOMAIN s : t[n] = s[k]
      /\ \E n \in DOMAIN t : t[n] = x
      /\ \A n \in DOMAIN s : \E k \in DOMAIN t : t[k] = s[n]
  OBVIOUS
<1>2. ToSet(t) \subseteq {x} \cup ToSet(s)
  <2> SUFFICES ASSUME NEW n \in DOMAIN t
               PROVE  t[n] \in {x} \cup ToSet(s)
    BY DEF ToSet
  <2> QED
    BY <1>1 DEF ToSet
<1>3. {x} \cup ToSet(s) \subseteq ToSet(t)
  <2>1. x \in ToSet(t)
    BY <1>1 DEF ToSet
  <2>2. ASSUME NEW n \in DOMAIN s
        PROVE  s[n] \in ToSet(t)
    BY <1>1, <2>2 DEF ToSet
  <2> QED
    BY <2>1, <2>2 DEF ToSet
<1> QED
  BY <1>2, <1>3

LEMMA EmptyList ==
    /\ \A S : <<>> \in Seq(S) /\ ToSet(<<>>) \subseteq S
    /\ ToSet(<<>>) = {}
<1> DEFINE s == <<>>
<1>1. DOMAIN s = {} /\ \A S : s \in Seq(S)
  OBVIOUS
<1> HIDE DEF s
<1>2. ToSet(s) = {}
  BY <1>1 DEF ToSet
<1> QED
  BY <1>1, <1>2 DEF s
-----------------------------------------------------------------------------
(* The Git gateway.                                                        *)

GitSteps == {"new", "apply", "3way", "add", "commit", "sha", "done", "rejected"}

GitShape ==
    /\ GitTypeOK /\ log \in Seq([by : Tasks, changes : (SUBSET Changes) \ {{}}])
    /\ call \in [Tasks -> GitSteps] /\ sha \in [Tasks -> 0..Len(log)]
    /\ interleaved \in BOOLEAN

\* A patch goes from the tree to the index to the log, whoever moves it.
PatchMoves == \A t \in Tasks :
    /\ call[t] = "add" => Whole(t) \in tree \/ InLog(Whole(t))
    /\ call[t] = "commit" => Whole(t) \in index \/ InLog(Whole(t))
    /\ call[t] = "sha" => InLog(Whole(t))

\* Who committed is at HEAD's read, or done, or failed there.
Committers == \A n \in DOMAIN log :
    LET t == log[n].by IN call[t] \in {"sha", "done"} \/ (call[t] = "rejected" /\ t \in unread)

\* With one call at a time: the tree has the changes of the call, and what rejected ones left.
Left == {c \in Changes : call[c.of] = "rejected"}
TreeIsOf(t) ==
    /\ call[t] \in {"apply", "3way", "sha"} => tree \subseteq Left
    /\ call[t] \in {"add", "commit"} => tree \subseteq Left \cup {Whole(t)}
    /\ call[t] = "add" => Whole(t) \in tree
    /\ call[t] = "commit" => Whole(t) \in index
    /\ call[t] = "sha" => log # <<>> /\ log[Len(log)].by = t

OneAtATime == ~interleaved => \A t, u \in Underway : t = u
CleanTree == ~interleaved =>
    /\ Underway = {} => tree \subseteq Left
    /\ \A t \in Underway : TreeIsOf(t)

GitInv == /\ GitShape /\ AppliedIsCommitted /\ PatchMoves /\ Committers
          /\ OneAtATime /\ CleanTree /\ CommitIsOwn

LEMMA GitStart == GitInit => GitInv
<1> SUFFICES ASSUME GitInit
             PROVE  GitInv
  OBVIOUS
<1>1. GitShape
  <2>1. log \in Seq([by : Tasks, changes : (SUBSET Changes) \ {{}}]) /\ DOMAIN log = {} /\ Len(log) = 0
    BY DEF GitInit
  <2>2. call \in [Tasks -> GitSteps] /\ sha \in [Tasks -> 0..Len(log)]
    BY <2>1 DEF GitInit, GitSteps
  <2>3. GitTypeOK
    BY <2>1 DEF GitInit, GitTypeOK
  <2> QED
    BY <2>1, <2>2, <2>3 DEF GitInit, GitShape
<1>2. PatchMoves /\ Committers /\ OneAtATime /\ CleanTree /\ AppliedIsCommitted /\ CommitIsOwn
  BY DEF GitInit, PatchMoves, Committers, OneAtATime, CleanTree, Underway, AppliedIsCommitted,
         CommitIsOwn
<1> QED
  BY <1>1, <1>2 DEF GitInv

(* The log only grows, by what is staged.                                  *)
LEMMA CommitAppends ==
    ASSUME GitShape, NEW t \in Tasks, Commit(t), ~(index = {} \/ unmerged)
    PROVE  /\ Len(log') = Len(log) + 1 /\ Len(log) \in Nat
           /\ log' \in Seq([by : Tasks, changes : (SUBSET Changes) \ {{}}])
           /\ \A n \in DOMAIN log : n \in DOMAIN log' /\ log'[n] = log[n]
           /\ DOMAIN log = 1..Len(log) /\ DOMAIN log' = 1..Len(log')
           /\ log'[Len(log')].by = t /\ log'[Len(log')].changes = index
           /\ \A c : InLog(c)' <=> InLog(c) \/ c \in index
<1> DEFINE e == [by |-> t, changes |-> index]
           Commits == [by : Tasks, changes : (SUBSET Changes) \ {{}}]
<1>1. e \in Commits /\ e.by = t /\ e.changes = index /\ log' = Append(log, e)
  BY DEF Commit, GitShape, GitTypeOK
<1>2. log \in Seq(Commits)
  BY DEF GitShape
<1> HIDE DEF e, Commits
<1>3. /\ Len(log') = Len(log) + 1 /\ Len(log) \in Nat /\ log' \in Seq(Commits)
      /\ \A n \in DOMAIN log : n \in DOMAIN log' /\ log'[n] = log[n]
      /\ log'[Len(log')] = e
      /\ DOMAIN log = 1..Len(log) /\ DOMAIN log' = 1..Len(log')
  BY <1>1, <1>2
<1>4. \A n \in DOMAIN log' : n \in DOMAIN log \/ n = Len(log')
  BY <1>3
<1>5. \A c : InLog(c)' <=> InLog(c) \/ c \in index
  BY <1>1, <1>3, <1>4 DEF InLog
<1> QED
  BY <1>1, <1>3, <1>5 DEF Commits

LEMMA GitKeepsShape ==
    ASSUME GitShape, GitNext
    PROVE  GitShape'
<1>1. PICK t \in Tasks : \/ Begin(t) \/ Apply(t) \/ ThreeWay(t) \/ Add(t)
                         \/ Commit(t) \/ ReadSha(t) \/ GitFails(t)
  BY DEF GitNext
<1>2. Whole(t) \in Changes /\ Part(t) \in Changes
  BY DEF Whole, Part, Changes
<1>3. Len(log) \in Nat /\ DOMAIN log = 1..Len(log)
  BY DEF GitShape
<1>4. CASE Begin(t)
  BY <1>4 DEF GitShape, GitTypeOK, GitSteps, Begin
<1>5. CASE Apply(t)
  BY <1>2, <1>5 DEF GitShape, GitTypeOK, GitSteps, Apply
<1>6. CASE ThreeWay(t)
  BY <1>2, <1>6 DEF GitShape, GitTypeOK, GitSteps, ThreeWay
<1>7. CASE Add(t)
  BY <1>7 DEF GitShape, GitTypeOK, GitSteps, Add
<1>8. CASE Commit(t)
  <2>1. CASE index = {} \/ unmerged
    BY <1>8, <2>1 DEF GitShape, GitTypeOK, GitSteps, Commit
  <2>2. CASE ~(index = {} \/ unmerged)
    <3>1. /\ tree' = tree \ index /\ index' = {} /\ call' = [call EXCEPT ![t] = "sha"]
          /\ UNCHANGED <<sha, interleaved>>
      BY <1>8, <2>2 DEF Commit
    <3>2. log' \in Seq([by : Tasks, changes : (SUBSET Changes) \ {{}}]) /\ Len(log') = Len(log) + 1
      BY <1>8, <2>2, CommitAppends
    <3>3. \A n \in DOMAIN log' : log'[n].by \in Tasks /\ log'[n].changes \in (SUBSET Changes) \ {{}}
      <4> DEFINE Commits == [by : Tasks, changes : (SUBSET Changes) \ {{}}]
      <4>1. log' \in Seq(Commits)
        BY <3>2
      <4>2. ASSUME NEW n \in DOMAIN log'
            PROVE  log'[n] \in Commits
        <5> HIDE DEF Commits
        <5> QED
          BY <4>1
      <4> QED
        BY <4>2
    <3>4. sha' \in [Tasks -> 0..Len(log')]
      BY <1>3, <3>1, <3>2 DEF GitShape
    <3> QED
      BY <3>1, <3>2, <3>3, <3>4 DEF GitShape, GitTypeOK, GitSteps
  <2> QED
    BY <2>1, <2>2
<1>9. CASE ReadSha(t)
  BY <1>3, <1>9 DEF GitShape, GitTypeOK, GitSteps, ReadSha
<1>10. CASE GitFails(t)
  BY <1>10 DEF GitShape, GitTypeOK, GitSteps, GitFails
<1> QED
  BY <1>1, <1>4, <1>5, <1>6, <1>7, <1>8, <1>9, <1>10

LEMMA GitKeepsMoves ==
    ASSUME GitShape, PatchMoves, NEW t \in Tasks,
           \/ Begin(t) \/ Apply(t) \/ ThreeWay(t) \/ Add(t) \/ Commit(t) \/ ReadSha(t) \/ GitFails(t)
    PROVE  PatchMoves'
<1>1. CASE Begin(t) \/ ReadSha(t) \/ GitFails(t)
  BY <1>1 DEF PatchMoves, InLog, GitShape, Begin, ReadSha, GitFails
<1>2. CASE Apply(t)
  BY <1>2 DEF PatchMoves, InLog, GitShape, Apply
<1>3. CASE ThreeWay(t)
  BY <1>3 DEF PatchMoves, InLog, GitShape, ThreeWay
<1>4. CASE Add(t)
  BY <1>4 DEF PatchMoves, InLog, GitShape, GitTypeOK, Add
<1>5. CASE Commit(t)
  <2>1. CASE index = {} \/ unmerged
    BY <1>5, <2>1 DEF PatchMoves, InLog, GitShape, Commit
  <2>2. CASE ~(index = {} \/ unmerged)
    <3>1. \A c : InLog(c)' <=> InLog(c) \/ c \in index
      BY <1>5, <2>2, CommitAppends
    <3>2. tree' = tree \ index /\ index' = {} /\ call' = [call EXCEPT ![t] = "sha"]
      BY <1>5, <2>2 DEF Commit
    <3>3. call[t] = "commit" /\ call \in [Tasks -> GitSteps]
      BY <1>5 DEF Commit, GitShape
    <3>4. \A u \in Tasks : u = t \/ call'[u] = call[u]
      BY <3>2, <3>3
    <3>5. call'[t] = "sha" /\ InLog(Whole(t))'
      BY <3>1, <3>2, <3>3 DEF PatchMoves
    <3>6. ASSUME NEW u \in Tasks
          PROVE  /\ call'[u] = "add" => Whole(u) \in tree' \/ InLog(Whole(u))'
                 /\ call'[u] = "commit" => Whole(u) \in index' \/ InLog(Whole(u))'
                 /\ call'[u] = "sha" => InLog(Whole(u))'
      BY <3>1, <3>2, <3>4, <3>5 DEF PatchMoves
    <3> QED
      BY <3>6 DEF PatchMoves
  <2> QED
    BY <2>1, <2>2
<1> QED
  BY <1>1, <1>2, <1>3, <1>4, <1>5

LEMMA GitKeepsApplied ==
    ASSUME GitShape, PatchMoves, AppliedIsCommitted, NEW t \in Tasks,
           \/ Begin(t) \/ Apply(t) \/ ThreeWay(t) \/ Add(t) \/ Commit(t) \/ ReadSha(t) \/ GitFails(t)
    PROVE  AppliedIsCommitted'
<1> USE DEF GitShape
<1>0. DOMAIN log = 1..Len(log) /\ Len(log) \in Nat
  OBVIOUS
<1>1. CASE Begin(t) \/ Apply(t) \/ ThreeWay(t) \/ Add(t) \/ GitFails(t)
  <2>1. log' = log /\ sha' = sha /\ \A u \in Tasks : call'[u] = "done" => call[u] = "done"
    BY <1>1 DEF Begin, Apply, ThreeWay, Add, GitFails
  <2> QED
    BY <2>1 DEF AppliedIsCommitted
<1>2. CASE ReadSha(t)
  <2>1. log' = log /\ sha'[t] = Len(log) /\ call[t] = "sha"
    BY <1>2 DEF ReadSha
  <2>2. \E n \in 1..sha'[t] : Whole(t) \in log'[n].changes
    BY <1>0, <2>1 DEF PatchMoves, InLog
  <2>3. \A u \in Tasks \ {t} : call'[u] = call[u] /\ sha'[u] = sha[u]
    BY <1>2 DEF ReadSha
  <2> QED
    BY <2>1, <2>2, <2>3 DEF AppliedIsCommitted
<1>3. CASE Commit(t)
  <2>1. sha' = sha /\ \A u \in Tasks : call'[u] = "done" => call[u] = "done"
    BY <1>3 DEF Commit
  <2>2. \A n \in DOMAIN log : log'[n] = log[n]
    BY <1>3, CommitAppends DEF Commit
  <2>3. \A u \in Tasks : 1..sha[u] \subseteq DOMAIN log
    BY <1>0
  <2> QED
    BY <2>1, <2>2, <2>3 DEF AppliedIsCommitted
<1> QED
  BY <1>1, <1>2, <1>3

(* What Commit does to the log, in one formula for the two that follow.     *)
LEMMA LogMoves ==
    ASSUME GitShape, NEW t \in Tasks,
           \/ Begin(t) \/ Apply(t) \/ ThreeWay(t) \/ Add(t) \/ Commit(t) \/ ReadSha(t) \/ GitFails(t)
    PROVE  \/ log' = log
           \/ /\ call[t] = "commit" /\ call'[t] = "sha" /\ tree' = tree \ index
              /\ Len(log') = Len(log) + 1 /\ DOMAIN log' = DOMAIN log \cup {Len(log')}
              /\ \A n \in DOMAIN log : log'[n] = log[n] /\ n # Len(log')
              /\ log'[Len(log')].by = t /\ log'[Len(log')].changes = index
<1>1. CASE Commit(t) /\ ~(index = {} \/ unmerged)
  <2>1. /\ call[t] = "commit" /\ call'[t] = "sha" /\ tree' = tree \ index
    BY <1>1 DEF Commit, GitShape
  <2>2. DOMAIN log' = DOMAIN log \cup {Len(log')} /\ \A n \in DOMAIN log : n # Len(log')
    <3>1. /\ DOMAIN log = 1..Len(log) /\ DOMAIN log' = 1..Len(log')
          /\ Len(log') = Len(log) + 1 /\ Len(log) \in Nat
      BY <1>1, CommitAppends
    <3> QED
      BY <3>1
  <2> QED
    BY <1>1, <2>1, <2>2, CommitAppends
<1>2. CASE Commit(t) /\ (index = {} \/ unmerged)
  BY <1>2 DEF Commit
<1> QED
  BY <1>1, <1>2 DEF Begin, Apply, ThreeWay, Add, ReadSha, GitFails

LEMMA GitKeepsCommitters ==
    ASSUME GitShape, Committers, NEW t \in Tasks,
           \/ Begin(t) \/ Apply(t) \/ ThreeWay(t) \/ Add(t) \/ Commit(t) \/ ReadSha(t) \/ GitFails(t)
    PROVE  Committers'
<1> DEFINE Fine(u) == call[u] \in {"sha", "done"} \/ (call[u] = "rejected" /\ u \in unread)
<1>1. \A n \in DOMAIN log : log[n].by \in Tasks
  BY DEF GitShape, GitTypeOK
<1>2. ASSUME NEW u \in Tasks, Fine(u)
      PROVE  Fine(u)'
  BY <1>2 DEF GitShape, Begin, Apply, ThreeWay, Add, Commit, ReadSha, GitFails
<1>3. CASE log' = log
  BY <1>1, <1>2, <1>3 DEF Committers
<1>4. CASE log' # log
  BY <1>1, <1>2, <1>4, LogMoves DEF Committers
<1> QED
  BY <1>3, <1>4

LEMMA GitKeepsClean ==
    ASSUME GitShape, OneAtATime, CleanTree, NEW t \in Tasks,
           \/ Begin(t) \/ Apply(t) \/ ThreeWay(t) \/ Add(t) \/ Commit(t) \/ ReadSha(t) \/ GitFails(t)
    PROVE  OneAtATime' /\ CleanTree'
<1> USE DEF GitShape, Underway
<1>0. /\ \A u \in Tasks : u = t \/ call'[u] = call[u]
      /\ call[t] # "rejected" /\ Left \subseteq Left'
  BY DEF Begin, Apply, ThreeWay, Add, Commit, ReadSha, GitFails, Left, Changes
<1>1. CASE Begin(t)
  <2>1. /\ tree' = tree /\ index' = index /\ call' = [call EXCEPT ![t] = "apply"]
        /\ interleaved' = (interleaved \/ Underway # {})
    BY <1>1 DEF Begin
  <2>2. ~interleaved' => Underway = {} /\ Underway' = {t}
    BY <2>1
  <2>3. call'[t] = "apply"
    BY <2>1
  <2> QED
    BY <1>0, <2>1, <2>2, <2>3 DEF OneAtATime, CleanTree, TreeIsOf
<1>2. CASE ~Begin(t)
  <2>1. t \in Underway /\ Underway' \subseteq Underway /\ interleaved' = interleaved
    BY <1>2 DEF Apply, ThreeWay, Add, Commit, ReadSha, GitFails
  <2>2. OneAtATime'
    BY <2>1 DEF OneAtATime
  <2>3. Whole(t) \in Changes /\ Part(t) \in Changes /\ Whole(t).of = t /\ Part(t).of = t
    BY DEF Whole, Part, Changes
  <2>4. call'[t] = "rejected" => Whole(t) \in Left' /\ Part(t) \in Left'
    BY <2>3 DEF Left
  <2>5. ASSUME ~interleaved
        PROVE  IF t \in Underway' THEN TreeIsOf(t)' ELSE tree' \subseteq Left'
    <3>1. TreeIsOf(t)
      BY <2>1, <2>5 DEF CleanTree
    <3>2. CASE Apply(t)
      BY <1>0, <3>1, <3>2 DEF TreeIsOf, Apply
    <3>3. CASE ThreeWay(t)
      BY <1>0, <2>4, <3>1, <3>3 DEF TreeIsOf, ThreeWay
    <3>4. CASE Add(t)
      BY <1>0, <3>1, <3>4 DEF TreeIsOf, Add
    <3>5. CASE Commit(t)
      <4>1. CASE index = {} \/ unmerged
        BY <1>0, <2>4, <3>1, <3>5, <4>1 DEF TreeIsOf, Commit
      <4>2. CASE ~(index = {} \/ unmerged)
        <5>1. Len(log') > 0 /\ log'[Len(log')].by = t
          BY <3>5, <4>2, CommitAppends
        <5>2. tree' = tree \ index /\ call[t] = "commit" /\ call'[t] = "sha"
          BY <3>5, <4>2 DEF Commit
        <5>3. log' # <<>>
          BY <5>1
        <5>4. tree' \subseteq Left'
          BY <1>0, <3>1, <5>2 DEF TreeIsOf
        <5> QED
          BY <5>1, <5>2, <5>3, <5>4 DEF TreeIsOf
      <4> QED
        BY <4>1, <4>2
    <3>6. CASE ReadSha(t)
      BY <1>0, <3>1, <3>6 DEF TreeIsOf, ReadSha
    <3>7. CASE GitFails(t)
      BY <1>0, <2>4, <3>1, <3>7 DEF TreeIsOf, GitFails
    <3> QED
      BY <1>2, <3>2, <3>3, <3>4, <3>5, <3>6, <3>7
  <2>6. CleanTree'
    BY <2>1, <2>2, <2>5 DEF CleanTree, OneAtATime
  <2> QED
    BY <2>2, <2>6
<1> QED
  BY <1>1, <1>2

LEMMA GitKeepsOwn ==
    ASSUME GitShape, OneAtATime, CleanTree, AppliedIsCommitted, CommitIsOwn, NEW t \in Tasks,
           \/ Begin(t) \/ Apply(t) \/ ThreeWay(t) \/ Add(t) \/ Commit(t) \/ ReadSha(t) \/ GitFails(t)
    PROVE  CommitIsOwn'
<1> DEFINE Own(l, n, s) ==
        /\ Whole(l[n].by) \in l[n].changes
        /\ \A c \in l[n].changes : c = Whole(l[n].by) \/ s[c.of] = "rejected"
<1> SUFFICES ASSUME ~interleaved'
             PROVE  /\ \A n \in DOMAIN log' : Own(log', n, call')
                    /\ \A u \in Tasks : call'[u] = "done" => log'[sha'[u]].by = u
  BY DEF CommitIsOwn
<1>1. ~interleaved
  BY DEF GitShape, Begin, Apply, ThreeWay, Add, Commit, ReadSha, GitFails
<1>2. /\ \A n \in DOMAIN log : Own(log, n, call)
      /\ \A u \in Tasks : call[u] = "done" => log[sha[u]].by = u
  BY <1>1 DEF CommitIsOwn
<1>3. DOMAIN log = 1..Len(log) /\ Len(log) \in Nat
  BY DEF GitShape
<1>4. \A u \in Tasks : call[u] = "rejected" => call'[u] = "rejected"
  BY DEF GitShape, Begin, Apply, ThreeWay, Add, Commit, ReadSha, GitFails
<1>5. \A n \in DOMAIN log : Own(log, n, call')
  <2> SUFFICES ASSUME NEW n \in DOMAIN log
               PROVE  Own(log, n, call')
    OBVIOUS
  <2>1. \A c \in log[n].changes : c.of \in Tasks
    BY DEF GitShape, GitTypeOK, Changes
  <2> QED
    BY <1>2, <1>4, <2>1
<1>6. CASE ReadSha(t)
  <2>1. log' = log /\ call[t] = "sha" /\ sha'[t] = Len(log)
    BY <1>6 DEF ReadSha, GitShape
  <2>2. log[Len(log)].by = t
    BY <1>1, <2>1 DEF CleanTree, Underway, TreeIsOf
  <2>3. \A u \in Tasks \ {t} : call'[u] = call[u] /\ sha'[u] = sha[u]
    BY <1>6 DEF ReadSha, GitShape
  <2> QED
    BY <1>2, <1>5, <2>1, <2>2, <2>3
<1>7. CASE ~ReadSha(t)
  <2>1. sha' = sha /\ \A u \in Tasks : call'[u] = "done" => call[u] = "done"
    BY <1>7 DEF GitShape, Begin, Apply, ThreeWay, Add, Commit, GitFails
  <2>2. CASE log' = log
    BY <1>2, <1>5, <2>1, <2>2
  <2>3. CASE log' # log
    <3>1. /\ call[t] = "commit" /\ DOMAIN log' = DOMAIN log \cup {Len(log')}
          /\ \A n \in DOMAIN log : log'[n] = log[n]
          /\ log'[Len(log')].by = t /\ log'[Len(log')].changes = index
      BY <2>3, LogMoves
    <3>2. index \subseteq Left \cup {Whole(t)} /\ Whole(t) \in index
      BY <1>1, <3>1 DEF CleanTree, Underway, TreeIsOf, GitShape, GitTypeOK
    <3>3. \A c \in index : c = Whole(t) \/ call'[c.of] = "rejected"
      BY <1>4, <3>2 DEF Left, Changes
    <3>4. Own(log', Len(log'), call')
      BY <3>1, <3>2, <3>3
    <3>5. ASSUME NEW n \in DOMAIN log
          PROVE  Own(log', n, call')
      BY <1>5, <3>1
    <3>6. \A n \in DOMAIN log' : Own(log', n, call')
      BY <3>1, <3>4, <3>5
    <3>7. ASSUME NEW u \in Tasks, call'[u] = "done"
          PROVE  log'[sha'[u]].by = u
      <4>1. sha[u] \in DOMAIN log
        <5>1. \E n \in 1..sha[u] : TRUE
          BY <2>1, <3>7 DEF AppliedIsCommitted
        <5> QED
          BY <1>3, <5>1 DEF GitShape
      <4> QED
        BY <1>2, <2>1, <3>1, <3>7, <4>1
    <3> QED
      BY <3>6, <3>7
  <2> QED
    BY <2>2, <2>3
<1> QED
  BY <1>6, <1>7

LEMMA GitAlways == GitSpec => []GitInv
<1>1. GitInv /\ [GitNext]_gitVars => GitInv'
  <2> SUFFICES ASSUME GitInv, [GitNext]_gitVars
               PROVE  GitInv'
    OBVIOUS
  <2>1. CASE UNCHANGED gitVars
    BY <2>1 DEF gitVars, GitInv, GitShape, GitTypeOK, AppliedIsCommitted, PatchMoves, InLog,
                Committers, OneAtATime, CleanTree, TreeIsOf, Left, Underway, CommitIsOwn
  <2>2. CASE GitNext
    <3>1. PICK t \in Tasks : \/ Begin(t) \/ Apply(t) \/ ThreeWay(t) \/ Add(t)
                             \/ Commit(t) \/ ReadSha(t) \/ GitFails(t)
      BY <2>2 DEF GitNext
    <3>2. GitShape'
      BY <2>2, GitKeepsShape DEF GitInv
    <3>3. PatchMoves' /\ AppliedIsCommitted'
      BY <3>1, GitKeepsMoves, GitKeepsApplied DEF GitInv
    <3>4. Committers' /\ OneAtATime' /\ CleanTree'
      BY <3>1, GitKeepsCommitters, GitKeepsClean DEF GitInv
    <3>5. CommitIsOwn'
      BY <3>1, GitKeepsOwn DEF GitInv
    <3> QED
      BY <3>2, <3>3, <3>4, <3>5 DEF GitInv
  <2> QED
    BY <2>1, <2>2
<1> QED
  BY <1>1, GitStart, PTL DEF GitSpec

\* What a task is told of its patch is what the repository has, for any number of tasks,
\* whichever git command fails: an applied patch is whole in the log at or before the commit
\* that is returned; a rejected one made no commit that could be read; and without overlaps
\* a commit is one task's patch and what rejected ones left (apply_patch, GitOperations).
THEOREM PatchesTrue == GitSpec => []PatchesAreTrue
<1>1. GitInv => PatchesAreTrue
  <2> SUFFICES ASSUME GitInv
               PROVE  PatchesAreTrue
    OBVIOUS
  <2>1. RejectedMadeNone
    BY DEF GitInv, Committers, RejectedMadeNone
  <2> QED
    BY <2>1 DEF GitInv, GitShape, PatchesAreTrue
<1> QED
  BY <1>1, GitAlways, PTL
-----------------------------------------------------------------------------
(* The classification queue.                                               *)

BatchSpec == BatchInit /\ [][BatchNext]_batchVars

Holding(w) == inHand[w].at # "free"
Writing == {"status write", "ok write", "failed write"}
Hands == [at : Phases, item : Items \cup {Free.item}, seen : Jobs]

BatchShape ==
    /\ jobRecord \in Jobs /\ unpushed \subseteq Ideas /\ items \in Seq(Items)
    /\ inHand \in [BatchWorkers -> Hands]
    /\ \A w \in BatchWorkers : Holding(w) => inHand[w].item \in Items
    /\ outcomeWrites \in [Ideas -> Nat] /\ classifyCalls \in [Ideas -> Nat]
    /\ classified \subseteq Ideas /\ lost \subseteq Ideas /\ raced \in BOOLEAN

\* Nothing is queued or handed out before the record is stored, which is never taken back.
Started ==
    /\ jobRecord.status = "none" => jobRecord = NoJob /\ unpushed = Ideas /\ items = <<>>
                              /\ \A w \in BatchWorkers : ~Holding(w)
    /\ \A w \in BatchWorkers : inHand[w].at \in Writing => inHand[w].seen.status # "none"

\* No two places have one idea.
Apart ==
    /\ \A m, n \in DOMAIN items : items[m].idea = items[n].idea => m = n
    /\ \A v, w \in BatchWorkers : Holding(v) /\ Holding(w) /\ inHand[v].item.idea = inHand[w].item.idea => v = w
    /\ \A n \in DOMAIN items, w \in BatchWorkers : Holding(w) => items[n].idea # inHand[w].item.idea
    /\ \A n \in DOMAIN items : items[n].idea \notin unpushed
    /\ \A w \in BatchWorkers : Holding(w) => inHand[w].item.idea \notin unpushed

Placed(i) == \/ i \in unpushed \/ \E n \in DOMAIN items : items[n].idea = i
             \/ \E w \in BatchWorkers : Holding(w) /\ inHand[w].item.idea = i
AllPlaced == \A i \in Ideas : Placed(i) \/ outcomeWrites[i] > 0 \/ i \in lost

\* What a record says is no more than what was decided.
Within(r, counted, sorted) ==
    /\ r.completed + r.failed <= counted
    /\ r.failed + sorted <= counted
    /\ r.status \in {"completed", "failed"} => r.completed + r.failed >= Cardinality(Ideas)
    /\ r.status = "failed" => r.failed >= Cardinality(Ideas)
RecordTrue(r) == Within(r, Counted, Cardinality(classified))
RecordsTrue ==
    /\ IsFiniteSet(Decided)
    /\ RecordTrue(jobRecord) /\ \A w \in BatchWorkers : inHand[w].at \in Writing => RecordTrue(inHand[w].seen)
    /\ ~raced => jobRecord.completed + jobRecord.failed = Counted
    /\ \A i \in classified : outcomeWrites[i] > 0

\* An idea has been classified no more often than its item was tried.
TriesCount ==
    /\ \A i \in unpushed : classifyCalls[i] = 0
    /\ \A n \in DOMAIN items : items[n].tries <= MaxRetries /\ classifyCalls[items[n].idea] <= items[n].tries
    /\ \A w \in BatchWorkers : Holding(w) =>
        LET item == inHand[w].item IN
        /\ item.tries <= MaxRetries
        /\ classifyCalls[item.idea] <= IF inHand[w].at \in {"status", "status write", "classify"}
                               THEN item.tries ELSE item.tries + 1
        /\ inHand[w].at = "retry" => item.tries < MaxRetries

BatchInv == /\ BatchShape /\ Started /\ Apart /\ AllPlaced /\ RecordsTrue /\ TriesCount /\ CallsBounded

-----------------------------------------------------------------------------

LEMMA PushShifts ==
    ASSUME items \in Seq(Items), NEW x \in Items, items' = <<x>> \o items
    PROVE  /\ items' \in Seq(Items) /\ 1 \in DOMAIN items' /\ items'[1] = x /\ DOMAIN items' \subseteq Nat
           /\ \A n \in DOMAIN items' : n = 1 \/ (n - 1 \in DOMAIN items /\ items'[n] = items[n - 1])
           /\ \A n \in DOMAIN items : n + 1 \in DOMAIN items' /\ items'[n + 1] = items[n]
<1> DEFINE S == Items
           s == items
           t == items'
<1>1. s \in Seq(S) /\ x \in S /\ t = <<x>> \o s
  OBVIOUS
<1> HIDE DEF S, s, t
<1>2. /\ t \in Seq(S) /\ 1 \in DOMAIN t /\ t[1] = x /\ DOMAIN t \subseteq Nat
      /\ \A n \in DOMAIN t : n = 1 \/ (n - 1 \in DOMAIN s /\ t[n] = s[n - 1])
      /\ \A n \in DOMAIN s : n + 1 \in DOMAIN t /\ t[n + 1] = s[n]
  BY <1>1, PushFront
<1> QED
  BY <1>2 DEF S, s, t

LEMMA PopShortens ==
    ASSUME items \in Seq(Items), items # <<>>, items' = SubSeq(items, 1, Len(items) - 1)
    PROVE  /\ items' \in Seq(Items) /\ items[Len(items)] \in Items
           /\ DOMAIN items' = 1..(Len(items) - 1) /\ Len(items) \in Nat \ {0}
           /\ DOMAIN items = 1..Len(items) /\ Len(items) \notin DOMAIN items'
           /\ \A n \in DOMAIN items' : n \in DOMAIN items /\ items'[n] = items[n]
           /\ \A n \in DOMAIN items : n = Len(items) \/ n \in DOMAIN items'
<1>1. Len(items) \in Nat \ {0} /\ DOMAIN items = 1..Len(items)
  OBVIOUS
<1>2. /\ items' \in Seq(Items) /\ Len(items') = Len(items) - 1
      /\ \A n \in 1..(Len(items) - 1) : items'[n] = items[n]
  BY <1>1
<1>3. DOMAIN items' = 1..(Len(items) - 1)
  BY <1>1, <1>2
<1> QED
  BY <1>1, <1>2, <1>3

LEMMA OneMore ==
    ASSUME outcomeWrites \in [Ideas -> Nat], IsFiniteSet(Decided), NEW i \in Ideas,
           outcomeWrites' = [outcomeWrites EXCEPT ![i] = @ + 1]
    PROVE  IsFiniteSet(Decided)' /\ Counted' = Counted + 1 /\ Counted \in Nat
<1> DEFINE e == <<i, outcomeWrites[i] + 1>>
<1>1. \A j \in Ideas : outcomeWrites'[j] = IF j = i THEN outcomeWrites[i] + 1 ELSE outcomeWrites[j]
  OBVIOUS
<1>2. \A d : d \in Decided <=> \E j \in Ideas : \E n \in 1..outcomeWrites[j] : d = <<j, n>>
  BY DEF Decided
<1>3. \A d : d \in Decided' <=> \E j \in Ideas : \E n \in 1..outcomeWrites'[j] : d = <<j, n>>
  BY DEF Decided
<1>4. e \notin Decided
  BY <1>2
<1>5. \A d : d \in Decided' <=> d \in Decided \/ d = e
  <2>1. \A j \in Ideas : \A n \in 1..outcomeWrites[j] : n \in 1..outcomeWrites'[j]
    BY <1>1
  <2>2. outcomeWrites[i] + 1 \in 1..outcomeWrites'[i]
    BY <1>1
  <2>3. \A j \in Ideas : \A n \in 1..outcomeWrites'[j] : n \in 1..outcomeWrites[j] \/ (j = i /\ n = outcomeWrites[i] + 1)
    BY <1>1
  <2> QED
    BY <1>2, <1>3, <2>1, <2>2, <2>3
<1>6. Decided' = Decided \cup {e}
  BY <1>5
<1> HIDE DEF e
<1> QED
  BY <1>4, <1>6, FS_AddElement, FS_CardinalityType DEF Counted

LEMMA BatchStart == BatchInit => BatchInv
<1> SUFFICES ASSUME BatchInit
             PROVE  BatchInv
  OBVIOUS
<1>1. BatchShape
  <2>1. items \in Seq(Items) /\ DOMAIN items = {}
    BY DEF BatchInit
  <2>2. jobRecord \in Jobs /\ inHand \in [BatchWorkers -> Hands] /\ \A w \in BatchWorkers : ~Holding(w)
    BY DEF BatchInit, Jobs, Hands, Phases, NoJob, Free, Holding
  <2> QED
    BY <2>1, <2>2 DEF BatchInit, BatchShape
<1>2. Started /\ Apart /\ AllPlaced /\ TriesCount /\ CallsBounded
  <2>1. DOMAIN items = {} /\ \A w \in BatchWorkers : inHand[w].at = "free"
    BY DEF BatchInit, Free
  <2>2. \A w \in BatchWorkers : ~Holding(w) /\ inHand[w].at \notin Writing
    BY <2>1 DEF Holding, Writing
  <2>3. Started /\ Apart
    BY <2>1, <2>2 DEF BatchInit, Started, Apart
  <2>4. AllPlaced
    BY DEF BatchInit, AllPlaced, Placed
  <2>5. TriesCount /\ CallsBounded
    <3>1. unpushed = Ideas /\ \A i \in Ideas : classifyCalls[i] = 0
      BY DEF BatchInit
    <3>2. CallsBounded
      BY <3>1, BatchAssumption DEF CallsBounded
    <3>3. TriesCount
      BY <2>1, <2>2, <3>1 DEF TriesCount
    <3> QED
      BY <3>2, <3>3
  <2> QED
    BY <2>3, <2>4, <2>5
<1>3. RecordsTrue
  <2>1. Decided = {}
    BY DEF BatchInit, Decided
  <2>2. classified = {} /\ ~raced /\ \A w \in BatchWorkers : inHand[w].at = "free"
    BY DEF BatchInit, Free
  <2>3. jobRecord.status = "none" /\ jobRecord.completed = 0 /\ jobRecord.failed = 0
    BY DEF BatchInit, NoJob
  <2>4. Counted = 0 /\ IsFiniteSet(Decided) /\ Cardinality(classified) = 0
    BY <2>1, <2>2, FS_EmptySet DEF Counted
  <2>5. RecordTrue(jobRecord)
    BY <2>3, <2>4 DEF RecordTrue, Within
  <2>6. \A w \in BatchWorkers : inHand[w].at \notin Writing
    BY <2>2 DEF Writing
  <2> QED
    BY <2>2, <2>3, <2>4, <2>5, <2>6 DEF RecordsTrue
<1> QED
  BY <1>1, <1>2, <1>3 DEF BatchInv

-----------------------------------------------------------------------------

\* What a worker does, and what the caller does.
WorkerStep(w) == \/ Pop(w) \/ ReadJob(w) \/ WriteRecord(w) \/ Classify(w) \/ Retry(w)
                 \/ CommandFails(w) \/ RestartWorker(w)
CallerStep == StoreJob \/ PushItem \/ EnqueueFails

LEMMA WhoSteps ==
    ASSUME BatchNext
    PROVE  CallerStep \/ \E w \in BatchWorkers : WorkerStep(w)
BY DEF BatchNext, BatchProgress, CallerStep, WorkerStep

LEMMA HandTyped ==
    ASSUME BatchShape, NEW w \in BatchWorkers
    PROVE  /\ inHand[w] \in Hands /\ inHand[w].at \in Phases /\ inHand[w].seen \in Jobs
           /\ Holding(w) => inHand[w].item \in Items /\ inHand[w].item.idea \in Ideas /\ inHand[w].item.tries \in Nat
BY DEF BatchShape, Hands, Items

LEMMA RecordsMade ==
    ASSUME NEW r \in Jobs
    PROVE  /\ Marked(r) \in Jobs /\ Succeeded(r) \in Jobs /\ Failed(r) \in Jobs
           /\ Marked(r).status = "processing"
           /\ Marked(r).completed = r.completed /\ Marked(r).failed = r.failed
           /\ Succeeded(r).completed = r.completed + 1 /\ Succeeded(r).failed = r.failed
           /\ Succeeded(r).status = IF r.completed + 1 + r.failed >= Cardinality(Ideas)
                                    THEN "completed" ELSE r.status
           /\ Failed(r).completed = r.completed /\ Failed(r).failed = r.failed + 1
           /\ Failed(r).status = IF r.completed + r.failed + 1 < Cardinality(Ideas) THEN r.status
                                 ELSE IF r.failed + 1 = Cardinality(Ideas) THEN "failed" ELSE "completed"
<1> DEFINE ends == IF r.completed + 1 + r.failed >= Cardinality(Ideas) THEN "completed" ELSE r.status
           fails == IF r.completed + r.failed + 1 < Cardinality(Ideas) THEN r.status
                    ELSE IF r.failed + 1 = Cardinality(Ideas) THEN "failed" ELSE "completed"
           more  == [r EXCEPT !.completed = @ + 1]
           less  == [r EXCEPT !.failed = @ + 1]
<1>1. /\ Marked(r) = [r EXCEPT !.status = "processing"]
      /\ Succeeded(r) = [more EXCEPT !.status = ends]
      /\ Failed(r) = [less EXCEPT !.status = fails]
  BY DEF Marked, Succeeded, Failed
<1>2. /\ ends \in {"none", "pending", "processing", "completed", "failed"}
      /\ fails \in {"none", "pending", "processing", "completed", "failed"}
  BY DEF Jobs
<1>3. more \in Jobs /\ more.completed = r.completed + 1 /\ more.failed = r.failed
  BY DEF Jobs
<1>4. less \in Jobs /\ less.completed = r.completed /\ less.failed = r.failed + 1
  BY DEF Jobs
<1> HIDE DEF ends, fails, more, less
<1>5. /\ Marked(r) \in Jobs /\ Marked(r).status = "processing"
      /\ Marked(r).completed = r.completed /\ Marked(r).failed = r.failed
  BY <1>1 DEF Jobs
<1>6. /\ Succeeded(r) \in Jobs /\ Succeeded(r).status = ends
      /\ Succeeded(r).completed = r.completed + 1 /\ Succeeded(r).failed = r.failed
  BY <1>1, <1>2, <1>3 DEF Jobs
<1>7. /\ Failed(r) \in Jobs /\ Failed(r).status = fails
      /\ Failed(r).completed = r.completed /\ Failed(r).failed = r.failed + 1
  BY <1>1, <1>2, <1>4 DEF Jobs
<1> QED
  BY <1>5, <1>6, <1>7 DEF ends, fails

(* The record that is written, and what of it is counted.                  *)
LEMMA Writes ==
    ASSUME BatchShape, NEW w \in BatchWorkers, WriteJob(w)
    PROVE  LET h == inHand[w] IN
           /\ h.at \in Writing /\ h.seen \in Jobs /\ h.item.idea \in Ideas
           /\ jobRecord' = IF h.at = "status write" THEN Marked(h.seen)
                     ELSE IF h.at = "ok write" THEN Succeeded(h.seen) ELSE Failed(h.seen)
           /\ jobRecord' \in Jobs /\ raced' \in BOOLEAN /\ classified' \subseteq Ideas
           /\ outcomeWrites' \in [Ideas -> Nat] /\ \A i \in Ideas : outcomeWrites'[i] >= outcomeWrites[i]
<1>1. inHand[w].at \in Writing /\ Holding(w)
  BY DEF WriteJob, Writing, Holding
<1>2. inHand[w].seen \in Jobs /\ inHand[w].item.idea \in Ideas
  BY <1>1, HandTyped
<1>3. jobRecord' = IF inHand[w].at = "status write" THEN Marked(inHand[w].seen)
             ELSE IF inHand[w].at = "ok write" THEN Succeeded(inHand[w].seen) ELSE Failed(inHand[w].seen)
  BY DEF WriteJob
<1>4. jobRecord' \in Jobs
  BY <1>2, <1>3, RecordsMade
<1>5. raced' \in BOOLEAN /\ classified' \subseteq Ideas
  BY <1>2 DEF WriteJob, BatchShape
<1>6. outcomeWrites' \in [Ideas -> Nat] /\ \A i \in Ideas : outcomeWrites'[i] >= outcomeWrites[i]
  <2> DEFINE idea == inHand[w].item.idea
  <2>1. outcomeWrites \in [Ideas -> Nat] /\ idea \in Ideas
    BY <1>2 DEF BatchShape
  <2>2. outcomeWrites' = outcomeWrites \/ outcomeWrites' = [outcomeWrites EXCEPT ![idea] = @ + 1]
    BY DEF WriteJob
  <2> HIDE DEF idea
  <2> QED
    BY <2>1, <2>2
<1> QED
  BY <1>1, <1>2, <1>3, <1>4, <1>5, <1>6

(* A worker that goes on keeps its item; one that is released has none.    *)
LEMMA GoesOn1 ==
    ASSUME BatchShape, NEW w \in BatchWorkers, NEW phase \in Phases, Goes(w, phase)
    PROVE  /\ inHand' \in [BatchWorkers -> Hands] /\ inHand'[w].at = phase
           /\ inHand'[w].item = inHand[w].item /\ inHand'[w].seen = inHand[w].seen
           /\ \A v \in BatchWorkers \ {w} : inHand'[v] = inHand[v]
<1>1. inHand[w] \in Hands /\ inHand' = [inHand EXCEPT ![w] = [inHand[w] EXCEPT !.at = phase]]
  BY HandTyped DEF Goes
<1>2. [inHand[w] EXCEPT !.at = phase] \in Hands
  BY <1>1 DEF Hands
<1>3. inHand'[w] = [inHand[w] EXCEPT !.at = phase] /\ \A v \in BatchWorkers \ {w} : inHand'[v] = inHand[v]
  BY <1>1 DEF BatchShape
<1>4. inHand' \in [BatchWorkers -> Hands]
  BY <1>1, <1>2 DEF BatchShape
<1> QED
  BY <1>1, <1>3, <1>4 DEF Hands

LEMMA Releases ==
    ASSUME BatchShape, NEW w \in BatchWorkers, SetFree(w)
    PROVE  /\ inHand' \in [BatchWorkers -> Hands] /\ ~Holding(w)' /\ inHand'[w].at = "free"
           /\ \A v \in BatchWorkers \ {w} : inHand'[v] = inHand[v]
<1>1. Free \in Hands /\ Free.at = "free"
  BY DEF Free, Hands, Phases, Jobs, NoJob
<1> QED
  BY <1>1 DEF BatchShape, SetFree, Holding

(* What a step does to the places an idea can be in.                       *)
OthersKeep(w) == \A v \in BatchWorkers \ {w} : inHand'[v] = inHand[v]

Stays == /\ UNCHANGED <<unpushed, items>>
         /\ \A v \in BatchWorkers : (Holding(v)' <=> Holding(v)) /\ (Holding(v) => inHand'[v].item = inHand[v].item)
Pushed(i) == /\ jobRecord # NoJob /\ UNCHANGED inHand
             /\ unpushed' = unpushed \ {i} /\ items' = <<[idea |-> i, tries |-> 0]>> \o items
CutShort == /\ jobRecord # NoJob /\ UNCHANGED <<items, inHand>>
            /\ unpushed' = {} /\ lost' = lost \cup unpushed
Popped(w) == /\ UNCHANGED unpushed /\ OthersKeep(w) /\ ~Holding(w) /\ Holding(w)'
             /\ items # <<>> /\ inHand'[w].item = items[Len(items)] /\ inHand'[w].at = "status"
             /\ items' = SubSeq(items, 1, Len(items) - 1)
LetGo(w) == /\ UNCHANGED <<unpushed, items>> /\ OthersKeep(w) /\ Holding(w) /\ ~Holding(w)'
            /\ outcomeWrites'[inHand[w].item.idea] > 0 \/ inHand[w].item.idea \in lost'
PushedBack(w) ==
    /\ UNCHANGED unpushed /\ OthersKeep(w) /\ Holding(w) /\ ~Holding(w)' /\ inHand[w].at = "retry"
    /\ items' = <<[inHand[w].item EXCEPT !.tries = @ + 1]>> \o items

LEMMA PlacesMove ==
    ASSUME BatchShape, Started, BatchNext
    PROVE  \/ Stays \/ CutShort
           \/ \E i \in unpushed : Pushed(i)
           \/ \E w \in BatchWorkers : Popped(w) \/ LetGo(w) \/ PushedBack(w)
<1>1. CASE StoreJob
  BY <1>1 DEF StoreJob, Stays, Holding
<1>2. CASE PushItem
  BY <1>2 DEF PushItem, Pushed
<1>3. CASE EnqueueFails
  BY <1>3 DEF EnqueueFails, CutShort
<1>4. ASSUME NEW w \in BatchWorkers, Pop(w)
      PROVE  Popped(w)
  BY <1>4 DEF Pop, Popped, OthersKeep, Holding, BatchShape
<1>5. ASSUME NEW w \in BatchWorkers, NEW phase \in Phases \ {"free"}, Goes(w, phase), Holding(w),
             UNCHANGED <<unpushed, items>>
      PROVE  Stays
  BY <1>5, GoesOn1 DEF Stays, Holding
<1>6. ASSUME NEW w \in BatchWorkers, ReadJob(w)
      PROVE  Stays
  <2>1. Holding(w) /\ jobRecord # NoJob
    <3>1. Holding(w)
      BY <1>6 DEF ReadJob, Holding
    <3> QED
      BY <3>1 DEF Started, NoJob
  <2>2. PICK write \in Writing : inHand' = [inHand EXCEPT ![w] = [@ EXCEPT !.at = write, !.seen = jobRecord]]
    BY <1>6, <2>1 DEF ReadJob, Writing
  <2>3. inHand[w] \in Hands
    BY HandTyped
  <2>4. inHand'[w].at = write /\ inHand'[w].item = inHand[w].item
    BY <2>2, <2>3 DEF BatchShape, Hands
  <2>5. \A v \in BatchWorkers \ {w} : inHand'[v] = inHand[v]
    BY <2>2 DEF BatchShape
  <2> QED
    BY <1>6, <2>1, <2>4, <2>5 DEF ReadJob, Stays, Holding, Writing
<1>7. ASSUME NEW w \in BatchWorkers, Classify(w)
      PROVE  Stays
  <2>1. Holding(w) /\ \E phase \in Phases \ {"free"} : Goes(w, phase)
    BY <1>7 DEF Classify, AfterError, Holding, Phases
  <2> QED
    BY <1>5, <1>7, <2>1 DEF Classify
<1>8. ASSUME NEW w \in BatchWorkers, WriteJob(w), inHand[w].at # "status write"
      PROVE  outcomeWrites'[inHand[w].item.idea] > 0
  <2>1. inHand[w].item.idea \in Ideas /\ outcomeWrites \in [Ideas -> Nat]
    BY <1>8, Writes DEF BatchShape
  <2>2. outcomeWrites' = [outcomeWrites EXCEPT ![inHand[w].item.idea] = @ + 1]
    BY <1>8 DEF WriteJob
  <2> QED
    BY <2>1, <2>2
<1>9. ASSUME NEW w \in BatchWorkers, WriteRecord(w)
      PROVE  Stays \/ LetGo(w)
  <2>1. UNCHANGED <<unpushed, items>> /\ WriteJob(w) /\ Holding(w)
    BY <1>9 DEF WriteRecord, WriteJob, Holding
  <2>2. CASE inHand[w].at = "status write"
    BY <1>5, <1>9, <2>1, <2>2 DEF WriteRecord, Phases
  <2>3. CASE inHand[w].at # "status write"
    BY <1>8, <1>9, <2>1, <2>3, Releases DEF WriteRecord, LetGo, OthersKeep
  <2> QED
    BY <2>1, <2>2, <2>3
<1>10. ASSUME NEW w \in BatchWorkers, Retry(w)
       PROVE  PushedBack(w)
  BY <1>10, Releases DEF Retry, PushAgain, PushedBack, OthersKeep, Holding
<1>11. ASSUME NEW w \in BatchWorkers, CommandFails(w)
       PROVE  Stays \/ LetGo(w)
  <2>1. UNCHANGED <<unpushed, items>> /\ Holding(w)
    BY <1>11 DEF CommandFails, Holding
  <2>2. CASE Goes(w, "failed")
    BY <1>5, <2>1, <2>2 DEF Phases
  <2>3. CASE SetFree(w) /\ lost' = lost \cup {inHand[w].item.idea}
    BY <2>1, <2>3, Releases DEF LetGo, OthersKeep
  <2> QED
    BY <1>11, <2>1, <2>2, <2>3 DEF CommandFails
<1>12. ASSUME NEW w \in BatchWorkers, RestartWorker(w)
       PROVE  LetGo(w)
  BY <1>12, Releases DEF RestartWorker, LetGo, OthersKeep, Holding
<1> QED
  BY WhoSteps, <1>1, <1>2, <1>3, <1>4, <1>6, <1>7, <1>9, <1>10, <1>11, <1>12
     DEF CallerStep, WorkerStep

LEMMA BatchKeepsShape ==
    ASSUME BatchShape, Started, BatchNext
    PROVE  BatchShape'
<1> DEFINE Rest == /\ jobRecord \in Jobs /\ unpushed \subseteq Ideas
                   /\ outcomeWrites \in [Ideas -> Nat] /\ classifyCalls \in [Ideas -> Nat]
                   /\ classified \subseteq Ideas /\ lost \subseteq Ideas /\ raced \in BOOLEAN
<1>1. Rest /\ items \in Seq(Items)
  BY DEF BatchShape
<1>2. items' \in Seq(Items) /\ \A w \in BatchWorkers : Holding(w)' => inHand'[w].item \in Items
  <2>1. CASE Stays \/ CutShort
    BY <2>1 DEF Stays, CutShort, BatchShape, Holding
  <2>2. ASSUME NEW i \in unpushed, Pushed(i)
        PROVE  items' \in Seq(Items) /\ inHand' = inHand
    <3>1. [idea |-> i, tries |-> 0] \in Items
      BY DEF BatchShape, Items
    <3> QED
      BY <1>1, <2>2, <3>1, PushShifts DEF Pushed
  <2>3. ASSUME NEW w \in BatchWorkers, Popped(w)
        PROVE  items' \in Seq(Items) /\ \A v \in BatchWorkers : Holding(v)' => inHand'[v].item \in Items
    BY <1>1, <2>3, PopShortens DEF Popped, BatchShape, OthersKeep, Holding
  <2>4. ASSUME NEW w \in BatchWorkers, LetGo(w)
        PROVE  items' \in Seq(Items) /\ \A v \in BatchWorkers : Holding(v)' => inHand'[v].item \in Items
    BY <1>1, <2>4 DEF LetGo, BatchShape, OthersKeep, Holding
  <2>5. ASSUME NEW w \in BatchWorkers, PushedBack(w)
        PROVE  items' \in Seq(Items) /\ \A v \in BatchWorkers : Holding(v)' => inHand'[v].item \in Items
    <3>1. [inHand[w].item EXCEPT !.tries = @ + 1] \in Items
      BY <2>5, HandTyped DEF PushedBack, Items
    <3>2. items' \in Seq(Items)
      BY <1>1, <2>5, <3>1, PushShifts DEF PushedBack
    <3> QED
      BY <2>5, <3>2 DEF PushedBack, BatchShape, OthersKeep, Holding
  <2> QED
    BY <2>1, <2>2, <2>3, <2>4, <2>5, PlacesMove DEF BatchShape, Holding
<1>3. inHand' \in [BatchWorkers -> Hands] /\ Rest'
  <2>1. CASE CallerStep
    BY <2>1 DEF CallerStep, StoreJob, PushItem, EnqueueFails, BatchShape, Jobs, NoJob
  <2>2. ASSUME NEW w \in BatchWorkers, WorkerStep(w)
        PROVE  inHand' \in [BatchWorkers -> Hands] /\ Rest'
    <3>1. CASE Pop(w)
      <4>1. items[Len(items)] \in Items
        BY <1>1, <3>1, PopShortens DEF Pop
      <4>2. [at |-> "status", item |-> items[Len(items)], seen |-> NoJob] \in Hands
        BY <4>1 DEF Hands, Phases, Jobs, NoJob
      <4> QED
        BY <3>1, <4>2 DEF Pop, BatchShape
    <3>2. CASE ReadJob(w)
      <4>1. inHand[w] \in Hands /\ jobRecord \in Jobs /\ Free \in Hands
        BY HandTyped DEF BatchShape, Free, Hands, Phases, Jobs, NoJob
      <4>2. [inHand[w] EXCEPT !.at = "classify"] \in Hands
        BY <4>1 DEF Hands, Phases
      <4>3. ASSUME NEW write \in Writing
            PROVE  [inHand[w] EXCEPT !.at = write, !.seen = jobRecord] \in Hands
        BY <4>1 DEF Hands, Phases, Writing
      <4>4. \E h \in Hands : inHand' = [inHand EXCEPT ![w] = h]
        BY <3>2, <4>1, <4>2, <4>3 DEF ReadJob, Writing
      <4> QED
        BY <3>2, <4>4 DEF ReadJob, BatchShape
    <3>3. CASE WriteRecord(w)
      <4>1. inHand' \in [BatchWorkers -> Hands]
        BY <3>3, GoesOn1, Releases DEF WriteRecord, Phases
      <4>2. WriteJob(w) /\ UNCHANGED <<unpushed, classifyCalls, lost>>
        BY <3>3 DEF WriteRecord
      <4> QED
        BY <1>1, <4>1, <4>2, Writes
    <3>4. CASE Classify(w)
      <4>1. \E phase \in Phases : Goes(w, phase)
        BY <3>4 DEF Classify, AfterError, Phases
      <4>2. inHand' \in [BatchWorkers -> Hands]
        BY <4>1, GoesOn1
      <4>3. inHand[w].item.idea \in Ideas
        BY <3>4, HandTyped DEF Classify, Holding
      <4> QED
        BY <3>4, <4>2, <4>3 DEF Classify, BatchShape
    <3>5. CASE Retry(w)
      BY <1>1, <3>5, Releases DEF Retry, PushAgain
    <3>6. CASE CommandFails(w)
      <4>1. inHand' \in [BatchWorkers -> Hands]
        BY <3>6, GoesOn1, Releases DEF CommandFails, Phases
      <4>2. inHand[w].item.idea \in Ideas
        BY <3>6, HandTyped DEF CommandFails, Holding
      <4>3. lost' \subseteq Ideas /\ UNCHANGED <<unpushed, classifyCalls>>
        BY <1>1, <3>6, <4>2 DEF CommandFails
      <4>4. WriteJob(w) \/ UNCHANGED <<jobRecord, raced, outcomeWrites, classified>>
        BY <3>6 DEF CommandFails
      <4> QED
        BY <1>1, <4>1, <4>3, <4>4, Writes
    <3>7. CASE RestartWorker(w)
      <4>1. inHand[w].item.idea \in Ideas
        BY <3>7, HandTyped DEF RestartWorker, Holding
      <4> QED
        BY <1>1, <3>7, <4>1, Releases DEF RestartWorker
    <3> QED
      BY <2>2, <3>1, <3>2, <3>3, <3>4, <3>5, <3>6, <3>7 DEF WorkerStep
  <2> QED
    BY <2>1, <2>2, WhoSteps
<1> QED
  BY <1>2, <1>3 DEF BatchShape

LEMMA BatchKeepsStarted ==
    ASSUME BatchShape, Started, BatchNext
    PROVE  Started'
<1>1. NoJob.status = "none" /\ \A r \in Jobs : Marked(r).status # "none"
  BY RecordsMade DEF NoJob
<1>2. \A r \in Jobs : r.status # "none" => Succeeded(r).status # "none" /\ Failed(r).status # "none"
  BY RecordsMade
<1>3. CASE StoreJob
  BY <1>3 DEF StoreJob, NoJob, Started, Holding
<1>4. CASE PushItem \/ EnqueueFails
  BY <1>4 DEF PushItem, EnqueueFails, Started
<1>5. ASSUME NEW w \in BatchWorkers, WorkerStep(w)
      PROVE  Started'
  <2>1. jobRecord.status # "none"
    BY <1>5 DEF Started, WorkerStep, Pop, ReadJob, WriteRecord, WriteJob, Classify, Retry, CommandFails,
                RestartWorker, Holding, NoJob
  <2>2. jobRecord'.status # "none"
    <3>1. CASE WriteJob(w)
      <4>1. inHand[w].at \in Writing /\ inHand[w].seen \in Jobs
        BY <3>1, Writes
      <4>2. jobRecord' \in {Marked(inHand[w].seen), Succeeded(inHand[w].seen), Failed(inHand[w].seen)}
        BY <3>1, Writes
      <4>3. inHand[w].seen.status # "none"
        BY <4>1 DEF Started
      <4> QED
        BY <1>1, <1>2, <4>1, <4>2, <4>3
    <3> QED
      BY <1>5, <2>1, <3>1 DEF WorkerStep, Pop, ReadJob, WriteRecord, Classify, Retry, CommandFails, RestartWorker
  <2>3. ASSUME NEW v \in BatchWorkers, inHand'[v].at \in Writing
        PROVE  inHand'[v].seen.status # "none"
    <3>1. CASE inHand'[v] = inHand[v]
      BY <2>3, <3>1 DEF Started
    <3>2. CASE ReadJob(w) /\ v = w
      <4>1. inHand[w] \in Hands /\ jobRecord # NoJob /\ Free.at = "free"
        BY <2>1, HandTyped DEF NoJob, Free
      <4>2. PICK write \in Writing : inHand' = [inHand EXCEPT ![w] = [@ EXCEPT !.at = write, !.seen = jobRecord]]
        BY <3>2, <4>1 DEF ReadJob, Writing
      <4>3. inHand'[w].seen = jobRecord
        BY <4>1, <4>2 DEF BatchShape, Hands
      <4> QED
        BY <2>1, <3>2, <4>3
    <3>3. CASE ~ReadJob(w) /\ v = w /\ inHand'[v] # inHand[v]
      <4>1. CASE \E phase \in Phases \ Writing : Goes(w, phase)
        BY <2>3, <3>3, <4>1, GoesOn1
      <4>2. CASE SetFree(w)
        BY <2>3, <3>3, <4>2, Releases DEF Writing
      <4>3. CASE Pop(w)
        BY <2>3, <3>3, <4>3 DEF Pop, Writing, BatchShape
      <4> QED
        BY <1>5, <3>3, <4>1, <4>2, <4>3
           DEF WorkerStep, WriteRecord, Classify, AfterError, Retry, PushAgain, CommandFails, RestartWorker,
               Phases, Writing
    <3>4. v # w => inHand'[v] = inHand[v]
      BY <1>5 DEF WorkerStep, Pop, ReadJob, WriteRecord, Goes, SetFree, Classify, Retry, PushAgain,
                  CommandFails, RestartWorker, BatchShape
    <3> QED
      BY <3>1, <3>2, <3>3, <3>4
  <2> QED
    BY <2>2, <2>3 DEF Started
<1> QED
  BY <1>3, <1>4, <1>5, WhoSteps DEF CallerStep

LEMMA BatchKeepsApart ==
    ASSUME BatchShape, Started, Apart, BatchNext
    PROVE  Apart'
<1>0. items \in Seq(Items)
  BY DEF BatchShape
<1>1. CASE Stays \/ CutShort
  BY <1>1 DEF Stays, CutShort, Apart, Holding
<1>2. ASSUME NEW i \in unpushed, Pushed(i)
      PROVE  Apart'
  <2> DEFINE x == [idea |-> i, tries |-> 0]
  <2>1. x \in Items /\ x.idea = i
    BY DEF BatchShape, Items
  <2>2. items' = <<x>> \o items /\ unpushed' = unpushed \ {i} /\ inHand' = inHand
    BY <1>2 DEF Pushed
  <2> HIDE DEF x
  <2>3. /\ \A n \in DOMAIN items' : n = 1 \/ (n - 1 \in DOMAIN items /\ items'[n] = items[n - 1])
        /\ items'[1] = x /\ DOMAIN items' \subseteq Nat
    BY <1>0, <2>1, <2>2, PushShifts
  <2>4. \A n \in DOMAIN items' : n # 1 => items'[n].idea # i
    BY <2>3 DEF Apart
  <2>5. \A m, n \in DOMAIN items' : items'[m].idea = items'[n].idea => m = n
    BY <2>1, <2>3, <2>4 DEF Apart
  <2>6. \A n \in DOMAIN items' : items'[n].idea \notin unpushed'
    BY <2>1, <2>2, <2>3 DEF Apart
  <2>7. \A n \in DOMAIN items', w \in BatchWorkers : Holding(w)' => items'[n].idea # inHand'[w].item.idea
    BY <2>1, <2>2, <2>3 DEF Apart, Holding
  <2> QED
    BY <2>2, <2>5, <2>6, <2>7 DEF Apart, Holding
<1>3. ASSUME NEW w \in BatchWorkers, Popped(w)
      PROVE  Apart'
  <2>1. /\ \A n \in DOMAIN items' : n \in DOMAIN items /\ items'[n] = items[n] /\ n # Len(items)
        /\ Len(items) \in DOMAIN items
    BY <1>0, <1>3, PopShortens DEF Popped
  <2>2. /\ unpushed' = unpushed /\ ~Holding(w) /\ inHand'[w].item = items[Len(items)]
        /\ \A v \in BatchWorkers : v # w => inHand'[v] = inHand[v] /\ (Holding(v)' <=> Holding(v))
    BY <1>3 DEF Popped, OthersKeep, Holding
  <2>3. /\ \A m, n \in DOMAIN items' : items'[m].idea = items'[n].idea => m = n
        /\ \A n \in DOMAIN items' : items'[n].idea \notin unpushed'
    BY <2>1, <2>2 DEF Apart
  <2>4. \A u, v \in BatchWorkers :
            Holding(u)' /\ Holding(v)' /\ inHand'[u].item.idea = inHand'[v].item.idea => u = v
    BY <2>1, <2>2 DEF Apart
  <2>5. \A n \in DOMAIN items', v \in BatchWorkers : Holding(v)' => items'[n].idea # inHand'[v].item.idea
    BY <2>1, <2>2 DEF Apart
  <2>6. \A v \in BatchWorkers : Holding(v)' => inHand'[v].item.idea \notin unpushed'
    BY <2>1, <2>2 DEF Apart
  <2> QED
    BY <2>3, <2>4, <2>5, <2>6 DEF Apart
<1>4. ASSUME NEW w \in BatchWorkers, LetGo(w)
      PROVE  Apart'
  BY <1>4 DEF LetGo, Apart, OthersKeep, Holding
<1>5. ASSUME NEW w \in BatchWorkers, PushedBack(w)
      PROVE  Apart'
  <2> DEFINE x == [inHand[w].item EXCEPT !.tries = @ + 1]
  <2>1. x \in Items /\ x.idea = inHand[w].item.idea
    BY <1>5, HandTyped DEF PushedBack, Items
  <2>2. /\ items' = <<x>> \o items /\ unpushed' = unpushed /\ Holding(w)
        /\ \A v \in BatchWorkers : Holding(v)' => v # w /\ inHand'[v] = inHand[v] /\ Holding(v)
    BY <1>5 DEF PushedBack, OthersKeep, Holding
  <2> HIDE DEF x
  <2>3. /\ \A n \in DOMAIN items' : n = 1 \/ (n - 1 \in DOMAIN items /\ items'[n] = items[n - 1])
        /\ items'[1] = x /\ DOMAIN items' \subseteq Nat
    BY <1>0, <2>1, <2>2, PushShifts
  <2>4. \A n \in DOMAIN items' : n # 1 => items'[n].idea # x.idea
    BY <2>1, <2>2, <2>3 DEF Apart
  <2>5. \A m, n \in DOMAIN items' : items'[m].idea = items'[n].idea => m = n
    BY <2>1, <2>3, <2>4 DEF Apart
  <2>6. \A n \in DOMAIN items' : items'[n].idea \notin unpushed'
    BY <2>1, <2>2, <2>3 DEF Apart
  <2>7. \A n \in DOMAIN items', v \in BatchWorkers : Holding(v)' => items'[n].idea # inHand'[v].item.idea
    BY <2>1, <2>2, <2>3 DEF Apart
  <2>8. /\ \A u, v \in BatchWorkers : Holding(u)' /\ Holding(v)' /\ inHand'[u].item.idea = inHand'[v].item.idea => u = v
        /\ \A v \in BatchWorkers : Holding(v)' => inHand'[v].item.idea \notin unpushed'
    BY <2>2 DEF Apart
  <2> QED
    BY <2>5, <2>6, <2>7, <2>8 DEF Apart
<1> QED
  BY PlacesMove, <1>1, <1>2, <1>3, <1>4, <1>5

LEMMA BatchKeepsPlaced ==
    ASSUME BatchShape, Started, AllPlaced, BatchNext
    PROVE  AllPlaced'
<1>0. items \in Seq(Items)
  BY DEF BatchShape
<1>1. lost \subseteq lost' /\ \A i \in Ideas : outcomeWrites[i] > 0 => outcomeWrites'[i] > 0
  <2>1. \A i \in Ideas : outcomeWrites[i] \in Nat /\ outcomeWrites'[i] \in Nat
    BY BatchKeepsShape DEF BatchShape
  <2>2. outcomeWrites' = outcomeWrites \/ \A i \in Ideas : outcomeWrites'[i] >= outcomeWrites[i]
    BY WhoSteps, Writes
       DEF CallerStep, StoreJob, PushItem, EnqueueFails, WorkerStep, Pop, ReadJob, WriteRecord, Classify,
           Retry, CommandFails, RestartWorker
  <2>3. lost \subseteq lost'
    BY WhoSteps
       DEF CallerStep, StoreJob, PushItem, EnqueueFails, WorkerStep, Pop, ReadJob, WriteRecord, Classify,
           Retry, CommandFails, RestartWorker
  <2> QED
    BY <2>1, <2>2, <2>3
<1> SUFFICES ASSUME NEW i \in Ideas, Placed(i)
             PROVE  Placed(i)' \/ outcomeWrites'[i] > 0 \/ i \in lost'
  BY <1>1 DEF AllPlaced
<1>2. CASE Stays \/ CutShort
  BY <1>2 DEF Stays, CutShort, Placed, Holding
<1>3. ASSUME NEW j \in unpushed, Pushed(j)
      PROVE  Placed(i)'
  <2> DEFINE x == [idea |-> j, tries |-> 0]
  <2>1. x \in Items /\ x.idea = j
    BY DEF BatchShape, Items
  <2>2. items' = <<x>> \o items /\ unpushed' = unpushed \ {j} /\ inHand' = inHand
    BY <1>3 DEF Pushed
  <2> HIDE DEF x
  <2>3. /\ 1 \in DOMAIN items' /\ items'[1] = x
        /\ \A n \in DOMAIN items : n + 1 \in DOMAIN items' /\ items'[n + 1] = items[n]
    BY <1>0, <2>1, <2>2, PushShifts
  <2> QED
    BY <2>1, <2>2, <2>3 DEF Placed, Holding
<1>4. ASSUME NEW w \in BatchWorkers, Popped(w)
      PROVE  Placed(i)'
  <2>1. \A n \in DOMAIN items : n = Len(items) \/ (n \in DOMAIN items' /\ items'[n] = items[n])
    BY <1>0, <1>4, PopShortens DEF Popped
  <2> QED
    BY <1>4, <2>1 DEF Popped, Placed, OthersKeep, Holding
<1>5. ASSUME NEW w \in BatchWorkers, LetGo(w)
      PROVE  Placed(i)' \/ outcomeWrites'[i] > 0 \/ i \in lost'
  BY <1>5 DEF LetGo, Placed, OthersKeep, Holding
<1>6. ASSUME NEW w \in BatchWorkers, PushedBack(w)
      PROVE  Placed(i)'
  <2> DEFINE x == [inHand[w].item EXCEPT !.tries = @ + 1]
  <2>1. x \in Items /\ x.idea = inHand[w].item.idea
    BY <1>6, HandTyped DEF PushedBack, Items
  <2>2. items' = <<x>> \o items /\ unpushed' = unpushed
    BY <1>6 DEF PushedBack
  <2> HIDE DEF x
  <2>3. /\ 1 \in DOMAIN items' /\ items'[1] = x
        /\ \A n \in DOMAIN items : n + 1 \in DOMAIN items' /\ items'[n + 1] = items[n]
    BY <1>0, <2>1, <2>2, PushShifts
  <2> QED
    BY <1>6, <2>1, <2>2, <2>3 DEF PushedBack, Placed, OthersKeep, Holding
<1> QED
  BY PlacesMove, <1>2, <1>3, <1>4, <1>5, <1>6

(* The phases of a worker that keeps its item.                             *)
Early(w) == inHand[w].at \in {"status", "status write", "classify"}

LEMMA PhasesMove ==
    ASSUME BatchShape, BatchNext, NEW v \in BatchWorkers, Holding(v), Holding(v)', ~Classify(v)
    PROVE  /\ Early(v)' => Early(v)
           /\ inHand'[v].at = "retry" => inHand[v].at = "retry"
<1>1. CASE inHand'[v] = inHand[v]
  BY <1>1 DEF Early
<1>2. ASSUME NEW w \in BatchWorkers, WorkerStep(w), inHand'[v] # inHand[v]
      PROVE  w = v
  BY <1>2 DEF WorkerStep, Pop, ReadJob, WriteRecord, Goes, SetFree, Classify, Retry, PushAgain,
              CommandFails, RestartWorker, BatchShape
<1>3. CASE ReadJob(v)
  <2>1. inHand[v] \in Hands
    BY HandTyped
  <2>2. CASE inHand' = [inHand EXCEPT ![v] = Free]
    BY <2>2 DEF BatchShape, Holding, Free
  <2>3. CASE inHand' = [inHand EXCEPT ![v] = [inHand[v] EXCEPT !.at = "classify"]] /\ inHand[v].at = "status"
    BY <2>1, <2>3 DEF BatchShape, Early, Hands
  <2>4. CASE \E write \in Writing : /\ inHand' = [inHand EXCEPT ![v] = [@ EXCEPT !.at = write, !.seen = jobRecord]]
                                    /\ write = "status write" <=> inHand[v].at = "status"
    BY <2>1, <2>4 DEF BatchShape, Early, Hands, Writing
  <2> QED
    BY <1>3, <2>2, <2>3, <2>4 DEF ReadJob, Writing
<1>4. CASE WriteRecord(v)
  <2>1. CASE inHand[v].at = "status write" /\ Goes(v, "classify")
    BY <2>1, GoesOn1 DEF Early, Phases
  <2>2. CASE SetFree(v)
    BY <2>2, Releases
  <2> QED
    BY <1>4, <2>1, <2>2 DEF WriteRecord
<1>5. CASE CommandFails(v)
  <2>1. CASE Goes(v, "failed")
    BY <2>1, GoesOn1 DEF Early, Phases
  <2>2. CASE SetFree(v)
    BY <2>2, Releases
  <2> QED
    BY <1>5, <2>1, <2>2 DEF CommandFails
<1>6. CASE Retry(v) \/ RestartWorker(v)
  BY <1>6, Releases DEF Retry, PushAgain, RestartWorker
<1>7. CASE CallerStep
  BY <1>1, <1>7 DEF CallerStep, StoreJob, PushItem, EnqueueFails
<1>8. ~Pop(v)
  BY DEF Pop, Holding
<1> QED
  BY <1>1, <1>2, <1>3, <1>4, <1>5, <1>6, <1>7, <1>8, WhoSteps DEF WorkerStep

\* A worker's count of tries and the calls of its idea.
HandCounts(w) == Holding(w) =>
    LET item == inHand[w].item IN
    /\ item.tries <= MaxRetries
    /\ classifyCalls[item.idea] <= IF Early(w) THEN item.tries ELSE item.tries + 1
    /\ inHand[w].at = "retry" => item.tries < MaxRetries

LEMMA TriesByHand ==
    TriesCount <=>
        /\ \A i \in unpushed : classifyCalls[i] = 0
        /\ \A n \in DOMAIN items : items[n].tries <= MaxRetries /\ classifyCalls[items[n].idea] <= items[n].tries
        /\ \A w \in BatchWorkers : HandCounts(w)
BY DEF TriesCount, HandCounts, Early

(* Only a classification counts as one: it is of the idea at hand.          *)
LEMMA ClassifyKeepsTries ==
    ASSUME BatchShape, Apart, TriesCount, CallsBounded, NEW w \in BatchWorkers, Classify(w)
    PROVE  TriesCount' /\ CallsBounded'
<1> DEFINE item == inHand[w].item
<1>1. item \in Items /\ item.idea \in Ideas /\ item.tries \in Nat /\ Holding(w) /\ Early(w)
  BY HandTyped DEF Classify, Holding, Early
<1>2. /\ classifyCalls' = [classifyCalls EXCEPT ![item.idea] = @ + 1] /\ UNCHANGED <<unpushed, items>>
      /\ classifyCalls \in [Ideas -> Nat]
  BY DEF Classify, BatchShape
<1>3. PICK phase \in Phases : /\ Goes(w, phase) /\ phase \in {"ok", "retry", "failed"}
                              /\ phase = "retry" => item.tries < MaxRetries
  BY DEF Classify, AfterError, Phases
<1>4. /\ inHand'[w].item = item /\ inHand'[w].at = phase
      /\ \A v \in BatchWorkers \ {w} : inHand'[v] = inHand[v]
  BY <1>3, GoesOn1
<1> HIDE DEF item
<1>5. item.tries <= MaxRetries /\ classifyCalls[item.idea] <= item.tries
  BY <1>1, TriesByHand DEF HandCounts, item
<1>6. classifyCalls'[item.idea] = classifyCalls[item.idea] + 1 /\ \A i \in Ideas : i # item.idea => classifyCalls'[i] = classifyCalls[i]
  BY <1>1, <1>2
<1>7. HandCounts(w)'
  <2>1. ~Early(w)'
    BY <1>3, <1>4 DEF Early
  <2>2. classifyCalls'[item.idea] <= item.tries + 1
    BY <1>1, <1>2, <1>5, <1>6
  <2> QED
    BY <1>3, <1>4, <1>5, <2>1, <2>2 DEF HandCounts
<1>8. ASSUME NEW v \in BatchWorkers, v # w
      PROVE  HandCounts(v)'
  <2>1. Holding(v) => inHand[v].item.idea \in Ideas /\ inHand[v].item.idea # item.idea
    BY <1>1, <1>8, HandTyped DEF Apart, item
  <2>2. HandCounts(v)
    BY TriesByHand
  <2> QED
    BY <1>4, <1>6, <1>8, <2>1, <2>2 DEF HandCounts, Holding, Early
<1>9. \A i \in unpushed' : classifyCalls'[i] = 0
  BY <1>1, <1>2, <1>6 DEF Apart, TriesCount, BatchShape, item
<1>10. ASSUME NEW n \in DOMAIN items'
       PROVE  items'[n].tries <= MaxRetries /\ classifyCalls'[items'[n].idea] <= items'[n].tries
  <2>1. items[n] \in Items /\ n \in DOMAIN items /\ items'[n] = items[n]
    BY <1>2 DEF BatchShape
  <2>2. items[n].idea \in Ideas /\ items[n].idea # item.idea
    BY <1>1, <2>1 DEF Apart, Items, item
  <2> QED
    BY <1>6, <2>1, <2>2 DEF TriesCount
<1>11. CallsBounded'
  <2>1. classifyCalls'[item.idea] <= MaxRetries + 1
    BY <1>1, <1>2, <1>5, <1>6, BatchAssumption
  <2> QED
    BY <1>6, <2>1 DEF CallsBounded
<1> QED
  BY <1>7, <1>8, <1>9, <1>10, <1>11, TriesByHand DEF TriesCount, HandCounts, Early

LEMMA BatchKeepsTries ==
    ASSUME BatchShape, Started, Apart, TriesCount, CallsBounded, BatchNext
    PROVE  TriesCount' /\ CallsBounded'
<1>0. items \in Seq(Items) /\ MaxRetries \in Nat
  BY BatchAssumption DEF BatchShape
<1>1. CASE \E w \in BatchWorkers : Classify(w)
  BY <1>1, ClassifyKeepsTries
<1>2. CASE ~\E w \in BatchWorkers : Classify(w)
  <2>1. classifyCalls' = classifyCalls
    BY <1>2, WhoSteps
       DEF CallerStep, StoreJob, PushItem, EnqueueFails, WorkerStep, Pop, ReadJob, WriteRecord, Retry,
           CommandFails, RestartWorker
  <2>2. ASSUME NEW v \in BatchWorkers, Holding(v), Holding(v)', inHand'[v].item = inHand[v].item
        PROVE  HandCounts(v)'
    <3>1. /\ Early(v)' => Early(v)
          /\ inHand'[v].at = "retry" => inHand[v].at = "retry"
      BY <1>2, <2>2, PhasesMove
    <3>2. HandCounts(v) /\ inHand[v].item.tries \in Nat /\ classifyCalls[inHand[v].item.idea] \in Nat
      BY <2>2, TriesByHand, HandTyped DEF BatchShape
    <3> QED
      BY <2>1, <2>2, <3>1, <3>2 DEF HandCounts
  <2>3. ASSUME NEW v \in BatchWorkers, inHand'[v] = inHand[v]
        PROVE  HandCounts(v)'
    BY <2>1, <2>3, TriesByHand DEF HandCounts, Holding, Early
  <2>4. \A n \in DOMAIN items : items[n] \in Items /\ items[n].tries <= MaxRetries
                                /\ classifyCalls[items[n].idea] <= items[n].tries
    <3>1. \A n \in DOMAIN items : items[n] \in Items
      BY <1>0
    <3> QED
      BY <3>1 DEF TriesCount
  <2>5. CASE Stays \/ CutShort
    <3>1. \A v \in BatchWorkers : HandCounts(v)'
      BY <2>2, <2>3, <2>5 DEF Stays, CutShort, HandCounts
    <3> QED
      BY <2>1, <2>5, <3>1 DEF Stays, CutShort, TriesCount, HandCounts, CallsBounded, Early
  <2>6. ASSUME NEW i \in unpushed, Pushed(i)
        PROVE  TriesCount'
    <3> DEFINE x == [idea |-> i, tries |-> 0]
    <3>1. x \in Items /\ x.idea = i /\ x.tries = 0
      BY DEF BatchShape, Items
    <3>2. items' = <<x>> \o items /\ unpushed' = unpushed \ {i} /\ inHand' = inHand
      BY <2>6 DEF Pushed
    <3> HIDE DEF x
    <3>3. /\ \A n \in DOMAIN items' : n = 1 \/ (n - 1 \in DOMAIN items /\ items'[n] = items[n - 1])
          /\ items'[1] = x
      BY <1>0, <3>1, <3>2, PushShifts
    <3>4. classifyCalls[i] = 0 /\ 0 <= MaxRetries
      <4>1. 0 <= MaxRetries
        BY <1>0
      <4> QED
        BY <4>1 DEF TriesCount
    <3>5. ASSUME NEW n \in DOMAIN items'
          PROVE  items'[n].tries <= MaxRetries /\ classifyCalls'[items'[n].idea] <= items'[n].tries
      BY <2>1, <2>4, <3>1, <3>3, <3>4
    <3>6. \A v \in BatchWorkers : HandCounts(v)'
      BY <2>3, <3>2
    <3>7. \A j \in unpushed' : classifyCalls'[j] = 0
      BY <2>1, <3>2 DEF TriesCount
    <3> QED
      BY <3>5, <3>6, <3>7 DEF TriesCount, HandCounts, Early
  <2>7. ASSUME NEW w \in BatchWorkers, Popped(w)
        PROVE  TriesCount'
    <3>1. /\ \A n \in DOMAIN items' : n \in DOMAIN items /\ items'[n] = items[n]
          /\ Len(items) \in DOMAIN items
      BY <1>0, <2>7, PopShortens DEF Popped
    <3>2. HandCounts(w)'
      BY <2>1, <2>4, <2>7, <3>1 DEF Popped, HandCounts, Early
    <3>3. \A v \in BatchWorkers : HandCounts(v)'
      BY <2>3, <2>7, <3>2 DEF Popped, OthersKeep
    <3>4. ASSUME NEW n \in DOMAIN items'
          PROVE  items'[n].tries <= MaxRetries /\ classifyCalls'[items'[n].idea] <= items'[n].tries
      BY <2>1, <2>4, <3>1
    <3>5. \A j \in unpushed' : classifyCalls'[j] = 0
      BY <2>1, <2>7 DEF TriesCount, Popped
    <3> QED
      BY <3>3, <3>4, <3>5 DEF TriesCount, HandCounts, Early
  <2>8. ASSUME NEW w \in BatchWorkers, LetGo(w)
        PROVE  TriesCount'
    <3>1. \A v \in BatchWorkers : HandCounts(v)'
      BY <2>3, <2>8 DEF LetGo, OthersKeep, HandCounts
    <3> QED
      BY <2>1, <2>8, <3>1 DEF TriesCount, LetGo, HandCounts, Early
  <2>9. ASSUME NEW w \in BatchWorkers, PushedBack(w)
        PROVE  TriesCount'
    <3> DEFINE x == [inHand[w].item EXCEPT !.tries = @ + 1]
    <3>1. /\ inHand[w].item \in Items /\ inHand[w].item.tries \in Nat
          /\ x \in Items /\ x.idea = inHand[w].item.idea /\ x.tries = inHand[w].item.tries + 1
      BY <2>9, HandTyped DEF PushedBack, Items
    <3>2. items' = <<x>> \o items /\ Holding(w) /\ inHand[w].at = "retry"
      BY <2>9 DEF PushedBack
    <3> HIDE DEF x
    <3>3. /\ \A n \in DOMAIN items' : n = 1 \/ (n - 1 \in DOMAIN items /\ items'[n] = items[n - 1])
          /\ items'[1] = x
      BY <1>0, <3>1, <3>2, PushShifts
    <3>4. HandCounts(w) /\ ~Early(w)
      BY <3>2, TriesByHand DEF Early
    <3>5. x.tries <= MaxRetries /\ classifyCalls[x.idea] <= x.tries
      BY <1>0, <3>1, <3>2, <3>4 DEF HandCounts
    <3>6. ASSUME NEW n \in DOMAIN items'
          PROVE  items'[n].tries <= MaxRetries /\ classifyCalls'[items'[n].idea] <= items'[n].tries
      BY <2>1, <2>4, <3>3, <3>5
    <3>7. \A v \in BatchWorkers : HandCounts(v)'
      BY <2>3, <2>9 DEF PushedBack, OthersKeep, HandCounts
    <3>8. \A j \in unpushed' : classifyCalls'[j] = 0
      BY <2>1, <2>9 DEF TriesCount, PushedBack
    <3> QED
      BY <3>6, <3>7, <3>8 DEF TriesCount, HandCounts, Early
  <2> QED
    BY <2>1, <2>5, <2>6, <2>7, <2>8, <2>9, PlacesMove DEF CallsBounded
<1> QED
  BY <1>1, <1>2

-----------------------------------------------------------------------------

LEMMA WithinGrows ==
    ASSUME NEW r \in Jobs, NEW m \in Nat, NEW n \in Nat, NEW c \in Nat, NEW d \in Nat,
           m <= n, m + d <= n + c, Within(r, m, c)
    PROVE  Within(r, n, d)
<1>1. r.completed \in Nat /\ r.failed \in Nat
  BY DEF Jobs
<1> QED
  BY <1>1 DEF Within

(* The record that is written counts one more, when one more was decided.   *)
LEMMA WrittenWithin ==
    ASSUME NEW r \in Jobs, NEW n \in Nat, NEW c \in Nat, NEW d \in Nat, d <= c + 1, Within(r, n, c),
           Cardinality(Ideas) \in Nat
    PROVE  /\ Within(Marked(r), n, c)
           /\ Within(Succeeded(r), n + 1, d)
           /\ Within(Failed(r), n + 1, c)
<1>1. r.completed \in Nat /\ r.failed \in Nat
  BY DEF Jobs
<1>2. Within(Marked(r), n, c)
  BY RecordsMade DEF Within
<1>3. Within(Succeeded(r), n + 1, d)
  <2>1. /\ Succeeded(r).completed = r.completed + 1 /\ Succeeded(r).failed = r.failed
        /\ Succeeded(r).status = IF r.completed + 1 + r.failed >= Cardinality(Ideas)
                                 THEN "completed" ELSE r.status
    BY RecordsMade
  <2> QED
    BY <1>1, <2>1 DEF Within
<1>4. Within(Failed(r), n + 1, c)
  <2>1. /\ Failed(r).completed = r.completed /\ Failed(r).failed = r.failed + 1
        /\ Failed(r).status = IF r.completed + r.failed + 1 < Cardinality(Ideas) THEN r.status
                              ELSE IF r.failed + 1 = Cardinality(Ideas) THEN "failed" ELSE "completed"
    BY RecordsMade
  <2> QED
    BY <1>1, <2>1 DEF Within
<1> QED
  BY <1>2, <1>3, <1>4

LEMMA Numbers ==
    ASSUME BatchShape, IsFiniteSet(Decided)
    PROVE  /\ Counted \in Nat /\ IsFiniteSet(classified) /\ Cardinality(classified) \in Nat
           /\ Cardinality(Ideas) \in Nat
<1>1. IsFiniteSet(classified)
  BY BatchAssumption, FS_Subset DEF BatchShape
<1> QED
  BY <1>1, BatchAssumption, FS_CardinalityType DEF Counted

LEMMA WriteKeepsRecords ==
    ASSUME BatchShape, Started, RecordsTrue, NEW w \in BatchWorkers, WriteJob(w),
           inHand'[w].at \notin Writing, \A v \in BatchWorkers \ {w} : inHand'[v] = inHand[v]
    PROVE  RecordsTrue'
<1> DEFINE r == inHand[w].seen
           i == inHand[w].item.idea
           c == Cardinality(classified)
<1>1. inHand[w].at \in Writing /\ r \in Jobs /\ i \in Ideas /\ jobRecord \in Jobs
  BY Writes DEF BatchShape
<1>2. /\ Within(r, Counted, c) /\ IsFiniteSet(Decided)
      /\ ~raced => jobRecord.completed + jobRecord.failed = Counted
      /\ \A v \in BatchWorkers \ {w} : inHand[v].at \in Writing => Within(inHand[v].seen, Counted, c)
  BY <1>1 DEF RecordsTrue, RecordTrue
<1>3. Counted \in Nat /\ IsFiniteSet(classified) /\ c \in Nat /\ Cardinality(Ideas) \in Nat
  BY <1>2, Numbers
<1>4. ~raced' => ~raced /\ jobRecord = r
  BY DEF WriteJob, BatchShape
<1>5. r.completed \in Nat /\ r.failed \in Nat
  BY <1>1 DEF Jobs
<1>6. outcomeWrites \in [Ideas -> Nat] /\ \A j \in classified : outcomeWrites[j] > 0
  BY DEF BatchShape, RecordsTrue
<1>7. \A v \in BatchWorkers : inHand[v].seen \in Jobs
  BY HandTyped
<1>8. ASSUME NEW n \in Nat, NEW d \in Nat, Counted' = n, Cardinality(classified)' = d,
             Counted <= n, Counted + d <= n + c,
             Within(jobRecord', n, d), IsFiniteSet(Decided)', \A j \in classified' : outcomeWrites'[j] > 0,
             ~raced' => jobRecord'.completed + jobRecord'.failed = n
      PROVE  RecordsTrue'
  <2>1. ASSUME NEW v \in BatchWorkers, inHand'[v].at \in Writing
        PROVE  Within(inHand'[v].seen, n, d)
    <3>1. v # w /\ inHand'[v] = inHand[v]
      BY <2>1
    <3>2. Within(inHand[v].seen, Counted, c)
      BY <1>2, <2>1, <3>1
    <3> QED
      BY <1>3, <1>7, <1>8, <3>1, <3>2, WithinGrows
  <2> QED
    BY <1>8, <2>1 DEF RecordsTrue, RecordTrue
<1>9. CASE inHand[w].at = "status write"
  <2>1. jobRecord' = Marked(r) /\ outcomeWrites' = outcomeWrites /\ classified' = classified
    BY <1>9 DEF WriteJob
  <2>2. Counted' = Counted /\ Decided' = Decided
    BY <2>1 DEF Counted, Decided
  <2>3. Within(jobRecord', Counted, c) /\ jobRecord'.completed = r.completed /\ jobRecord'.failed = r.failed
    BY <1>1, <1>2, <1>3, <2>1, WrittenWithin, RecordsMade
  <2> QED
    BY <1>2, <1>3, <1>4, <1>6, <1>8, <2>1, <2>2, <2>3
<1>10. CASE inHand[w].at = "ok write"
  <2>1. /\ jobRecord' = Succeeded(r) /\ outcomeWrites' = [outcomeWrites EXCEPT ![i] = @ + 1]
        /\ classified' = classified \cup {i}
    BY <1>10 DEF WriteJob
  <2>2. IsFiniteSet(Decided)' /\ Counted' = Counted + 1
    BY <1>1, <1>2, <1>6, <2>1, OneMore
  <2>3. Cardinality(classified') \in Nat /\ Cardinality(classified') <= c + 1
    <3>1. Cardinality(classified \cup {i}) = IF i \in classified THEN c ELSE c + 1
      BY <1>3, FS_AddElement
    <3>2. c + 1 \in Nat /\ c <= c + 1
      BY <1>3
    <3> QED
      BY <1>3, <2>1, <3>1, <3>2
  <2>4. /\ Within(jobRecord', Counted + 1, Cardinality(classified'))
        /\ jobRecord'.completed = r.completed + 1 /\ jobRecord'.failed = r.failed
    BY <1>1, <1>2, <1>3, <2>1, <2>3, WrittenWithin, RecordsMade
  <2>5. \A j \in classified' : outcomeWrites'[j] > 0
    BY <1>1, <1>6, <2>1 DEF BatchShape
  <2>6. ~raced' => jobRecord'.completed + jobRecord'.failed = Counted + 1
    BY <1>2, <1>4, <1>5, <2>4
  <2>7. Counted + 1 \in Nat /\ Counted <= Counted + 1 /\ Counted + Cardinality(classified') <= Counted + 1 + c
    BY <1>3, <2>3
  <2> QED
    BY <1>8, <2>2, <2>3, <2>4, <2>5, <2>6, <2>7
<1>11. CASE inHand[w].at = "failed write"
  <2>1. /\ jobRecord' = Failed(r) /\ outcomeWrites' = [outcomeWrites EXCEPT ![i] = @ + 1]
        /\ classified' = classified
    BY <1>11 DEF WriteJob
  <2>2. IsFiniteSet(Decided)' /\ Counted' = Counted + 1
    BY <1>1, <1>2, <1>6, <2>1, OneMore
  <2>4. /\ Within(jobRecord', Counted + 1, c)
        /\ jobRecord'.completed = r.completed /\ jobRecord'.failed = r.failed + 1
    BY <1>1, <1>2, <1>3, <2>1, WrittenWithin, RecordsMade
  <2>5. \A j \in classified' : outcomeWrites'[j] > 0
    BY <1>1, <1>6, <2>1 DEF BatchShape
  <2>6. ~raced' => jobRecord'.completed + jobRecord'.failed = Counted + 1
    BY <1>2, <1>4, <1>5, <2>4
  <2>7. Counted + 1 \in Nat /\ Counted <= Counted + 1 /\ Counted + c <= Counted + 1 + c
    BY <1>3
  <2> QED
    BY <1>3, <1>8, <2>1, <2>2, <2>4, <2>5, <2>6, <2>7
<1> QED
  BY <1>1, <1>9, <1>10, <1>11 DEF Writing

LEMMA BatchKeepsRecords ==
    ASSUME BatchShape, Started, RecordsTrue, BatchNext
    PROVE  RecordsTrue'
<1> DEFINE Sees == \A v \in BatchWorkers : inHand'[v].at \in Writing =>
                       inHand'[v].seen = jobRecord \/ (inHand[v].at \in Writing /\ inHand'[v].seen = inHand[v].seen)
<1>1. ASSUME UNCHANGED <<jobRecord, outcomeWrites, classified, raced>>, Sees
      PROVE  RecordsTrue'
  <2>1. Decided' = Decided /\ Counted' = Counted
    BY <1>1 DEF Decided, Counted
  <2>2. /\ Within(jobRecord, Counted, Cardinality(classified))
        /\ \A v \in BatchWorkers : inHand'[v].at \in Writing =>
               Within(inHand'[v].seen, Counted, Cardinality(classified))
    BY <1>1 DEF RecordsTrue, RecordTrue
  <2>3. /\ IsFiniteSet(Decided) /\ \A i \in classified : outcomeWrites[i] > 0
        /\ ~raced => jobRecord.completed + jobRecord.failed = Counted
    BY DEF RecordsTrue
  <2> QED
    BY <1>1, <2>1, <2>2, <2>3 DEF RecordsTrue, RecordTrue
<1>2. CASE StoreJob
  <2>1. jobRecord'.status = "pending" /\ jobRecord'.completed = jobRecord.completed /\ jobRecord'.failed = jobRecord.failed
    BY <1>2 DEF StoreJob, NoJob
  <2>2. Decided' = Decided /\ Counted' = Counted /\ UNCHANGED <<inHand, outcomeWrites, classified, raced>>
    BY <1>2 DEF StoreJob, Decided, Counted
  <2>3. Within(jobRecord', Counted, Cardinality(classified))
    BY <2>1 DEF RecordsTrue, RecordTrue, Within
  <2> QED
    BY <2>1, <2>2, <2>3 DEF RecordsTrue, RecordTrue
<1>3. CASE PushItem \/ EnqueueFails
  BY <1>1, <1>3 DEF PushItem, EnqueueFails
<1>4. ASSUME NEW w \in BatchWorkers, WorkerStep(w)
      PROVE  RecordsTrue'
  <2>1. ASSUME NEW phase \in Phases \ Writing, Goes(w, phase)
        PROVE  Sees /\ inHand'[w].at \notin Writing /\ \A v \in BatchWorkers \ {w} : inHand'[v] = inHand[v]
    BY <2>1, GoesOn1
  <2>2. ASSUME SetFree(w)
        PROVE  Sees /\ inHand'[w].at \notin Writing /\ \A v \in BatchWorkers \ {w} : inHand'[v] = inHand[v]
    BY <2>2, Releases DEF Writing
  <2>3. CASE Pop(w)
    BY <1>1, <2>3 DEF Pop, BatchShape, Writing
  <2>4. CASE ReadJob(w)
    <3>1. inHand[w] \in Hands /\ Holding(w) /\ jobRecord # NoJob
      BY <2>4, HandTyped DEF ReadJob, Holding, Started, NoJob
    <3>2. PICK write \in Writing : inHand' = [inHand EXCEPT ![w] = [@ EXCEPT !.at = write, !.seen = jobRecord]]
      BY <2>4, <3>1 DEF ReadJob, Writing
    <3>3. inHand'[w].seen = jobRecord /\ \A v \in BatchWorkers \ {w} : inHand'[v] = inHand[v]
      BY <3>1, <3>2 DEF BatchShape, Hands
    <3> QED
      BY <1>1, <2>4, <3>3 DEF ReadJob
  <2>5. CASE WriteRecord(w)
    BY <2>1, <2>2, <2>5, WriteKeepsRecords DEF WriteRecord, Phases, Writing
  <2>6. CASE Classify(w)
    BY <1>1, <2>1, <2>6 DEF Classify, AfterError, Phases, Writing
  <2>7. CASE Retry(w)
    BY <1>1, <2>2, <2>7 DEF Retry, PushAgain
  <2>8. CASE CommandFails(w)
    <3>1. Sees /\ inHand'[w].at \notin Writing /\ \A v \in BatchWorkers \ {w} : inHand'[v] = inHand[v]
      BY <2>1, <2>2, <2>8 DEF CommandFails, Phases, Writing
    <3> QED
      BY <1>1, <2>8, <3>1, WriteKeepsRecords DEF CommandFails
  <2>9. CASE RestartWorker(w)
    BY <1>1, <2>2, <2>9 DEF RestartWorker
  <2> QED
    BY <1>4, <2>3, <2>4, <2>5, <2>6, <2>7, <2>8, <2>9 DEF WorkerStep
<1> QED
  BY <1>2, <1>3, <1>4, WhoSteps DEF CallerStep

LEMMA BatchAlways == BatchSpec => []BatchInv
<1>1. BatchInv /\ [BatchNext]_batchVars => BatchInv'
  <2> SUFFICES ASSUME BatchInv, [BatchNext]_batchVars
               PROVE  BatchInv'
    OBVIOUS
  <2>1. CASE UNCHANGED batchVars
    <3>1. BatchShape' /\ Started' /\ Apart'
      BY <2>1 DEF batchVars, BatchInv, BatchShape, Started, Apart, Holding
    <3>2. AllPlaced' /\ TriesCount' /\ CallsBounded'
      BY <2>1 DEF batchVars, BatchInv, AllPlaced, Placed, TriesCount, CallsBounded, Holding
    <3>3. Decided' = Decided /\ Counted' = Counted
      BY <2>1 DEF batchVars, Decided, Counted
    <3>4. RecordsTrue'
      BY <2>1, <3>3 DEF batchVars, BatchInv, RecordsTrue, RecordTrue
    <3> QED
      BY <3>1, <3>2, <3>4 DEF BatchInv
  <2>2. CASE BatchNext
    <3>1. BatchShape' /\ Started'
      BY <2>2, BatchKeepsShape, BatchKeepsStarted DEF BatchInv
    <3>2. Apart' /\ AllPlaced'
      BY <2>2, BatchKeepsApart, BatchKeepsPlaced DEF BatchInv
    <3>3. RecordsTrue' /\ TriesCount' /\ CallsBounded'
      BY <2>2, BatchKeepsRecords, BatchKeepsTries DEF BatchInv
    <3> QED
      BY <3>1, <3>2, <3>3 DEF BatchInv
  <2> QED
    BY <2>1, <2>2
<1> QED
  BY <1>1, BatchStart, PTL DEF BatchSpec

LEMMA AtMostOne ==
    ASSUME NEW S, \A x, y \in S : x = y
    PROVE  Cardinality(S) = IF S = {} THEN 0 ELSE 1
<1>1. CASE S = {}
  BY <1>1, FS_EmptySet
<1>2. CASE S # {}
  <2>1. PICK x \in S : S = {x}
    BY <1>2
  <2> QED
    BY <1>2, <2>1, FS_Singleton
<1> QED
  BY <1>1, <1>2

(* When no idea was decided twice, as many as there are decisions are decided. *)
LEMMA AllDecided ==
    ASSUME BatchShape, IsFiniteSet(Decided), \A i \in Ideas : outcomeWrites[i] <= 1
    PROVE  /\ Counted <= Cardinality(Ideas)
           /\ Counted >= Cardinality(Ideas) => \A i \in Ideas : outcomeWrites[i] = 1
<1> DEFINE D == {i \in Ideas : outcomeWrites[i] = 1}
           f == [d \in Decided |-> d[1]]
<1>1. \A d \in Decided : d = <<d[1], 1>> /\ d[1] \in D
  <2> SUFFICES ASSUME NEW d \in Decided
               PROVE  d = <<d[1], 1>> /\ d[1] \in D
    OBVIOUS
  <2>1. PICK i \in Ideas : \E n \in 1..outcomeWrites[i] : d = <<i, n>>
    BY DEF Decided
  <2>2. outcomeWrites[i] = 1 /\ d = <<i, 1>>
    BY <2>1 DEF BatchShape
  <2> QED
    BY <2>2
<1>2. f \in Injection(Decided, D)
  BY <1>1 DEF Injection, IsInjective
<1>3. IsFiniteSet(D) /\ Cardinality(D) <= Cardinality(Ideas) /\ (Cardinality(Ideas) = Cardinality(D) => Ideas = D)
  BY BatchAssumption, FS_Subset
<1>4. Counted <= Cardinality(D)
  BY <1>2, <1>3, FS_Injection DEF Counted
<1>5. Counted \in Nat /\ Cardinality(D) \in Nat /\ Cardinality(Ideas) \in Nat
  BY <1>3, BatchAssumption, FS_CardinalityType DEF Counted
<1>6. Counted >= Cardinality(Ideas) => Ideas = D
  BY <1>3, <1>4, <1>5
<1> QED
  BY <1>3, <1>4, <1>5, <1>6

\* A batch is what becomes of its ideas, for any number of ideas, workers and retries: an idea is
\* in one place or decided or dropped, the record counts what was decided and reads as ended only
\* then, and no idea is submitted to the classifier without end (enqueue_batch, _process_job).
THEOREM BatchesTrue == BatchSpec => []BatchesAreTrue
<1>1. BatchInv => BatchesAreTrue
  <2> SUFFICES ASSUME BatchInv
               PROVE  BatchesAreTrue
    OBVIOUS
  <2>1. /\ BatchShape /\ Apart /\ AllPlaced /\ RecordsTrue /\ CallsBounded
    BY DEF BatchInv
  <2>2. BatchTypeOK
    <3>1. \A n \in DOMAIN items : items[n] \in Items
      BY <2>1 DEF BatchShape
    <3>2. \A w \in BatchWorkers : inHand[w].at \in Phases /\ inHand[w].seen \in Jobs
      BY <2>1, HandTyped
    <3> QED
      BY <2>1, <3>1, <3>2 DEF BatchTypeOK, BatchShape
  <2>3. IdeaInOnePlace
    <3> SUFFICES ASSUME NEW i \in Ideas
                 PROVE  LET places == Cardinality(Queued(i)) + Cardinality(HeldBy(i))
                                      + (IF i \in unpushed THEN 1 ELSE 0)
                        IN  places <= 1 /\ (places = 0 => outcomeWrites[i] > 0 \/ i \in lost)
      BY DEF IdeaInOnePlace
    <3>1. Cardinality(Queued(i)) = IF Queued(i) = {} THEN 0 ELSE 1
      <4>1. \A m, n \in Queued(i) : m = n
        BY <2>1 DEF Apart, Queued
      <4> QED
        BY <4>1, AtMostOne
    <3>2. Cardinality(HeldBy(i)) = IF HeldBy(i) = {} THEN 0 ELSE 1
      <4>1. \A v, w \in HeldBy(i) : v = w
        BY <2>1 DEF Apart, HeldBy, Holding
      <4> QED
        BY <4>1, AtMostOne
    <3>3. /\ Queued(i) = {} \/ HeldBy(i) = {}
          /\ i \in unpushed => Queued(i) = {} /\ HeldBy(i) = {}
      BY <2>1 DEF Apart, Queued, HeldBy, Holding
    <3>4. Queued(i) = {} /\ HeldBy(i) = {} /\ i \notin unpushed => outcomeWrites[i] > 0 \/ i \in lost
      BY <2>1 DEF AllPlaced, Placed, Queued, HeldBy, Holding
    <3> QED
      BY <3>1, <3>2, <3>3, <3>4
  <2>4. CountsAreTrue
    BY <2>1 DEF RecordsTrue, RecordTrue, Within, CountsAreTrue
  <2>5. FinalIsTrue
    <3> SUFFICES ASSUME Final, \A i \in Ideas : outcomeWrites[i] <= 1
                 PROVE  /\ \A i \in Ideas : outcomeWrites[i] = 1
                        /\ jobRecord.status = "failed" => classified = {}
      BY DEF FinalIsTrue
    <3>1. /\ jobRecord.completed + jobRecord.failed <= Counted /\ jobRecord.failed + Cardinality(classified) <= Counted
          /\ jobRecord.completed + jobRecord.failed >= Cardinality(Ideas) /\ IsFiniteSet(Decided)
          /\ jobRecord.status = "failed" => jobRecord.failed >= Cardinality(Ideas)
      BY <2>1 DEF Final, RecordsTrue, RecordTrue, Within
    <3>2. /\ Counted \in Nat /\ IsFiniteSet(classified) /\ Cardinality(classified) \in Nat
          /\ Cardinality(Ideas) \in Nat
      BY <2>1, <3>1, Numbers
    <3>3. jobRecord.completed \in Nat /\ jobRecord.failed \in Nat
      BY <2>1 DEF BatchShape, Jobs
    <3>4. /\ Counted <= Cardinality(Ideas)
          /\ Counted >= Cardinality(Ideas) => \A i \in Ideas : outcomeWrites[i] = 1
      BY <2>1, <3>1, AllDecided
    <3>5. Counted >= Cardinality(Ideas)
      BY <3>1, <3>2, <3>3
    <3>6. ASSUME jobRecord.status = "failed"
          PROVE  classified = {}
      <4>1. Cardinality(classified) = 0
        BY <3>1, <3>2, <3>3, <3>4, <3>6
      <4> QED
        BY <3>2, <4>1, FS_EmptySet
    <3> QED
      BY <3>4, <3>5, <3>6
  <2> QED
    BY <2>1, <2>2, <2>3, <2>4, <2>5 DEF BatchesAreTrue
<1> QED
  BY <1>1, BatchAlways, PTL
-----------------------------------------------------------------------------
(* The coordination mailbox.                                               *)

MailSpec == MailInit /\ [][MailNext]_mailVars

MailShape ==
    /\ MailTypeOK
    /\ publish \in [Msgs -> {"new", "presence", "queue", "done"}]
    /\ hash \in [Msgs -> {"absent", "open", "acked", "expired", "partial"}]
    /\ queue \in Seq(Msgs \ Broadcasts)
    /\ acker \in [Ackers -> [at : {"idle", "read", "write"}, msg : Msgs \cup {"none"}]]
    /\ \A a \in Ackers : acker[a].at # "idle" => acker[a].msg \in Msgs
    /\ \A m \in Broadcasts : publish[m] \in {"new", "done"}

\* An acknowledgement is of a message that was published, and a message that expires under it
\* is remembered.
AcksFound ==
    /\ \A a \in Ackers : acker[a].at # "idle" =>
        LET m == acker[a].msg IN publish[m] # "new" /\ (hash[m] = "expired" => m \in ackCaught)
    /\ \A m \in Msgs : publish[m] = "new" => hash[m] = "absent" /\ ackBy[m] = NoAck
    /\ \A m \in Msgs : publish[m] # "new" => hash[m] # "absent"

\* A message that was answered is open to no call, except to one that had read it before.
AnsweredIsRead ==
    /\ \A m \in Msgs : hash[m] = "open" => ackBy[m] = NoAck
    /\ \A a \in Ackers : acker[a].at = "write" =>
        LET m == acker[a].msg IN ackBy[m] # NoAck => m \in ackRaced \cup ackCaught

MailInv == MailShape /\ AcksFound /\ AnsweredIsRead /\ NotificationsKept /\ PendingIsUnanswered /\ PartialWasCaught

LEMMA MailStart == MailInit => MailInv
<1> SUFFICES ASSUME MailInit
             PROVE  MailInv
  OBVIOUS
<1>1. MailShape
  <2>1. queue \in Seq(Msgs \ Broadcasts) /\ ToSet(queue) = {}
    BY EmptyList DEF MailInit
  <2>2. MailTypeOK
    BY <2>1 DEF MailInit, MailTypeOK
  <2>3. /\ acker \in [Ackers -> [at : {"idle", "read", "write"}, msg : Msgs \cup {"none"}]]
        /\ \A a \in Ackers : acker[a].at = "idle"
    BY DEF MailInit, NoCall
  <2>4. /\ publish \in [Msgs -> {"new", "presence", "queue", "done"}]
        /\ hash \in [Msgs -> {"absent", "open", "acked", "expired", "partial"}]
        /\ \A m \in Broadcasts : publish[m] \in {"new", "done"}
    BY MailAssumption DEF MailInit
  <2> QED
    BY <2>1, <2>2, <2>3, <2>4 DEF MailShape
<1>2. AcksFound /\ AnsweredIsRead /\ NotificationsKept /\ PendingIsUnanswered /\ PartialWasCaught
  BY MailAssumption
     DEF MailInit, NoCall, AcksFound, AnsweredIsRead, NotificationsKept, PendingIsUnanswered, PartialWasCaught
<1> QED
  BY <1>1, <1>2 DEF MailInv

LEMMA Notified ==
    ASSUME MailShape, NEW m \in Msgs, publish[m] = "queue", queue' = <<m>> \o queue
    PROVE  /\ ToSet(queue') \subseteq Msgs \ Broadcasts /\ queue' \in Seq(Msgs \ Broadcasts)
           /\ ToSet(queue') = {m} \cup ToSet(queue)
<1> DEFINE S == Msgs \ Broadcasts
           s == queue
           t == queue'
<1>1. s \in Seq(S) /\ m \in S /\ t = <<m>> \o s
  BY DEF MailShape, MailTypeOK
<1>2. ToSet(s) \subseteq S
  BY DEF MailShape, MailTypeOK
<1> HIDE DEF S, s, t
<1>3. /\ t \in Seq(S) /\ 1 \in DOMAIN t /\ t[1] = m
      /\ \A n \in DOMAIN t : n = 1 \/ (n - 1 \in DOMAIN s /\ t[n] = s[n - 1])
      /\ \A n \in DOMAIN s : n + 1 \in DOMAIN t /\ t[n + 1] = s[n]
  BY <1>1, PushFront
<1>4. ToSet(t) = {m} \cup ToSet(s)
  BY <1>3, PushedSet
<1> QED
  BY <1>1, <1>2, <1>3, <1>4 DEF S, s, t

\* What a step may do to the stored messages, and what it keeps of their shape.
LEMMA MailKeepsShape ==
    ASSUME MailShape, MailNext
    PROVE  MailShape'
<1> DEFINE Stored1 == /\ pending \subseteq NeedAck /\ ackBy \in [Msgs -> Ackers \cup {NoAck}]
                      /\ publish \in [Msgs -> {"new", "presence", "queue", "done"}]
                      /\ hash \in [Msgs -> {"absent", "open", "acked", "expired", "partial"}]
                      /\ \A m \in Broadcasts : publish[m] \in {"new", "done"}
           Queued1 == ToSet(queue) \subseteq Msgs \ Broadcasts /\ queue \in Seq(Msgs \ Broadcasts)
           Acking1 == /\ acker \in [Ackers -> [at : {"idle", "read", "write"}, msg : Msgs \cup {"none"}]]
                      /\ \A a \in Ackers : acker[a].at # "idle" => acker[a].msg \in Msgs
           Present1 == presence \in {"none", "active", "heartbeat only"}
<1>1. Stored1 /\ Queued1 /\ Acking1 /\ Present1
  BY DEF MailShape, MailTypeOK
<1>2. Stored1' /\ Queued1' /\ Acking1' /\ Present1' => MailShape'
  BY DEF MailShape, MailTypeOK
<1>3. ASSUME UNCHANGED queue
      PROVE  Queued1'
  BY <1>1, <1>3 DEF ToSet
<1>4. UNCHANGED storeVars => Stored1'
  BY <1>1 DEF storeVars
<1>5. UNCHANGED acker => Acking1'
  BY <1>1
<1>6. UNCHANGED presence => Present1'
  BY <1>1
<1>7. \A m \in Broadcasts : m \in Msgs
  BY MailAssumption
<1> HIDE DEF Stored1, Queued1, Acking1, Present1
<1>8. ASSUME NEW m \in Msgs, PublishMail(m)
      PROVE  MailShape'
  <2>1. Stored1'
    BY <1>1, <1>7, <1>8 DEF PublishMail, Stored1
  <2>2. Queued1'
    BY <1>3, <1>8 DEF PublishMail, hearVars
  <2>3. Acking1'
    BY <1>5, <1>8 DEF PublishMail
  <2>4. Present1'
    BY <1>6, <1>8 DEF PublishMail, presenceVars
  <2> QED
    BY <1>2, <2>1, <2>2, <2>3, <2>4
<1>9. ASSUME NEW m \in Msgs, ReadPresence(m)
      PROVE  MailShape'
  <2>1. Stored1'
    BY <1>1, <1>7, <1>9 DEF ReadPresence, Stored1
  <2>2. Queued1'
    BY <1>3, <1>9 DEF ReadPresence, hearVars
  <2>3. Acking1'
    BY <1>5, <1>9 DEF ReadPresence
  <2>4. Present1'
    BY <1>6, <1>9 DEF ReadPresence, presenceVars
  <2> QED
    BY <1>2, <2>1, <2>2, <2>3, <2>4
<1>10. ASSUME NEW m \in Msgs, QueueNotification(m)
      PROVE  MailShape'
  <2>1. Stored1'
    BY <1>1, <1>7, <1>10 DEF QueueNotification, Stored1
  <2>2. Queued1'
    BY <1>10, Notified DEF QueueNotification, Queued1
  <2>3. Acking1'
    BY <1>5, <1>10 DEF QueueNotification
  <2>4. Present1'
    BY <1>6, <1>10 DEF QueueNotification, presenceVars
  <2> QED
    BY <1>2, <2>1, <2>2, <2>3, <2>4
<1>11. ASSUME NEW m \in Msgs, QueueingFails(m)
      PROVE  MailShape'
  <2>1. Stored1'
    BY <1>1, <1>7, <1>11 DEF QueueingFails, Stored1
  <2>2. Queued1'
    BY <1>3, <1>11, Notified DEF QueueingFails, Queued1
  <2>3. Acking1'
    BY <1>5, <1>11 DEF QueueingFails
  <2>4. Present1'
    BY <1>6, <1>11 DEF QueueingFails, presenceVars
  <2> QED
    BY <1>2, <2>1, <2>2, <2>3, <2>4
<1>12. ASSUME NEW m \in Msgs, ExpireMessage(m)
      PROVE  MailShape'
  <2>1. Stored1'
    BY <1>1, <1>7, <1>12 DEF ExpireMessage, Stored1
  <2>2. Queued1'
    BY <1>3, <1>12 DEF ExpireMessage, hearVars
  <2>3. Acking1'
    BY <1>5, <1>12 DEF ExpireMessage
  <2>4. Present1'
    BY <1>6, <1>12 DEF ExpireMessage, presenceVars
  <2> QED
    BY <1>2, <2>1, <2>2, <2>3, <2>4
<1>17. NoCall \in [at : {"idle", "read", "write"}, msg : Msgs \cup {"none"}] /\ NoCall.at = "idle"
  BY DEF NoCall
<1>13. ASSUME NEW a \in Ackers, NEW m \in Msgs, CheckExists(a, m)
      PROVE  MailShape'
  <2>1. Stored1'
    BY <1>4, <1>13 DEF CheckExists, storeVars
  <2>2. Queued1'
    BY <1>3, <1>13 DEF CheckExists, hearVars
  <2>3. Acking1'
    BY <1>1, <1>17, <1>13 DEF CheckExists, Acking1
  <2>4. Present1'
    BY <1>6, <1>13 DEF CheckExists, presenceVars
  <2> QED
    BY <1>2, <2>1, <2>2, <2>3, <2>4
<1>14. ASSUME NEW a \in Ackers, ReadAck(a)
      PROVE  MailShape'
  <2>1. Stored1'
    BY <1>4, <1>14 DEF ReadAck, storeVars
  <2>2. Queued1'
    BY <1>3, <1>14 DEF ReadAck, hearVars
  <2>3. Acking1'
    BY <1>1, <1>17, <1>14 DEF ReadAck, Acking1
  <2>4. Present1'
    BY <1>6, <1>14 DEF ReadAck, presenceVars
  <2> QED
    BY <1>2, <2>1, <2>2, <2>3, <2>4
<1>15. ASSUME NEW a \in Ackers, WriteAck(a)
      PROVE  MailShape'
  <2>1. Stored1'
    BY <1>1, <1>7, <1>15 DEF WriteAck, Stored1, Acking1
  <2>2. Queued1'
    BY <1>3, <1>15 DEF WriteAck, hearVars
  <2>3. Acking1'
    BY <1>1, <1>17, <1>15 DEF WriteAck, Acking1
  <2>4. Present1'
    BY <1>6, <1>15 DEF WriteAck, presenceVars
  <2> QED
    BY <1>2, <2>1, <2>2, <2>3, <2>4
<1>16. ASSUME NEW a \in Ackers, AckFails(a)
      PROVE  MailShape'
  <2>1. Stored1'
    BY <1>4, <1>16 DEF AckFails, storeVars
  <2>2. Queued1'
    BY <1>3, <1>16 DEF AckFails, hearVars
  <2>3. Acking1'
    BY <1>1, <1>17, <1>16 DEF AckFails, Acking1
  <2>4. Present1'
    BY <1>6, <1>16 DEF AckFails, presenceVars
  <2> QED
    BY <1>2, <2>1, <2>2, <2>3, <2>4
<1>18. presence \in {"none", "active", "heartbeat only"}
  BY <1>1 DEF Present1
<1>19. ASSUME NEW p \in {"none", "active", "heartbeat only"}, NEW f, SetPresence(p, f)
      PROVE  MailShape'
  <2>1. Stored1'
    BY <1>4, <1>19 DEF SetPresence, storeVars
  <2>2. Queued1'
    BY <1>3, <1>19 DEF SetPresence, hearVars
  <2>3. Acking1'
    BY <1>5, <1>19 DEF SetPresence
  <2>4. Present1'
    BY <1>19 DEF SetPresence, Present1
  <2> QED
    BY <1>2, <2>1, <2>2, <2>3, <2>4
<1>20. ASSUME NEW on \in BOOLEAN, Listen(on)
      PROVE  MailShape'
  <2>1. Stored1'
    BY <1>4, <1>20 DEF Listen, storeVars
  <2>2. Queued1'
    BY <1>3, <1>20 DEF Listen, hearVars
  <2>3. Acking1'
    BY <1>5, <1>20 DEF Listen
  <2>4. Present1'
    BY <1>6, <1>20 DEF Listen, presenceVars
  <2> QED
    BY <1>2, <2>1, <2>2, <2>3, <2>4
<1>21. ASSUME NEW limit \in PopLimits, PopNotifications(limit)
      PROVE  MailShape'
  <2>1. Stored1'
    BY <1>4, <1>21 DEF PopNotifications, storeVars
  <2>2. Queued1'
    BY <1>21, EmptyList DEF PopNotifications, Queued1
  <2>3. Acking1'
    BY <1>5, <1>21 DEF PopNotifications
  <2>4. Present1'
    BY <1>6, <1>21 DEF PopNotifications, presenceVars
  <2> QED
    BY <1>2, <2>1, <2>2, <2>3, <2>4
<1>22. ASSUME PopFails
      PROVE  MailShape'
  <2>1. Stored1'
    BY <1>4, <1>22 DEF PopFails, storeVars
  <2>2. Queued1'
    BY <1>22, EmptyList DEF PopFails, Queued1
  <2>3. Acking1'
    BY <1>5, <1>22 DEF PopFails
  <2>4. Present1'
    BY <1>6, <1>22 DEF PopFails, presenceVars
  <2> QED
    BY <1>2, <2>1, <2>2, <2>3, <2>4
<1>23. ASSUME ExpireQueue
      PROVE  MailShape'
  <2>1. Stored1'
    BY <1>4, <1>23 DEF ExpireQueue, storeVars
  <2>2. Queued1'
    BY <1>23, EmptyList DEF ExpireQueue, Queued1
  <2>3. Acking1'
    BY <1>5, <1>23 DEF ExpireQueue
  <2>4. Present1'
    BY <1>6, <1>23 DEF ExpireQueue, presenceVars
  <2> QED
    BY <1>2, <2>1, <2>2, <2>3, <2>4
<1> QED
  BY <1>8, <1>9, <1>10, <1>11, <1>12, <1>13, <1>14, <1>15, <1>16, <1>18, <1>19, <1>20, <1>21, <1>22, <1>23
     DEF MailNext, RegisterInstance, Heartbeat, UnregisterInstance, GrowStale

LEMMA MailKeepsAcks ==
    ASSUME MailShape, AcksFound, PendingIsUnanswered, PartialWasCaught, MailNext
    PROVE  AcksFound' /\ PendingIsUnanswered' /\ PartialWasCaught'
<1> DEFINE Found(a) == acker[a].at # "idle" =>
             /\ publish[acker[a].msg] # "new"
             /\ hash[acker[a].msg] = "expired" => acker[a].msg \in ackCaught
           Fresh(m) == publish[m] = "new" => hash[m] = "absent" /\ ackBy[m] = NoAck
           Born(m) == publish[m] # "new" => hash[m] # "absent"
           Waits(m) == m \in pending <=> m \in NeedAck /\ publish[m] # "new" /\ ackBy[m] = NoAck
           Caught(m) == hash[m] = "partial" => m \in ackCaught
           Good == /\ \A a \in Ackers : Found(a)
                   /\ \A m \in Msgs : Fresh(m) /\ Born(m) /\ Waits(m) /\ Caught(m)
           Typed == /\ pending \subseteq NeedAck /\ ackBy \in [Msgs -> Ackers \cup {NoAck}]
                    /\ publish \in [Msgs -> {"new", "presence", "queue", "done"}]
                    /\ hash \in [Msgs -> {"absent", "open", "acked", "expired", "partial"}]
                    /\ acker \in [Ackers -> [at : {"idle", "read", "write"}, msg : Msgs \cup {"none"}]]
                    /\ \A a \in Ackers : acker[a].at # "idle" => acker[a].msg \in Msgs
                    /\ NoAck \notin Ackers /\ NeedAck \subseteq Msgs /\ NoCall.at = "idle"
<1>1. Typed /\ Typed'
  BY MailKeepsShape, MailAssumption DEF MailShape, MailTypeOK, NoCall
<1>2. Good
  BY MailAssumption DEF AcksFound, PendingIsUnanswered, PartialWasCaught
<1>3. Good' => AcksFound' /\ PendingIsUnanswered' /\ PartialWasCaught'
  <2> SUFFICES ASSUME Good'
               PROVE  AcksFound' /\ PendingIsUnanswered' /\ PartialWasCaught'
    OBVIOUS
  <2>1. AcksFound'
    BY DEF AcksFound
  <2>2. PendingIsUnanswered'
    BY <1>1 DEF PendingIsUnanswered
  <2> QED
    BY <2>1, <2>2 DEF PartialWasCaught
<1> SUFFICES Good'
  BY <1>3
<1> HIDE DEF Found, Fresh, Born, Waits, Caught
<1>4. UNCHANGED <<storeVars, acker, ackCaught>> => Good'
  BY <1>2 DEF storeVars, Found, Fresh, Born, Waits, Caught
<1>5. ASSUME NEW m \in Msgs, PublishMail(m)
      PROVE  Good'
  <2>1. \A k \in Msgs : (Fresh(k) /\ Born(k) /\ Waits(k) /\ Caught(k))'
    BY <1>1, <1>2, <1>5 DEF PublishMail, ackHistory, Fresh, Born, Waits, Caught
  <2>2. \A a \in Ackers : Found(a)'
    BY <1>1, <1>2, <1>5 DEF PublishMail, Found, ackHistory
  <2> QED
    BY <2>1, <2>2
<1>6. ASSUME NEW m \in Msgs, ReadPresence(m) \/ QueueNotification(m) \/ QueueingFails(m)
      PROVE  Good'
  <2>1. /\ UNCHANGED <<hash, ackBy, pending, acker, ackCaught>>
        /\ publish[m] # "new" /\ \E v : v # "new" /\ publish' = [publish EXCEPT ![m] = v]
    BY <1>6 DEF ReadPresence, QueueNotification, QueueingFails, ackHistory
  <2>2. \A k \in Msgs : (publish'[k] = "new") <=> (publish[k] = "new")
    BY <1>1, <2>1
  <2>3. \A k \in Msgs : (Fresh(k) /\ Born(k) /\ Waits(k) /\ Caught(k))'
    BY <1>2, <2>1, <2>2 DEF Fresh, Born, Waits, Caught
  <2>4. \A a \in Ackers : Found(a)'
    BY <1>1, <1>2, <2>1, <2>2 DEF Found
  <2> QED
    BY <2>3, <2>4
<1>7. ASSUME NEW m \in Msgs, ExpireMessage(m)
      PROVE  Good'
  <2>1. \A k \in Msgs : (Fresh(k) /\ Born(k) /\ Waits(k) /\ Caught(k))'
    BY <1>1, <1>2, <1>7 DEF ExpireMessage, Fresh, Born, Waits, Caught
  <2>2. \A a \in Ackers : Found(a)'
    BY <1>1, <1>2, <1>7 DEF ExpireMessage, Found
  <2> QED
    BY <2>1, <2>2
<1>8. ASSUME NEW a \in Ackers, NEW m \in Msgs, CheckExists(a, m)
      PROVE  Good'
  <2>1. \A k \in Msgs : (Fresh(k) /\ Born(k) /\ Waits(k) /\ Caught(k))'
    BY <1>2, <1>8 DEF CheckExists, storeVars, ackHistory, Fresh, Born, Waits, Caught
  <2>2. \A b \in Ackers : Found(b)'
    BY <1>1, <1>2, <1>8 DEF CheckExists, Exists, storeVars, ackHistory, Found
  <2> QED
    BY <2>1, <2>2
<1>9. ASSUME NEW a \in Ackers, ReadAck(a) \/ AckFails(a)
      PROVE  Good'
  <2>1. /\ UNCHANGED <<storeVars, ackCaught>>
        /\ \/ acker' = [acker EXCEPT ![a] = NoCall]
           \/ acker[a].at = "read" /\ acker' = [acker EXCEPT ![a] = [@ EXCEPT !.at = "write"]]
    BY <1>9 DEF ReadAck, AckFails, ackHistory
  <2>2. \A b \in Ackers : acker'[b] = acker[b] \/ acker'[b].at = "idle"
                           \/ (acker[b].at # "idle" /\ acker'[b].msg = acker[b].msg)
    BY <1>1, <2>1
  <2>3. \A k \in Msgs : (Fresh(k) /\ Born(k) /\ Waits(k) /\ Caught(k))'
    BY <1>2, <2>1 DEF storeVars, Fresh, Born, Waits, Caught
  <2>4. \A b \in Ackers : Found(b)'
    BY <1>2, <2>1, <2>2 DEF storeVars, Found
  <2> QED
    BY <2>3, <2>4
<1>10. ASSUME NEW a \in Ackers, WriteAck(a)
       PROVE  Good'
  <2> DEFINE m == acker[a].msg
  <2>1. m \in Msgs /\ publish[m] # "new" /\ (hash[m] = "expired" => m \in ackCaught)
    BY <1>1, <1>2, <1>10 DEF WriteAck, Found
  <2>2. /\ hash' = [hash EXCEPT ![m] = IF @ \in {"open", "acked"} THEN "acked" ELSE "partial"]
        /\ ackBy' = [ackBy EXCEPT ![m] = a] /\ pending' = pending \ {m}
        /\ acker' = [acker EXCEPT ![a] = NoCall] /\ UNCHANGED <<publish, ackCaught>>
    BY <1>10 DEF WriteAck
  <2> HIDE DEF m
  <2>3. \A k \in Msgs : (Fresh(k) /\ Born(k) /\ Waits(k) /\ Caught(k))'
    BY <1>1, <1>2, <2>1, <2>2 DEF Fresh, Born, Waits, Caught
  <2>4. \A b \in Ackers : Found(b)'
    BY <1>1, <1>2, <2>1, <2>2 DEF Found
  <2> QED
    BY <2>3, <2>4
<1>11. ASSUME NEW p, NEW f, SetPresence(p, f)
       PROVE  Good'
  BY <1>4, <1>11 DEF SetPresence, ackHistory
<1>12. ASSUME NEW on \in BOOLEAN, Listen(on)
       PROVE  Good'
  BY <1>4, <1>12 DEF Listen, ackHistory
<1>13. ASSUME (\E limit \in PopLimits : PopNotifications(limit)) \/ PopFails \/ ExpireQueue
       PROVE  Good'
  BY <1>4, <1>13 DEF PopNotifications, PopFails, ExpireQueue, ackHistory
<1> QED
  BY <1>5, <1>6, <1>7, <1>8, <1>9, <1>10, <1>11, <1>12, <1>13
     DEF MailNext, RegisterInstance, Heartbeat, UnregisterInstance, GrowStale

LEMMA MailKeepsAnswers ==
    ASSUME MailShape, AcksFound, AnsweredIsRead, MailNext
    PROVE  AnsweredIsRead'
<1> DEFINE Open(m) == hash[m] = "open" => ackBy[m] = NoAck
           WritesAfter(a) == acker[a].at = "write" /\ ackBy[acker[a].msg] # NoAck
                                 => acker[a].msg \in ackRaced \cup ackCaught
           Good == (\A m \in Msgs : Open(m)) /\ (\A a \in Ackers : WritesAfter(a))
           Typed == /\ ackBy \in [Msgs -> Ackers \cup {NoAck}]
                    /\ hash \in [Msgs -> {"absent", "open", "acked", "expired", "partial"}]
                    /\ acker \in [Ackers -> [at : {"idle", "read", "write"}, msg : Msgs \cup {"none"}]]
                    /\ \A a \in Ackers : acker[a].at # "idle" => acker[a].msg \in Msgs
                    /\ NoAck \notin Ackers /\ NoCall.at = "idle"
<1>1. Typed
  BY MailAssumption DEF MailShape, MailTypeOK, NoCall
<1>2. Good /\ (Good' => AnsweredIsRead')
  BY DEF AnsweredIsRead
<1>3. /\ \A a \in Ackers : acker[a].at # "idle" => publish[acker[a].msg] # "new"
                  /\ (hash[acker[a].msg] = "expired" => acker[a].msg \in ackCaught)
      /\ \A m \in Msgs : publish[m] = "new" => ackBy[m] = NoAck
      /\ \A m \in Msgs : publish[m] # "new" => hash[m] # "absent"
  BY DEF AcksFound
<1> SUFFICES Good'
  BY <1>2
<1> HIDE DEF Open, WritesAfter
<1>4. UNCHANGED <<hash, ackBy, acker, ackHistory>> => Good'
  BY <1>2 DEF ackHistory, Open, WritesAfter
<1>5. ASSUME NEW m \in Msgs, PublishMail(m)
      PROVE  Good'
  <2>1. \A k \in Msgs : Open(k)'
    BY <1>1, <1>2, <1>3, <1>5 DEF PublishMail, Open
  <2>2. \A a \in Ackers : WritesAfter(a)'
    BY <1>2, <1>5 DEF PublishMail, ackHistory, WritesAfter
  <2> QED
    BY <2>1, <2>2
<1>6. ASSUME NEW m \in Msgs, ReadPresence(m) \/ QueueNotification(m) \/ QueueingFails(m)
      PROVE  Good'
  BY <1>4, <1>6 DEF ReadPresence, QueueNotification, QueueingFails
<1>7. ASSUME NEW m \in Msgs, ExpireMessage(m)
      PROVE  Good'
  <2>1. \A k \in Msgs : Open(k)'
    BY <1>1, <1>2, <1>7 DEF ExpireMessage, Open
  <2>2. \A a \in Ackers : WritesAfter(a)'
    BY <1>2, <1>7 DEF ExpireMessage, WritesAfter
  <2> QED
    BY <2>1, <2>2
<1>8. ASSUME NEW a \in Ackers, NEW m \in Msgs, CheckExists(a, m)
      PROVE  Good'
  <2>1. \A k \in Msgs : Open(k)'
    BY <1>2, <1>8 DEF CheckExists, storeVars, Open
  <2>2. \A b \in Ackers : WritesAfter(b)'
    BY <1>1, <1>2, <1>8 DEF CheckExists, storeVars, ackHistory, WritesAfter
  <2> QED
    BY <2>1, <2>2
<1>9. ASSUME NEW a \in Ackers, ReadAck(a)
      PROVE  Good'
  <2>1. /\ UNCHANGED <<hash, ackBy, ackRaced, ackCaught>> /\ acker[a].at = "read"
        /\ acker' = [acker EXCEPT ![a] = IF Acknowledged(acker[a].msg) THEN NoCall ELSE [@ EXCEPT !.at = "write"]]
    BY <1>9 DEF ReadAck, storeVars, ackHistory
  <2>2. \A k \in Msgs : Open(k)'
    BY <1>2, <2>1 DEF Open
  <2>3. \A b \in Ackers : b # a => WritesAfter(b)'
    BY <1>1, <1>2, <2>1 DEF WritesAfter
  <2>4. CASE Acknowledged(acker[a].msg)
    BY <1>1, <2>1, <2>2, <2>3, <2>4 DEF WritesAfter
  <2>5. CASE ~Acknowledged(acker[a].msg)
    <3>1. acker[a].msg \in Msgs /\ hash[acker[a].msg] \in {"open", "expired"}
      BY <1>1, <1>3, <2>1, <2>5 DEF Acknowledged
    <3>2. ackBy[acker[a].msg] = NoAck \/ acker[a].msg \in ackCaught
      BY <1>2, <1>3, <2>1, <3>1 DEF Open
    <3>3. acker'[a].msg = acker[a].msg
      BY <1>1, <2>1, <2>5
    <3> QED
      BY <2>1, <2>2, <2>3, <3>2, <3>3 DEF WritesAfter
  <2> QED
    BY <2>4, <2>5
<1>10. ASSUME NEW a \in Ackers, AckFails(a)
       PROVE  Good'
  <2>1. \A k \in Msgs : Open(k)'
    BY <1>2, <1>10 DEF AckFails, storeVars, Open
  <2>2. \A b \in Ackers : WritesAfter(b)'
    BY <1>1, <1>2, <1>10 DEF AckFails, storeVars, ackHistory, WritesAfter
  <2> QED
    BY <2>1, <2>2
<1>11. ASSUME NEW a \in Ackers, WriteAck(a)
       PROVE  Good'
  <2> DEFINE m == acker[a].msg
  <2>1. m \in Msgs /\ acker[a].at = "write"
    BY <1>1, <1>11 DEF WriteAck
  <2>2. /\ hash' = [hash EXCEPT ![m] = IF @ \in {"open", "acked"} THEN "acked" ELSE "partial"]
        /\ ackBy' = [ackBy EXCEPT ![m] = a] /\ acker' = [acker EXCEPT ![a] = NoCall]
        /\ ackRaced' = IF \E b \in Ackers \ {a} : acker[b] = acker[a] THEN ackRaced \cup {m} ELSE ackRaced
        /\ UNCHANGED ackCaught
    BY <1>11 DEF WriteAck
  <2>3. \A k \in Msgs : Open(k)'
    BY <1>1, <1>2, <2>1, <2>2 DEF Open
  <2>4. ASSUME NEW b \in Ackers, b # a, acker[b].at = "write", acker[b].msg = m
        PROVE  m \in ackRaced'
    <3>1. acker[b] = acker[a]
      BY <1>1, <2>1, <2>4
    <3> QED
      BY <2>2, <2>4, <3>1
  <2>5. \A b \in Ackers : WritesAfter(b)'
    <3> SUFFICES ASSUME NEW b \in Ackers, acker'[b].at = "write", ackBy'[acker'[b].msg] # NoAck
                 PROVE  acker'[b].msg \in ackRaced' \cup ackCaught'
      BY DEF WritesAfter
    <3>1. b # a /\ acker'[b] = acker[b] /\ acker[b].msg \in Msgs
      BY <1>1, <2>2
    <3>2. CASE acker[b].msg = m
      BY <2>4, <3>1, <3>2
    <3>3. CASE acker[b].msg # m
      <4>1. ackBy[acker[b].msg] # NoAck
        BY <1>1, <2>2, <3>1, <3>3
      <4>2. acker[b].msg \in ackRaced \cup ackCaught
        BY <1>2, <3>1, <4>1 DEF WritesAfter
      <4> QED
        BY <2>2, <3>1, <4>2
    <3> QED
      BY <3>2, <3>3
  <2> QED
    BY <2>3, <2>5
<1>12. ASSUME NEW p, NEW f, SetPresence(p, f)
       PROVE  Good'
  BY <1>4, <1>12 DEF SetPresence, storeVars
<1>13. ASSUME NEW on \in BOOLEAN, Listen(on)
       PROVE  Good'
  BY <1>4, <1>13 DEF Listen, storeVars
<1>14. ASSUME (\E limit \in PopLimits : PopNotifications(limit)) \/ PopFails \/ ExpireQueue
       PROVE  Good'
  BY <1>4, <1>14 DEF PopNotifications, PopFails, ExpireQueue, storeVars
<1> QED
  BY <1>5, <1>6, <1>7, <1>8, <1>9, <1>10, <1>11, <1>12, <1>13, <1>14
     DEF MailNext, RegisterInstance, Heartbeat, UnregisterInstance, GrowStale

LEMMA MailKeepsNotifications ==
    ASSUME MailShape, NotificationsKept, MailNext
    PROVE  NotificationsKept'
<1> DEFINE Settled == heard \cup ToSet(queue) \cup overLimit \cup dropped \cup misjudged \cup lapsed
           Moved == /\ Settled \subseteq Settled'
                    /\ \A m \in Msgs \ Broadcasts :
                        publish[m] # "done" /\ publish'[m] = "done" => m \in Settled'
<1>1. /\ \A m \in Msgs \ Broadcasts : publish[m] = "done" => m \in Settled
      /\ publish \in [Msgs -> {"new", "presence", "queue", "done"}]
  BY DEF NotificationsKept, MailShape
<1>2. Moved => NotificationsKept'
  BY <1>1 DEF NotificationsKept
<1>3. UNCHANGED <<publish, hearVars>> => Moved
  BY DEF hearVars
<1>4. ASSUME NEW m \in Msgs, PublishMail(m)
      PROVE  Moved
  BY <1>1, <1>4 DEF PublishMail
<1>5. ASSUME NEW m \in Msgs, ReadPresence(m)
      PROVE  Moved
  BY <1>1, <1>5 DEF ReadPresence, Away
<1>6. ASSUME NEW m \in Msgs, QueueNotification(m)
      PROVE  Moved
  <2>1. ToSet(queue') = {m} \cup ToSet(queue)
    BY <1>6, Notified DEF QueueNotification
  <2> QED
    BY <1>1, <1>6, <2>1 DEF QueueNotification
<1>7. ASSUME NEW m \in Msgs, QueueingFails(m)
      PROVE  Moved
  <2>1. CASE dropped' = dropped \cup {m} /\ UNCHANGED queue
    BY <1>1, <1>7, <2>1 DEF QueueingFails
  <2>2. CASE publish[m] = "queue" /\ queue' = <<m>> \o queue /\ UNCHANGED dropped
    <3>1. ToSet(queue') = {m} \cup ToSet(queue)
      BY <2>2, Notified
    <3> QED
      BY <1>1, <1>7, <2>2, <3>1 DEF QueueingFails
  <2> QED
    BY <1>7, <2>1, <2>2 DEF QueueingFails
<1>8. ASSUME NEW limit \in PopLimits, PopNotifications(limit)
      PROVE  Moved
  <2>1. ToSet(queue) \subseteq Taken(limit) \cup BeyondLimit(limit)
    <3>1. DOMAIN queue \subseteq Nat /\ limit \in Nat
      BY MailAssumption DEF MailShape
    <3> SUFFICES ASSUME NEW n \in DOMAIN queue
                 PROVE  queue[n] \in Taken(limit) \cup BeyondLimit(limit)
      BY DEF ToSet
    <3>2. n <= limit \/ n > limit
      BY <3>1
    <3> QED
      BY <3>2 DEF Taken, BeyondLimit
  <2>2. ToSet(queue') = {}
    BY <1>8, EmptyList DEF PopNotifications
  <2> QED
    BY <1>8, <2>1, <2>2 DEF PopNotifications, storeVars
<1>9. ASSUME PopFails
      PROVE  Moved
  <2>1. ToSet(queue') = {}
    BY <1>9, EmptyList DEF PopFails
  <2> QED
    BY <1>9, <2>1 DEF PopFails, storeVars
<1>10. ASSUME NEW m \in Msgs, ExpireMessage(m)
       PROVE  Moved
  BY <1>3, <1>10 DEF ExpireMessage
<1>11. ASSUME NEW a \in Ackers, NEW m \in Msgs, CheckExists(a, m)
       PROVE  Moved
  BY <1>3, <1>11 DEF CheckExists, storeVars
<1>12. ASSUME NEW a \in Ackers, ReadAck(a) \/ WriteAck(a) \/ AckFails(a)
       PROVE  Moved
  BY <1>3, <1>12 DEF ReadAck, WriteAck, AckFails, storeVars
<1>13. ASSUME NEW p, NEW f, SetPresence(p, f)
       PROVE  Moved
  BY <1>3, <1>13 DEF SetPresence, storeVars
<1>14. ASSUME NEW on \in BOOLEAN, Listen(on)
       PROVE  Moved
  BY <1>3, <1>14 DEF Listen, storeVars
<1>15. ASSUME ExpireQueue
       PROVE  Moved
  <2>1. ToSet(queue') = {}
    BY <1>15, EmptyList DEF ExpireQueue
  <2> QED
    BY <1>15, <2>1 DEF ExpireQueue, storeVars
<1> HIDE DEF Moved
<1>16. Moved
  BY <1>4, <1>5, <1>6, <1>7, <1>8, <1>9, <1>10, <1>11, <1>12, <1>13, <1>14, <1>15
     DEF MailNext, RegisterInstance, Heartbeat, UnregisterInstance, GrowStale
<1> QED
  BY <1>2, <1>16

LEMMA MailAlways == MailSpec => []MailInv
<1>1. MailInv /\ [MailNext]_mailVars => MailInv'
  <2>1. MailInv /\ MailNext => MailInv'
    BY MailKeepsShape, MailKeepsAcks, MailKeepsAnswers, MailKeepsNotifications DEF MailInv
  <2>2. MailInv /\ UNCHANGED mailVars => MailInv'
    <3> SUFFICES ASSUME MailInv, UNCHANGED mailVars
                 PROVE  MailInv'
      OBVIOUS
    <3>1. MailShape'
      BY DEF MailInv, mailVars, MailShape, MailTypeOK, ToSet
    <3>2. AcksFound' /\ AnsweredIsRead'
      BY DEF MailInv, mailVars, AcksFound, AnsweredIsRead
    <3>3. NotificationsKept'
      BY DEF MailInv, mailVars, NotificationsKept, ToSet
    <3>4. PendingIsUnanswered' /\ PartialWasCaught'
      BY DEF MailInv, mailVars, PendingIsUnanswered, PartialWasCaught
    <3> QED
      BY <3>1, <3>2, <3>3, <3>4 DEF MailInv
  <2> QED
    BY <2>1, <2>2
<1> QED
  BY <1>1, MailStart, PTL DEF MailSpec

\* The name on an answered message stays, unless another call had also read the message
\* unanswered (ackRaced) or was under way when the message expired (ackCaught): the write of
\* acknowledge_message does not look again.
THEOREM AnswersStay == MailSpec => AnswerStays
<1> DEFINE Kept == \A m \in Msgs : ackBy[m] # NoAck /\ ackBy'[m] # ackBy[m] => m \in ackRaced \cup ackCaught
<1>1. MailInv /\ [MailNext]_mailVars => Kept
  <2> SUFFICES ASSUME MailInv, [MailNext]_mailVars
               PROVE  Kept
    OBVIOUS
  <2>1. CASE UNCHANGED ackBy
    BY <2>1
  <2>2. ASSUME NEW a \in Ackers, WriteAck(a)
        PROVE  Kept
    <3>1. /\ acker[a].at = "write" /\ ackBy' = [ackBy EXCEPT ![acker[a].msg] = a]
          /\ ackBy \in [Msgs -> Ackers \cup {NoAck}]
          /\ ackBy[acker[a].msg] # NoAck => acker[a].msg \in ackRaced \cup ackCaught
      BY <2>2 DEF WriteAck, MailInv, MailShape, MailTypeOK, AnsweredIsRead
    <3> QED
      BY <3>1
  <2>3. CASE UNCHANGED mailVars
    BY <2>1, <2>3 DEF mailVars
  <2>4. CASE MailNext
    BY <2>1, <2>2, <2>4
       DEF MailNext, RegisterInstance, Heartbeat, UnregisterInstance, GrowStale, SetPresence, Listen,
           PublishMail, ReadPresence, QueueNotification, QueueingFails, ExpireMessage, CheckExists, ReadAck,
           AckFails, PopNotifications, PopFails, ExpireQueue, storeVars
  <2> QED
    BY <2>3, <2>4
<1> QED
  BY <1>1, MailAlways, PTL DEF MailSpec, AnswerStays

-----------------------------------------------------------------------------
(* The queries of the mailbox.                                             *)

QuerySpec == QueryInit /\ [][QueryNext]_queryVars

Letters == [second : Nat, apt : BOOLEAN]
Bodies == {"open", "acked", "gone", "partial"}
Times == [second : Nat, whole : BOOLEAN, after : Nat]
Queries == [at : {"new", "ids", "failed", "done"}, inbox : BOOLEAN, pending : BOOLEAN, sifted : BOOLEAN, since : Times,
            ids : SUBSET Sent, read : SUBSET Sent, answer : SUBSET Sent]

\* Messages are stored in the order of their seconds, none later than now.
QueryShape ==
    /\ sent \in Seq(Letters) /\ body \in Seq(Bodies) /\ Len(body) = Len(sent)
    /\ \A m, n \in Sent : m < n => sent[m].second <= sent[n].second
    /\ \A m \in Sent : sent[m].second <= MaxSecond
    /\ acking \in Nat /\ query \in Queries /\ steady \subseteq Sent

\* What an acknowledgement has found was open; it may have ended since.
FoundWasOpen == acking # 0 => acking \in Sent /\ body[acking] \in {"open", "gone"}

\* A message that is steady is there and as asked for, and the query has it, comes to it, or may miss it:
\* it has too many newer ones, or is of the second within which the moment lies.
NewerThan(m) == Len(sent) - m
Missable(m) ==
    \/ /\ ~query.inbox /\ ~query.pending
       /\ NewerThan(m) >= TimelineSize \/ (query.since = NoMoment /\ NewerThan(m) >= 2 * QueryLimit)
    \/ ~query.since.whole /\ sent[m].second = query.since.second
SteadyIsSeen == \A m \in steady :
    /\ body[m] \in {"open", "acked"}
    /\ query.sifted => sent[m].apt
    /\ m > query.since.after
    /\ query.at = "ids" => m \in query.ids \cup query.read \/ Missable(m)

\* What is to be read, was read or is answered is as asked for.
ReadIsAsked ==
    /\ \A m \in query.ids : query.inbox => sent[m].apt
    /\ \A m \in query.read : (query.inbox => sent[m].apt) /\ (query.sifted => sent[m].apt) /\ m > query.since.after
    /\ query.answer \subseteq query.read

\* What a full answer leaves out is no newer than what it has.
NewestAnswered == query.at = "done" => \A m \in steady \ query.answer :
    \/ Cardinality(query.answer) = QueryLimit /\ \A n \in query.answer : sent[n].second >= sent[m].second
    \/ Missable(m)

NewIsEmpty == query.at = "new" => query.read = {} /\ query.answer = {}

\* The moment of a query lies between the messages before it and those since.
SinceIsBetween ==
    /\ query.since.second <= MaxSecond /\ query.since.after <= Len(sent)
    /\ \A m \in Sent : m > query.since.after => sent[m].second >= query.since.second
    /\ \A m \in Sent : m <= query.since.after => ~NotBefore(m, query.since)

QueryInv ==
    /\ QueryShape /\ SinceIsBetween /\ NewIsEmpty
    /\ FoundWasOpen /\ SteadyIsSeen /\ ReadIsAsked /\ NewestAnswered /\ FailsOnPartial

LEMMA QueryStart == QueryInit => QueryInv
<1> SUFFICES ASSUME QueryInit
             PROVE  QueryInv
  OBVIOUS
<1> DEFINE k == MaxMessages - 1
<1>1. k \in Nat /\ sent \in [1..k -> Letters] /\ body = [m \in Sent |-> "open"]
  BY QueryAssumption DEF QueryInit, Letters
<1> HIDE DEF k
<1>2. sent \in Seq(Letters) /\ Len(sent) = k /\ Len(sent) \in Nat
  BY <1>1
<1>3. body \in Seq(Bodies) /\ Len(body) = Len(sent)
  <2>1. body \in [1..Len(sent) -> Bodies]
    BY <1>1 DEF Sent, Bodies
  <2> QED
    BY <1>2, <2>1
<1>4. /\ query = NoQuery /\ steady = {} /\ acking = 0
      /\ \A m, n \in Sent : m < n => sent[m].second <= sent[n].second
  BY DEF QueryInit
<1>5. \A m \in Sent : sent[m].second <= MaxSecond
  BY QueryAssumption, <1>1, <1>2 DEF QueryInit, Sent
<1>6. query \in Queries
  BY <1>4 DEF NoQuery, NoMoment, Times, Queries
<1>7. QueryShape
  BY <1>2, <1>3, <1>4, <1>5, <1>6 DEF QueryShape
<1>9. SinceIsBetween
  <2>1. query.since.second = 0 /\ query.since.after = 0
    BY <1>4 DEF NoQuery, NoMoment
  <2>2. \A m \in Sent : sent[m] \in Letters /\ m \in Nat /\ m > 0
    <3> HIDE DEF Letters
    <3> QED
      BY <1>2 DEF Sent
  <2>3. \A m \in Sent : sent[m].second \in Nat /\ ~(m <= 0)
    BY <2>2 DEF Letters
  <2> QED
    BY <1>2, <2>1, <2>3, QueryAssumption DEF SinceIsBetween
<1>8. NewIsEmpty /\ FoundWasOpen /\ SteadyIsSeen /\ ReadIsAsked /\ NewestAnswered /\ FailsOnPartial
  BY <1>4 DEF NoQuery, NewIsEmpty, FoundWasOpen, SteadyIsSeen, ReadIsAsked, NewestAnswered, FailsOnPartial
<1> QED
  BY <1>7, <1>8, <1>9 DEF QueryInv

\* The facts of a state that the steps below use.
LEMMA QueryFacts ==
    ASSUME QueryInv
    PROVE  /\ Len(sent) \in Nat /\ Sent = 1..Len(sent) /\ DOMAIN sent = Sent /\ DOMAIN body = Sent /\ Sent \subseteq Nat
           /\ \A m \in Sent : sent[m] \in Letters /\ body[m] \in Bodies
           /\ query.at \in {"new", "ids", "failed", "done"}
           /\ query.inbox \in BOOLEAN /\ query.pending \in BOOLEAN /\ query.sifted \in BOOLEAN /\ query.since \in Times
           /\ query.ids \subseteq Sent /\ query.read \subseteq Sent /\ query.answer \subseteq Sent /\ steady \subseteq Sent
<1>1. sent \in Seq(Letters) /\ body \in Seq(Bodies) /\ Len(body) = Len(sent) /\ query \in Queries /\ steady \subseteq Sent
  BY DEF QueryInv, QueryShape
<1>2. /\ query.at \in {"new", "ids", "failed", "done"}
      /\ query.inbox \in BOOLEAN /\ query.pending \in BOOLEAN /\ query.sifted \in BOOLEAN /\ query.since \in Times
      /\ query.ids \subseteq Sent /\ query.read \subseteq Sent /\ query.answer \subseteq Sent
  BY <1>1 DEF Queries
<1>3. Len(sent) \in Nat /\ Sent = 1..Len(sent) /\ DOMAIN sent = Sent /\ DOMAIN body = Sent /\ Sent \subseteq Nat
  BY <1>1 DEF Sent
<1> HIDE DEF Letters, Bodies
<1>4. \A m \in Sent : sent[m] \in Letters /\ body[m] \in Bodies
  BY <1>1, <1>3
<1> QED
  BY <1>1, <1>2, <1>3, <1>4

LEMMA PublishKeeps ==
    ASSUME QueryInv, NEW apt \in BOOLEAN, PublishMessage(apt)
    PROVE  QueryInv'
<1> DEFINE letter == [second |-> MaxSecond, apt |-> apt]
<1>1. /\ sent' = Append(sent, letter) /\ body' = Append(body, "open")
      /\ UNCHANGED <<acking, query, steady>> /\ letter \in Letters /\ "open" \in Bodies
      /\ letter.second = MaxSecond
  BY QueryAssumption DEF PublishMessage, Letters, Bodies
<1>2. /\ sent \in Seq(Letters) /\ body \in Seq(Bodies) /\ Len(body) = Len(sent) /\ Len(sent) \in Nat
  BY QueryFacts DEF QueryInv, QueryShape
<1> HIDE DEF letter
<1>3. /\ sent' \in Seq(Letters) /\ body' \in Seq(Bodies) /\ Len(body') = Len(sent') /\ Len(sent') = Len(sent) + 1
  BY <1>1, <1>2
<1>4. /\ \A m \in Sent : sent'[m] = sent[m] /\ body'[m] = body[m]
      /\ sent'[Len(sent) + 1] = letter /\ Sent' = Sent \cup {Len(sent) + 1}
      /\ \A m \in Sent : m < Len(sent) + 1
  BY <1>1, <1>2, <1>3 DEF Sent
<1>5. QueryShape'
  <2>1. query' \in Queries'
    BY <1>1, <1>4 DEF QueryInv, QueryShape, Queries
  <2>2. ASSUME NEW m \in Sent'
        PROVE  sent'[m].second <= MaxSecond
    <3>1. CASE m \in Sent
      BY <1>4, <3>1 DEF QueryInv, QueryShape
    <3>2. CASE m = Len(sent) + 1
      BY QueryAssumption, <1>1, <1>4, <3>2
    <3> QED
      BY <1>4, <3>1, <3>2
  <2>3. ASSUME NEW m \in Sent', NEW n \in Sent', m < n
        PROVE  sent'[m].second <= sent'[n].second
    <3>1. m \in Sent
      BY <1>2, <1>4, <2>3 DEF Sent
    <3>2. CASE n \in Sent
      BY <1>4, <2>3, <3>1, <3>2 DEF QueryInv, QueryShape
    <3>3. CASE n = Len(sent) + 1
      BY <1>1, <1>4, <3>1, <3>3 DEF QueryInv, QueryShape
    <3> QED
      BY <1>4, <3>2, <3>3
  <2> QED
    BY <1>1, <1>3, <1>4, <2>1, <2>2, <2>3 DEF QueryInv, QueryShape
<1>6. FoundWasOpen' /\ NewIsEmpty'
  BY <1>1, <1>4 DEF QueryInv, FoundWasOpen, NewIsEmpty
<1>7. \A m \in Sent : Missable(m) => Missable(m)'
  BY QueryAssumption, QueryFacts, <1>1, <1>3, <1>4 DEF Missable, NewerThan
<1>12. SinceIsBetween'
  <2>1. /\ query.since.second \in Nat /\ query.since.after \in Nat /\ UNCHANGED query /\ sent'[Len(sent) + 1].second = MaxSecond
        /\ MaxSecond \in Nat
    BY <1>1, <1>4, QueryFacts, QueryAssumption DEF Times
  <2>2. \A m \in Sent : NotBefore(m, query.since)' <=> NotBefore(m, query.since)
    BY <1>1, <1>4 DEF NotBefore
  <2> QED
    BY <1>2, <1>3, <1>4, <2>1, <2>2 DEF QueryInv, SinceIsBetween
<1>8. SteadyIsSeen'
  <2> SUFFICES ASSUME NEW m \in steady
               PROVE  /\ body'[m] \in {"open", "acked"} /\ (query.sifted => sent'[m].apt) /\ m > query.since.after
                      /\ query.at = "ids" => m \in query.ids \cup query.read \/ Missable(m)'
    BY <1>1 DEF SteadyIsSeen
  <2>1. m \in Sent
    BY QueryFacts
  <2> QED
    BY <1>4, <1>7, <2>1 DEF QueryInv, SteadyIsSeen
<1>9. ReadIsAsked'
  BY <1>1, <1>4, QueryFacts DEF QueryInv, ReadIsAsked
<1>10. NewestAnswered'
  <2> SUFFICES ASSUME query.at = "done", NEW m \in steady \ query.answer
               PROVE  \/ /\ Cardinality(query.answer) = QueryLimit
                         /\ \A n \in query.answer : sent'[n].second >= sent'[m].second
                      \/ Missable(m)'
    BY <1>1 DEF NewestAnswered
  <2>1. m \in Sent /\ \A n \in query.answer : n \in Sent
    BY QueryFacts
  <2> QED
    BY <1>4, <1>7, <2>1 DEF QueryInv, NewestAnswered
<1>11. FailsOnPartial'
  BY <1>1, <1>4 DEF QueryInv, FailsOnPartial
<1> QED
  BY <1>5, <1>6, <1>8, <1>9, <1>10, <1>11, <1>12 DEF QueryInv

\* A step on the body of one message, which leaves it partial or takes it from the steady ones
\* unless it is there afterwards.
LEMMA BodyKeeps ==
    ASSUME QueryInv, NEW m \in Sent, NEW b \in Bodies, body' = [body EXCEPT ![m] = b], UNCHANGED <<sent, query>>,
           steady' \subseteq steady, m \in steady' => b \in {"open", "acked"},
           body[m] = "partial" => b = "partial", acking' \in {0, acking}, FoundWasOpen'
    PROVE  QueryInv'
<1>1. /\ body \in Seq(Bodies) /\ Len(body) = Len(sent) /\ DOMAIN body = Sent /\ Sent' = Sent
  BY QueryFacts DEF QueryInv, QueryShape, Sent
<1>2. /\ body' \in Seq(Bodies) /\ Len(body') = Len(sent)
      /\ \A n \in Sent : body'[n] = IF n = m THEN b ELSE body[n]
  BY <1>1
<1>3. QueryShape'
  BY <1>1, <1>2 DEF QueryInv, QueryShape, Queries
<1>4. \A n : Missable(n) <=> Missable(n)'
  BY DEF Missable, NewerThan
<1>5. SteadyIsSeen'
  <2> SUFFICES ASSUME NEW n \in steady'
               PROVE  /\ body'[n] \in {"open", "acked"} /\ (query.sifted => sent[n].apt) /\ n > query.since.after
                      /\ query.at = "ids" => n \in query.ids \cup query.read \/ Missable(n)
    BY <1>4 DEF SteadyIsSeen
  <2>1. n \in steady /\ n \in Sent
    BY QueryFacts
  <2> QED
    BY <1>2, <2>1 DEF QueryInv, SteadyIsSeen
<1>6. ReadIsAsked' /\ NewIsEmpty' /\ SinceIsBetween'
  BY DEF QueryInv, ReadIsAsked, NewIsEmpty, SinceIsBetween, NotBefore, Sent
<1>7. NewestAnswered'
  BY <1>4 DEF QueryInv, NewestAnswered
<1>8. FailsOnPartial'
  BY <1>1, <1>2 DEF QueryInv, FailsOnPartial
<1> QED
  BY <1>3, <1>5, <1>6, <1>7, <1>8 DEF QueryInv

LEMMA AckKeeps ==
    ASSUME QueryInv, AckMessage
    PROVE  QueryInv'
<1> DEFINE b == IF body[acking] = "gone" THEN "partial" ELSE "acked"
<1>1. /\ acking # 0 /\ acking' = 0 /\ UNCHANGED <<sent, query>>
      /\ body' = [body EXCEPT ![acking] = b] /\ steady' \subseteq steady
  BY DEF AckMessage, Leave1
<1>2. acking \in Sent /\ body[acking] \in {"open", "gone"}
  BY <1>1 DEF QueryInv, FoundWasOpen
<1>3. acking \in steady' => b \in {"open", "acked"}
  BY <1>1 DEF QueryInv, SteadyIsSeen
<1>4. FoundWasOpen'
  BY <1>1 DEF FoundWasOpen
<1>5. b \in Bodies
  BY DEF Bodies
<1> HIDE DEF b
<1> QED
  BY <1>1, <1>2, <1>3, <1>4, <1>5, BodyKeeps

LEMMA VanishKeeps ==
    ASSUME QueryInv, NEW m \in Sent, Vanish(m)
    PROVE  QueryInv'
<1>1. /\ body[m] \in {"open", "acked"} /\ body' = [body EXCEPT ![m] = "gone"] /\ steady' = steady \ {m}
      /\ UNCHANGED <<sent, acking, query>>
  BY DEF Vanish
<1>2. FoundWasOpen'
  BY <1>1, QueryFacts DEF QueryInv, FoundWasOpen, Sent
<1>3. "gone" \in Bodies
  BY DEF Bodies
<1> QED
  BY <1>1, <1>2, <1>3, BodyKeeps

LEMMA FindKeeps ==
    ASSUME QueryInv, NEW m \in Sent, FindMessage(m)
    PROVE  QueryInv'
<1>1. body[m] = "open" /\ acking' = m /\ UNCHANGED <<sent, body, query, steady>>
  BY DEF FindMessage
<1>2. QueryShape'
  BY <1>1, QueryFacts DEF QueryInv, QueryShape, Queries, Sent
<1>3. FoundWasOpen' /\ NewIsEmpty'
  BY <1>1 DEF QueryInv, FoundWasOpen, NewIsEmpty, Sent
<1>4. SteadyIsSeen' /\ ReadIsAsked' /\ NewestAnswered' /\ SinceIsBetween'
  BY <1>1 DEF QueryInv, SteadyIsSeen, ReadIsAsked, NewestAnswered, Missable, NewerThan, SinceIsBetween, NotBefore, Sent
<1>5. FailsOnPartial'
  BY <1>1 DEF QueryInv, FailsOnPartial, Sent
<1> QED
  BY <1>2, <1>3, <1>4, <1>5 DEF QueryInv

LEMMA BeginKeeps ==
    ASSUME QueryInv, NEW asked \in AskedMessages, BeginQuery(asked)
    PROVE  QueryInv'
<1>1. /\ query.at = "new" /\ UNCHANGED <<sent, body, acking>>
      /\ steady' = {m \in Sent : body[m] \in {"open", "acked"} /\ Wanted(asked, m)}
      /\ query' = [query EXCEPT !.at = "ids", !.inbox = asked.inbox, !.pending = asked.pending,
                                !.sifted = asked.sifted, !.since = asked.since, !.ids = IdsOf1(asked)]
  BY DEF BeginQuery
<1>2. /\ asked.inbox \in BOOLEAN /\ asked.pending \in BOOLEAN /\ asked.sifted \in BOOLEAN
      /\ asked.since \in Moments \cup {NoMoment}
  BY DEF AskedMessages
<1>11. asked.since \in Times
  <2>1. CASE asked.since = NoMoment
    BY <2>1 DEF NoMoment, Times
  <2>2. CASE asked.since \in Moments
    <3>1. asked.since \in [second : 1..MaxSecond, whole : BOOLEAN, after : 0..Len(sent)]
      BY <2>2 DEF Moments
    <3>2. 1..MaxSecond \subseteq Nat /\ 0..Len(sent) \subseteq Nat
      BY QueryAssumption, QueryFacts
    <3> QED
      BY <3>1, <3>2 DEF Times
  <2> QED
    BY <1>2, <2>1, <2>2
<1>12. /\ asked.since.second <= MaxSecond /\ asked.since.after <= Len(sent)
       /\ \A m \in Sent : m > asked.since.after => sent[m].second >= asked.since.second
       /\ \A m \in Sent : m <= asked.since.after => ~NotBefore(m, asked.since)
  <2>1. \A m \in Sent : m \in Nat /\ m >= 1 /\ sent[m].second \in Nat
    BY QueryFacts DEF Letters
  <2>2. CASE asked.since = NoMoment
    BY <2>1, <2>2, QueryAssumption, QueryFacts DEF NoMoment
  <2>3. CASE asked.since \in Moments
    <3> DEFINE t == asked.since
    <3>1. /\ t.second \in 1..MaxSecond /\ t.after \in 0..Len(sent)
          /\ \A m \in Sent : m > t.after => sent[m].second >= t.second
          /\ \A m \in 1..t.after : sent[m].second <= t.second /\ (t.whole => sent[m].second # t.second)
      BY <2>3 DEF Moments
    <3> HIDE DEF t
    <3>2. ASSUME NEW m \in Sent, m <= t.after
          PROVE  ~NotBefore(m, t)
      <4>1. m \in 1..t.after
        BY <2>1, <3>1, <3>2
      <4> QED
        BY <2>1, <3>1, <4>1 DEF NotBefore
    <3>3. t.second <= MaxSecond /\ t.after <= Len(sent)
      BY <3>1, QueryAssumption, QueryFacts
    <3> QED
      BY <3>1, <3>2, <3>3 DEF t
  <2> QED
    BY <1>2, <2>2, <2>3
<1>3. IdsOf1(asked) \subseteq Sent
  <2>1. PendingIds \subseteq Sent /\ Newest \subseteq Sent /\ Since(asked.since) \subseteq Sent
    BY DEF PendingIds, Newest, Since, OnTimeline
  <2>2. {m \in Sent : sent[m].apt} \subseteq Sent
    OBVIOUS
  <2> QED
    BY <1>2, <2>1, <2>2 DEF IdsOf1
<1>4. query \in Queries
  BY DEF QueryInv, QueryShape
<1>5. /\ query'.at = "ids" /\ query'.inbox = asked.inbox /\ query'.pending = asked.pending
      /\ query'.sifted = asked.sifted /\ query'.since = asked.since /\ query'.ids = IdsOf1(asked)
      /\ query'.read = query.read /\ query'.answer = query.answer
  BY <1>1, <1>4 DEF Queries
<1>6. query' \in Queries'
  <2>1. IdsOf1(asked) \in SUBSET Sent
    BY <1>3
  <2> HIDE DEF IdsOf1
  <2>2. Sent' = Sent
    BY <1>1 DEF Sent
  <2> QED
    BY <1>1, <1>2, <1>11, <1>4, <2>1, <2>2 DEF Queries
<1>13. SinceIsBetween'
  BY <1>1, <1>5, <1>12 DEF SinceIsBetween, NotBefore, Sent
<1>7. QueryShape'
  BY <1>1, <1>6 DEF QueryInv, QueryShape, Sent
<1>8. FoundWasOpen' /\ FailsOnPartial' /\ NewestAnswered'
  BY <1>1, <1>5 DEF QueryInv, FoundWasOpen, FailsOnPartial, NewestAnswered, Sent
<1>9. SteadyIsSeen'
  <2> SUFFICES ASSUME NEW m \in Sent, body[m] \in {"open", "acked"}, Wanted(asked, m)
               PROVE  /\ asked.sifted => sent[m].apt
                      /\ m > asked.since.after
                      /\ m \in IdsOf1(asked) \/ Missable(m)'
    BY <1>1, <1>5 DEF SteadyIsSeen
  <2>1. (asked.sifted => sent[m].apt) /\ m > asked.since.after
    BY DEF Wanted
  <2>2. CASE asked.inbox
    <3>1. sent[m].apt /\ (asked.pending => m \in PendingIds)
      BY <2>2 DEF Wanted, PendingIds
    <3> QED
      BY <2>1, <2>2, <3>1 DEF IdsOf1
  <2>3. CASE ~asked.inbox /\ asked.pending
    <3>1. m \in PendingIds
      BY <2>3 DEF Wanted, PendingIds
    <3> QED
      BY <2>1, <2>3, <3>1 DEF IdsOf1
  <2>4. CASE ~asked.inbox /\ ~asked.pending
    <3>1. IdsOf1(asked) = IF asked.since = NoMoment THEN Newest ELSE Since(asked.since)
      BY <2>4 DEF IdsOf1
    <3>2. /\ m \in Newest \/ NewerThan(m) >= 2 * QueryLimit \/ NewerThan(m) >= TimelineSize
          /\ m \in Since(asked.since) \/ NewerThan(m) >= TimelineSize
      BY <2>1, QueryFacts, QueryAssumption DEF Newest, Since, OnTimeline, NewerThan
    <3>3. NewerThan(m)' = NewerThan(m)
      BY <1>1 DEF NewerThan
    <3> HIDE DEF NewerThan
    <3> QED
      BY <1>5, <2>1, <2>4, <3>1, <3>2, <3>3 DEF Missable
  <2> QED
    BY <1>2, <2>2, <2>3, <2>4
<1>10. ReadIsAsked'
  <2>1. query.read = {} /\ query.answer = {}
    BY <1>1 DEF QueryInv, NewIsEmpty
  <2>2. asked.inbox => IdsOf1(asked) \subseteq {m \in Sent : sent[m].apt}
    <3>1. ASSUME asked.inbox, asked.pending
          PROVE  IdsOf1(asked) = {m \in Sent : sent[m].apt} \cap PendingIds
      BY <3>1 DEF IdsOf1
    <3>2. ASSUME asked.inbox, ~asked.pending
          PROVE  IdsOf1(asked) = {m \in Sent : sent[m].apt}
      BY <3>2 DEF IdsOf1
    <3> HIDE DEF IdsOf1
    <3> QED
      BY <1>2, <3>1, <3>2
  <2> QED
    BY <1>1, <1>5, <2>1, <2>2 DEF ReadIsAsked
<1> QED
  BY <1>7, <1>8, <1>9, <1>10, <1>13, <1>5 DEF QueryInv, NewIsEmpty

LEMMA ReadKeeps ==
    ASSUME QueryInv, NEW m \in Sent, ReadMessage(m)
    PROVE  QueryInv'
<1>1. /\ query.at = "ids" /\ m \in query.ids /\ UNCHANGED <<sent, body, acking, steady>>
      /\ query' = Read1(m) /\ query \in Queries /\ Sent' = Sent
  BY DEF ReadMessage, QueryInv, QueryShape, Sent
<1>2. \/ body[m] = "gone" /\ query' = [query EXCEPT !.ids = query.ids \ {m}]
      \/ body[m] = "partial" /\ query' = [query EXCEPT !.at = "failed"]
      \/ /\ body[m] \notin {"gone", "partial"}
         /\ query' = [query EXCEPT !.ids = query.ids \ {m},
                                   !.read = IF Fits(m) THEN query.read \cup {m} ELSE query.read]
  BY <1>1 DEF Read1, Passed, Taken1
<1>3. /\ query'.inbox = query.inbox /\ query'.pending = query.pending /\ query'.sifted = query.sifted
      /\ query'.since = query.since
      /\ query'.answer = query.answer
      /\ \/ body[m] = "gone" /\ query'.at = "ids" /\ query'.ids = query.ids \ {m} /\ query'.read = query.read
         \/ body[m] = "partial" /\ query'.at = "failed" /\ query'.ids = query.ids /\ query'.read = query.read
         \/ /\ body[m] \notin {"gone", "partial"} /\ query'.at = "ids" /\ query'.ids = query.ids \ {m}
            /\ query'.read = IF Fits(m) THEN query.read \cup {m} ELSE query.read
  BY <1>1, <1>2 DEF Queries
<1>4. query' \in Queries'
  <2>1. query.ids \ {m} \in SUBSET Sent /\ query.read \cup {m} \in SUBSET Sent
    BY QueryFacts
  <2> QED
    BY <1>1, <1>2, <2>1 DEF Queries
<1>5. QueryShape'
  BY <1>1, <1>4 DEF QueryInv, QueryShape
<1>6. FoundWasOpen' /\ NewestAnswered' /\ NewIsEmpty'
  BY <1>1, <1>3 DEF QueryInv, FoundWasOpen, NewestAnswered, NewIsEmpty
<1>11. SinceIsBetween'
  BY <1>1, <1>3 DEF QueryInv, SinceIsBetween, NotBefore
<1>12. /\ m \in Sent /\ sent[m].second \in Nat /\ query.since.second \in Nat /\ query.since.after \in Nat
       /\ m > query.since.after => sent[m].second >= query.since.second
       /\ m <= query.since.after => ~NotBefore(m, query.since)
  BY QueryFacts DEF QueryInv, SinceIsBetween, Letters, Times
<1>7. \A n : Missable(n) <=> Missable(n)'
  BY <1>1, <1>3 DEF Missable, NewerThan
<1>8. SteadyIsSeen'
  <2> SUFFICES ASSUME NEW n \in steady, query'.at = "ids"
               PROVE  n \in query'.ids \cup query'.read \/ Missable(n)
    BY <1>1, <1>3, <1>7 DEF QueryInv, SteadyIsSeen
  <2>1. /\ body[n] \in {"open", "acked"} /\ (query.sifted => sent[n].apt) /\ n > query.since.after
        /\ n \in query.ids \cup query.read \/ Missable(n)
    BY <1>1 DEF QueryInv, SteadyIsSeen
  <2>2. CASE n = m
    <3>1. CASE NotBefore(m, query.since)
      BY <1>3, <2>1, <2>2, <3>1 DEF Fits
    <3>2. CASE ~NotBefore(m, query.since)
      <4>1. sent[m].second = query.since.second /\ ~query.since.whole
        BY <1>12, <2>1, <2>2, <3>2 DEF NotBefore
      <4> QED
        BY <2>2, <4>1 DEF Missable
    <3> QED
      BY <3>1, <3>2
  <2>3. CASE n # m
    BY <1>3, <2>1, <2>3
  <2> QED
    BY <2>2, <2>3
<1>9. ReadIsAsked'
  <2>1. query.inbox => sent[m].apt
    BY <1>1 DEF QueryInv, ReadIsAsked
  <2>2. \A n \in query'.ids : n \in query.ids
    BY <1>3
  <2>3. \A n \in query'.read : n \in query.read \/ (n = m /\ (query.sifted => sent[m].apt) /\ m > query.since.after)
    <3>1. Fits(m) => (query.sifted => sent[m].apt) /\ m > query.since.after
      <4>1. m \in Nat /\ (m > query.since.after \/ m <= query.since.after)
        BY <1>12, QueryFacts
      <4> QED
        BY <1>12, <4>1 DEF Fits
    <3> QED
      BY <1>3, <3>1
  <2>4. query.answer \subseteq query'.read
    BY <1>3 DEF QueryInv, ReadIsAsked
  <2> QED
    BY <1>1, <1>3, <2>1, <2>2, <2>3, <2>4 DEF QueryInv, ReadIsAsked
<1>10. FailsOnPartial'
  BY <1>1, <1>3 DEF QueryInv, ReadIsAsked, FailsOnPartial
<1> QED
  BY <1>5, <1>6, <1>8, <1>9, <1>10, <1>11 DEF QueryInv

\* The answer: all that was read, or the limit of it and none left out that is newer.
LEMMA LatestIs ==
    ASSUME QueryInv, NEW answer \in Latest(query.read)
    PROVE  /\ answer \subseteq query.read
           /\ \/ answer = query.read
              \/ Cardinality(answer) = QueryLimit
           /\ \A m \in query.read \ answer, n \in answer : sent[n].second >= sent[m].second
<1> DEFINE c == Cardinality(query.read)
<1>1. /\ answer \subseteq query.read /\ Cardinality(answer) = Bound(c)
      /\ \A m \in answer, n \in query.read \ answer : sent[m].second >= sent[n].second
  BY DEF Latest, kSubset
<1>2. IsFiniteSet(query.read)
  <2>1. IsFiniteSet(1..Len(sent)) /\ query.read \subseteq 1..Len(sent)
    BY QueryFacts, FS_Interval
  <2> QED
    BY <2>1, FS_Subset
<1>3. Cardinality(answer) = c => answer = query.read
  BY <1>1, <1>2, FS_Subset
<1>4. Bound(c) = c \/ Bound(c) = QueryLimit
  BY DEF Bound
<1> QED
  BY <1>1, <1>3, <1>4

LEMMA AnswerKeeps ==
    ASSUME QueryInv, NEW answer \in SUBSET Sent, AnswerQuery(answer)
    PROVE  QueryInv'
<1>1. /\ query.at = "ids" /\ query.ids = {} /\ answer \in Latest(query.read)
      /\ query' = [query EXCEPT !.at = "done", !.answer = answer]
      /\ UNCHANGED <<sent, body, acking, steady>> /\ query \in Queries /\ Sent' = Sent
  BY DEF AnswerQuery, QueryInv, QueryShape, Sent
<1>2. /\ query'.at = "done" /\ query'.answer = answer /\ query'.inbox = query.inbox
      /\ query'.pending = query.pending /\ query'.sifted = query.sifted /\ query'.since = query.since
      /\ query'.ids = query.ids /\ query'.read = query.read
  BY <1>1 DEF Queries
<1>3. query' \in Queries'
  BY <1>1 DEF Queries
<1>4. QueryShape'
  BY <1>1, <1>3 DEF QueryInv, QueryShape
<1>5. FoundWasOpen' /\ FailsOnPartial' /\ NewIsEmpty' /\ SinceIsBetween'
  BY <1>1, <1>2 DEF QueryInv, FoundWasOpen, FailsOnPartial, NewIsEmpty, SinceIsBetween, NotBefore
<1>6. \A n : Missable(n) <=> Missable(n)'
  BY <1>1, <1>2 DEF Missable, NewerThan
<1>7. SteadyIsSeen'
  BY <1>1, <1>2 DEF QueryInv, SteadyIsSeen
<1>8. ReadIsAsked'
  BY <1>1, <1>2, LatestIs DEF QueryInv, ReadIsAsked
<1>9. NewestAnswered'
  <2> SUFFICES ASSUME NEW m \in steady \ answer
               PROVE  \/ Cardinality(answer) = QueryLimit /\ \A n \in answer : sent[n].second >= sent[m].second
                      \/ Missable(m)
    BY <1>1, <1>2, <1>6 DEF NewestAnswered
  <2>1. m \in query.read \/ Missable(m)
    BY <1>1 DEF QueryInv, SteadyIsSeen
  <2> QED
    BY <1>1, <2>1, LatestIs
<1> QED
  BY <1>4, <1>5, <1>7, <1>8, <1>9 DEF QueryInv

LEMMA QueryAlways == QuerySpec => []QueryInv
<1>1. QueryInv /\ [QueryNext]_queryVars => QueryInv'
  <2>1. QueryInv /\ QueryNext => QueryInv'
    BY AckKeeps, PublishKeeps, FindKeeps, VanishKeeps, ReadKeeps, BeginKeeps, AnswerKeeps DEF QueryNext
  <2>2. QueryInv /\ UNCHANGED queryVars => QueryInv'
    <3> SUFFICES ASSUME QueryInv, UNCHANGED queryVars
                 PROVE  QueryInv'
      OBVIOUS
    <3>1. QueryShape'
      BY DEF QueryInv, queryVars, QueryShape, Queries, Sent
    <3>2. FoundWasOpen' /\ FailsOnPartial' /\ NewIsEmpty' /\ ReadIsAsked' /\ SinceIsBetween'
      BY DEF QueryInv, queryVars, FoundWasOpen, FailsOnPartial, NewIsEmpty, ReadIsAsked, SinceIsBetween, NotBefore, Sent
    <3>3. SteadyIsSeen' /\ NewestAnswered'
      BY DEF QueryInv, queryVars, SteadyIsSeen, NewestAnswered, Missable, NewerThan
    <3> QED
      BY <3>1, <3>2, <3>3 DEF QueryInv
  <2> QED
    BY <2>1, <2>2
<1> QED
  BY <1>1, QueryStart, PTL DEF QuerySpec

\* The two parts of the invariant, as the run states them.
LEMMA QueryMeans == QueryInv => AnswerHasTheNewest /\ AnswerIsAsked /\ FailsOnPartial
<1> SUFFICES ASSUME QueryInv
             PROVE  AnswerHasTheNewest /\ AnswerIsAsked
  BY DEF QueryInv
<1>1. ASSUME NEW m \in Sent
      PROVE  Cardinality({n \in Sent : n > m}) = NewerThan(m)
  <2>1. Len(sent) \in Nat /\ Sent = 1..Len(sent) /\ m \in 1..Len(sent)
    BY QueryFacts
  <2>2. {n \in Sent : n > m} = (m + 1)..Len(sent)
    BY <2>1
  <2>3. m + 1 \in Int /\ Len(sent) \in Int
    BY <2>1
  <2> DEFINE first == m + 1
             last == Len(sent)
  <2>4. Cardinality(first..last) = IF first > last THEN 0 ELSE last - first + 1
    <3>1. first \in Int /\ last \in Int
      BY <2>3
    <3> HIDE DEF first, last
    <3> QED
      BY <3>1, FS_Interval
  <2>5. (IF first > last THEN 0 ELSE last - first + 1) = Len(sent) - m
    BY <2>1
  <2>6. Cardinality({n \in Sent : n > m}) = Cardinality(first..last)
    BY <2>2
  <2> QED
    BY <2>4, <2>5, <2>6 DEF NewerThan
<1>2. AnswerHasTheNewest
  <2> SUFFICES ASSUME query.at = "done", NEW m \in steady \ query.answer
               PROVE  \/ Cardinality(query.answer) = QueryLimit /\ \A n \in query.answer : sent[n].second >= sent[m].second
                      \/ /\ ~query.inbox /\ ~query.pending
                         /\ NewerThan(m) >= TimelineSize \/ (query.since = NoMoment /\ NewerThan(m) >= 2 * QueryLimit)
                      \/ ~query.since.whole /\ sent[m].second = query.since.second
    BY <1>1, QueryFacts DEF AnswerHasTheNewest
  <2> QED
    BY DEF QueryInv, NewestAnswered, Missable
<1>3. AnswerIsAsked
  BY DEF QueryInv, ReadIsAsked, AnswerIsAsked
<1> QED
  BY <1>2, <1>3

\* A notification is heard or waits, and is lost only by a pop's limit, a command that failed, the end
\* of its list's life or a presence that was taken for one that listens; a message waits for its acknowledgement until it has
\* one; and a query misses what it was asked for only for a cause.
THEOREM MailAlwaysKept == MailSpec /\ QuerySpec => []MailIsKept
<1>1. MailInv /\ QueryInv => MailIsKept
  BY QueryMeans DEF MailInv, MailShape, MailIsKept
<1> QED
  BY <1>1, MailAlways, QueryAlways, PTL

-----------------------------------------------------------------------------
(* The review swarms.                                                      *)

SwarmSpec == SwarmInit /\ [][SwarmNext]_swarmVars

Requests1 == {"new", "refused", "create", "start", "accepted", "failed"}
Backgrounds == {"none", "wait", "aggregate", "gather", "complete", "stamp", "report", "fail", "ended"}

SwarmShape ==
    /\ active \subseteq Swarms /\ IsFiniteSet(active)
    /\ request \in [Swarms -> Requests1] /\ session \in [Swarms -> SessionStatuses]
    /\ report \in [Swarms -> (SUBSET Reviewers) \cup {NoReport}]
    /\ results \in [Swarms -> SUBSET Reviewers] /\ progress \in [Swarms -> SUBSET Reviewers]
    /\ reviewer \in [Swarms -> [Reviewers -> {"none", "running", "stored", "ended"}]]
    /\ background \in [Swarms -> Backgrounds] /\ gathered \in [Swarms -> SUBSET Reviewers]
    /\ overlapped \in BOOLEAN

\* While no two requests overlapped, the one that was admitted has a slot free.
SlotsFree == ~overlapped =>
    /\ \A s, u \in Admitted : s = u
    /\ Cardinality(active) <= MaxActive
    /\ Admitted # {} => Cardinality(active) < MaxActive

\* A reviewer counts as done after its result is stored.
ResultsFirst == \A s \in Swarms :
    /\ \A v \in Reviewers : reviewer[s][v] = "stored" => v \in results[s]
    /\ progress[s] \subseteq results[s] /\ gathered[s] \subseteq results[s]

\* A wait that did not time out found every reviewer done, and what is gathered and reported
\* afterwards is of everyone.
WaitedForAll == \A s \in Swarms :
    /\ report[s] # NoReport => report[s] \subseteq results[s]
    /\ s \notin timedOut =>
        /\ background[s] \in {"aggregate", "gather", "complete", "stamp", "report"} => progress[s] = Reviewers
        /\ background[s] \in {"complete", "stamp", "report"} => gathered[s] = Reviewers
        /\ report[s] # NoReport => report[s] = Reviewers

\* What a session and its report say is as far as the background task is.
SessionsFollow == \A s \in Swarms :
    /\ request[s] # "accepted" => background[s] = "none"
    /\ session[s] = "failed" => background[s] = "ended"
    /\ session[s] = "complete" => background[s] \in {"stamp", "report", "fail", "ended"}
    /\ report[s] # NoReport => background[s] \in {"fail", "ended"}
    /\ background[s] = "fail" => s \in aborted

SwarmInv == SwarmShape /\ SlotsFree /\ ResultsFirst /\ WaitedForAll /\ SessionsFollow

LEMMA SwarmStart == SwarmInit => SwarmInv
<1> SUFFICES ASSUME SwarmInit
             PROVE  SwarmInv
  OBVIOUS
<1>1. SwarmShape
  <2>1. /\ request \in [Swarms -> Requests1] /\ session \in [Swarms -> SessionStatuses]
        /\ background \in [Swarms -> Backgrounds] /\ overlapped \in BOOLEAN
    BY DEF SwarmInit, Requests1, Backgrounds, SessionStatuses
  <2>2. report \in [Swarms -> (SUBSET Reviewers) \cup {NoReport}]
    BY DEF SwarmInit
  <2>3. /\ results \in [Swarms -> SUBSET Reviewers] /\ progress \in [Swarms -> SUBSET Reviewers]
        /\ gathered \in [Swarms -> SUBSET Reviewers]
    BY DEF SwarmInit
  <2>4. reviewer \in [Swarms -> [Reviewers -> {"none", "running", "stored", "ended"}]]
    BY DEF SwarmInit
  <2>5. active \subseteq Swarms /\ IsFiniteSet(active)
    BY FS_EmptySet DEF SwarmInit
  <2> QED
    BY <2>1, <2>2, <2>3, <2>4, <2>5 DEF SwarmShape
<1>2. SlotsFree
  <2>1. Admitted = {}
    BY DEF SwarmInit, Admitted
  <2>2. Cardinality(active) = 0
    BY FS_EmptySet DEF SwarmInit
  <2> QED
    BY <2>1, <2>2, SwarmAssumption DEF SlotsFree
<1>3. ResultsFirst /\ WaitedForAll /\ SessionsFollow
  BY DEF SwarmInit, ResultsFirst, WaitedForAll, SessionsFollow
<1> QED
  BY <1>1, <1>2, <1>3 DEF SwarmInv

LEMMA SlotsKept ==
    ASSUME SwarmInv, IsFiniteSet(active'), Admitted' \subseteq Admitted,
           overlapped' = overlapped, active' \subseteq active
    PROVE  SlotsFree'
<1>1. Cardinality(active) \in Nat /\ Cardinality(active') \in Nat /\ Cardinality(active') <= Cardinality(active)
  BY FS_Subset, FS_CardinalityType DEF SwarmInv, SwarmShape
<1> QED
  BY <1>1, SwarmAssumption DEF SwarmInv, SlotsFree

\* The other parts of the invariant are of one swarm each: what a step leaves alone of a swarm
\* it keeps for it.
SwarmGood(s) ==
    /\ \A v \in Reviewers : reviewer[s][v] = "stored" => v \in results[s]
    /\ progress[s] \subseteq results[s] /\ gathered[s] \subseteq results[s]
    /\ report[s] # NoReport => report[s] \subseteq results[s]
    /\ s \notin timedOut =>
        /\ background[s] \in {"aggregate", "gather", "complete", "stamp", "report"} => progress[s] = Reviewers
        /\ background[s] \in {"complete", "stamp", "report"} => gathered[s] = Reviewers
        /\ report[s] # NoReport => report[s] = Reviewers
    /\ request[s] # "accepted" => background[s] = "none"
    /\ session[s] = "failed" => background[s] = "ended"
    /\ session[s] = "complete" => background[s] \in {"stamp", "report", "fail", "ended"}
    /\ report[s] # NoReport => background[s] \in {"fail", "ended"}
    /\ background[s] = "fail" => s \in aborted

LEMMA SwarmsGood ==
    /\ SwarmInv <=> SwarmShape /\ SlotsFree /\ \A s \in Swarms : SwarmGood(s)
    /\ SwarmInv' <=> SwarmShape' /\ SlotsFree' /\ \A s \in Swarms : SwarmGood(s)'
BY DEF SwarmInv, ResultsFirst, WaitedForAll, SessionsFollow, SwarmGood

\* What a step leaves alone of a swarm.
SameSwarm(s) ==
    /\ request'[s] = request[s] /\ session'[s] = session[s] /\ report'[s] = report[s]
    /\ results'[s] = results[s] /\ progress'[s] = progress[s] /\ reviewer'[s] = reviewer[s]
    /\ background'[s] = background[s] /\ gathered'[s] = gathered[s]
    /\ s \in timedOut => s \in timedOut'
    /\ s \in aborted => s \in aborted'

LEMMA SameStaysGood ==
    ASSUME NEW s \in Swarms, SwarmGood(s), SameSwarm(s)
    PROVE  SwarmGood(s)'
BY DEF SwarmGood, SameSwarm

LEMMA CheckKeeps ==
    ASSUME SwarmInv, NEW s \in Swarms, Check(s)
    PROVE  SwarmInv'
<1>1. /\ request[s] = "new" /\ \E r \in {"refused", "create"} : request' = [request EXCEPT ![s] = r]
      /\ Full => request' = [request EXCEPT ![s] = "refused"]
      /\ overlapped' = (overlapped \/ (~Full /\ Admitted # {}))
      /\ UNCHANGED <<active, session, report, results, progress, reviewer, background, gathered, timedOut, aborted>>
  BY DEF Check, redisVars, taskVars
<1>2. SwarmShape'
  <2>1. request' \in [Swarms -> Requests1]
    BY <1>1 DEF SwarmInv, SwarmShape, Requests1
  <2>2. overlapped' \in BOOLEAN
    BY <1>1, Zenon
  <2> QED
    BY <1>1, <2>1, <2>2 DEF SwarmInv, SwarmShape
<1>3. SlotsFree'
  <2> SUFFICES ASSUME ~overlapped'
               PROVE  SlotsFree'
    BY DEF SlotsFree
  <2>1. ~overlapped /\ (Full \/ Admitted = {})
    BY <1>1
  <2>2. CASE Full
    <3>1. Admitted' = Admitted
      BY <1>1, <2>2 DEF Admitted, SwarmInv, SwarmShape
    <3> QED
      BY <1>1, <2>1, <3>1 DEF SwarmInv, SlotsFree
  <2>3. CASE ~Full /\ Admitted = {}
    <3>1. Admitted' \subseteq {s}
      BY <1>1, <2>3 DEF Admitted, SwarmInv, SwarmShape
    <3>2. Cardinality(active) \in Nat /\ Cardinality(active) < MaxActive
      BY <2>3, FS_CardinalityType, SwarmAssumption DEF Full, SwarmInv, SwarmShape
    <3> QED
      BY <1>1, <3>1, <3>2, SwarmAssumption DEF SlotsFree
  <2> QED
    BY <2>1, <2>2, <2>3
<1>4. ASSUME NEW u \in Swarms
      PROVE  SwarmGood(u)'
  <2>1. SwarmGood(u)
    BY SwarmsGood
  <2>2. CASE u # s
    BY <1>1, <2>1, <2>2, SameStaysGood DEF SameSwarm, SwarmInv, SwarmShape
  <2>3. CASE u = s
    BY <1>1, <2>1, <2>3 DEF SwarmGood, SwarmInv, SwarmShape
  <2> QED
    BY <2>2, <2>3
<1> QED
  BY <1>2, <1>3, <1>4, SwarmsGood

\* A step of the request of one swarm other than its start: the session may be written, the
\* request goes on or fails.
LEMMA RequestKeeps ==
    ASSUME SwarmInv, NEW s \in Swarms, Create(s) \/ RequestFails(s)
    PROVE  SwarmInv'
<1>1. /\ request[s] \in {"create", "start"}
      /\ \E r \in {"start", "failed"} : request' = [request EXCEPT ![s] = r]
      /\ session' = session \/ \E v \in {"pending", "in_progress"} : session' = [session EXCEPT ![s] = v]
      /\ UNCHANGED <<active, report, results, progress, reviewer, background, gathered, timedOut, aborted, overlapped>>
  BY DEF Create, RequestFails, Admitted, taskVars, historyVars
<1>2. SwarmShape'
  <2>1. request' \in [Swarms -> Requests1] /\ session' \in [Swarms -> SessionStatuses]
    BY <1>1 DEF SwarmInv, SwarmShape, Requests1, SessionStatuses
  <2> QED
    BY <1>1, <2>1 DEF SwarmInv, SwarmShape
<1>3. Admitted' \subseteq Admitted
  BY <1>1 DEF Admitted, SwarmInv, SwarmShape
<1>4. SlotsFree'
  BY <1>1, <1>2, <1>3, SlotsKept DEF SwarmShape
<1>5. ASSUME NEW u \in Swarms
      PROVE  SwarmGood(u)'
  <2>1. SwarmGood(u)
    BY SwarmsGood
  <2>2. CASE u # s
    BY <1>1, <2>1, <2>2, SameStaysGood DEF SameSwarm, SwarmInv, SwarmShape
  <2>3. CASE u = s
    BY <1>1, <2>1, <2>3 DEF SwarmGood, SwarmInv, SwarmShape
  <2> QED
    BY <2>2, <2>3
<1> QED
  BY <1>2, <1>4, <1>5, SwarmsGood

LEMMA StartKeeps ==
    ASSUME SwarmInv, NEW s \in Swarms, Start(s)
    PROVE  SwarmInv'
<1>1. /\ request[s] = "start" /\ request' = [request EXCEPT ![s] = "accepted"]
      /\ session' = [session EXCEPT ![s] = "in_progress"]
      /\ reviewer' = [reviewer EXCEPT ![s] = [v \in Reviewers |-> "running"]]
      /\ active' = active \cup {s} /\ background' = [background EXCEPT ![s] = "wait"]
      /\ UNCHANGED <<report, results, progress, gathered, timedOut, aborted, overlapped>>
  BY DEF Start, historyVars
<1>2. SwarmShape'
  <2>1. request' \in [Swarms -> Requests1] /\ session' \in [Swarms -> SessionStatuses]
    BY <1>1 DEF SwarmInv, SwarmShape, Requests1, SessionStatuses
  <2>2. background' \in [Swarms -> Backgrounds]
    BY <1>1 DEF SwarmInv, SwarmShape, Backgrounds
  <2>3. reviewer' \in [Swarms -> [Reviewers -> {"none", "running", "stored", "ended"}]]
    BY <1>1 DEF SwarmInv, SwarmShape
  <2>4. active' \subseteq Swarms /\ IsFiniteSet(active')
    BY <1>1, FS_AddElement DEF SwarmInv, SwarmShape
  <2> QED
    BY <1>1, <2>1, <2>2, <2>3, <2>4 DEF SwarmInv, SwarmShape
<1>3. SlotsFree'
  <2> SUFFICES ASSUME ~overlapped
               PROVE  SlotsFree'
    BY <1>1 DEF SlotsFree
  <2>1. s \in Admitted /\ Admitted \subseteq {s} /\ Cardinality(active) < MaxActive
    BY <1>1 DEF Admitted, SwarmInv, SlotsFree
  <2>2. Admitted' = {}
    BY <1>1, <2>1 DEF Admitted, SwarmInv, SwarmShape
  <2>3. Cardinality(active) \in Nat /\ Cardinality(active') <= Cardinality(active) + 1 /\ Cardinality(active') \in Nat
    <3>1. IsFiniteSet(active) /\ active' = active \cup {s}
      BY <1>1 DEF SwarmInv, SwarmShape
    <3>2. Cardinality(active) \in Nat
      BY <3>1, FS_CardinalityType
    <3>3. Cardinality(active \cup {s}) = IF s \in active THEN Cardinality(active) ELSE Cardinality(active) + 1
      BY <3>1, FS_AddElement
    <3> QED
      BY <3>1, <3>2, <3>3
  <2> QED
    BY <1>1, <2>1, <2>2, <2>3, SwarmAssumption DEF SlotsFree
<1>4. ASSUME NEW u \in Swarms
      PROVE  SwarmGood(u)'
  <2>1. SwarmGood(u)
    BY SwarmsGood
  <2>2. CASE u # s
    BY <1>1, <2>1, <2>2, SameStaysGood DEF SameSwarm, SwarmInv, SwarmShape
  <2>3. CASE u = s
    BY <1>1, <2>1, <2>3 DEF SwarmGood, SwarmInv, SwarmShape
  <2> QED
    BY <2>2, <2>3
<1> QED
  BY <1>2, <1>3, <1>4, SwarmsGood

\* A reviewer's step: results and progress grow, and a result is there before its reviewer is
\* stored or done.
LEMMA ReviewerKeeps ==
    ASSUME SwarmInv, NEW s \in Swarms, NEW v \in Reviewers, StoreResult(s, v) \/ MarkDone(s, v) \/ StoreFails(s, v)
    PROVE  SwarmInv'
<1>1. /\ \E r \in {"stored", "ended"} :
            /\ reviewer' = [reviewer EXCEPT ![s][v] = r]
            /\ r = "stored" => results' = [results EXCEPT ![s] = @ \cup {v}]
      /\ results' = results \/ results' = [results EXCEPT ![s] = @ \cup {v}]
      /\ \/ progress' = progress
         \/ reviewer[s][v] = "stored" /\ progress' = [progress EXCEPT ![s] = @ \cup {v}]
      /\ UNCHANGED <<active, request, session, report, background, gathered, timedOut, aborted, overlapped>>
  BY DEF StoreResult, MarkDone, StoreFails, historyVars
<1>2. /\ results \in [Swarms -> SUBSET Reviewers] /\ progress \in [Swarms -> SUBSET Reviewers]
      /\ reviewer \in [Swarms -> [Reviewers -> {"none", "running", "stored", "ended"}]]
  BY DEF SwarmInv, SwarmShape
<1>3. SwarmShape'
  <2>1. /\ results' \in [Swarms -> SUBSET Reviewers]
        /\ progress' \in [Swarms -> SUBSET Reviewers]
    <3>1. results' \in [Swarms -> SUBSET Reviewers]
      BY <1>1, <1>2
    <3>2. progress' \in [Swarms -> SUBSET Reviewers]
      BY <1>1, <1>2
    <3> QED
      BY <3>1, <3>2
  <2>2. reviewer' \in [Swarms -> [Reviewers -> {"none", "running", "stored", "ended"}]]
    BY <1>1, <1>2
  <2> QED
    BY <1>1, <2>1, <2>2 DEF SwarmInv, SwarmShape
<1>4. SlotsFree'
  BY <1>1 DEF SwarmInv, SlotsFree, Admitted
<1>5. ASSUME NEW u \in Swarms
      PROVE  SwarmGood(u)'
  <2>1. SwarmGood(u)
    BY SwarmsGood
  <2>2. CASE u # s
    BY <1>1, <1>2, <2>1, <2>2, SameStaysGood DEF SameSwarm
  <2>3. CASE u = s
    <3>1. /\ results[s] \subseteq results'[s] /\ progress[s] \subseteq progress'[s]
          /\ progress[s] \subseteq results[s] /\ results'[s] \subseteq Reviewers /\ progress'[s] \subseteq Reviewers
      BY <1>1, <1>2, <2>1, <2>3 DEF SwarmGood
    <3>2. /\ \A w \in Reviewers : reviewer'[s][w] = "stored" => w \in results'[s]
          /\ progress'[s] \subseteq results'[s]
      BY <1>1, <1>2, <2>1, <2>3 DEF SwarmGood
    <3>3. progress[s] = Reviewers => progress'[s] = Reviewers
      BY <3>1
    <3> HIDE DEF SwarmGood
    <3> QED
      BY <1>1, <2>1, <2>3, <3>1, <3>2, <3>3 DEF SwarmGood
  <2> QED
    BY <2>2, <2>3
<1> QED
  BY <1>3, <1>4, <1>5, SwarmsGood

LEMMA WaitKeeps ==
    ASSUME SwarmInv, NEW s \in Swarms, Wait(s)
    PROVE  SwarmInv'
<1>1. /\ background[s] = "wait" /\ background' = [background EXCEPT ![s] = "aggregate"]
      /\ (Reviewers \subseteq progress[s] /\ timedOut' = timedOut) \/ timedOut' = timedOut \cup {s}
      /\ UNCHANGED <<active, request, session, report, results, progress, reviewer, gathered, aborted, overlapped>>
  BY DEF Wait, EveryoneDone, redisVars
<1>2. SwarmShape'
  <2>1. background' \in [Swarms -> Backgrounds]
    BY <1>1 DEF SwarmInv, SwarmShape, Backgrounds
  <2> QED
    BY <1>1, <2>1 DEF SwarmInv, SwarmShape
<1>3. SlotsFree'
  BY <1>1 DEF SwarmInv, SlotsFree, Admitted
<1>4. ASSUME NEW u \in Swarms
      PROVE  SwarmGood(u)'
  <2>1. SwarmGood(u)
    BY SwarmsGood
  <2>2. CASE u # s
    BY <1>1, <2>1, <2>2, SameStaysGood DEF SameSwarm, SwarmInv, SwarmShape
  <2>3. CASE u = s
    <3>1. background'[s] = "aggregate" /\ progress[s] \subseteq Reviewers
      BY <1>1 DEF SwarmInv, SwarmShape
    <3> QED
      BY <1>1, <2>1, <2>3, <3>1 DEF SwarmGood
  <2> QED
    BY <2>2, <2>3
<1> QED
  BY <1>2, <1>3, <1>4, SwarmsGood

\* A command of the background task, whether or not it raised: a report is of what was gathered,
\* and a status is written at its step.
LEMMA BackgroundKeeps ==
    ASSUME SwarmInv, NEW s \in Swarms, Advance(s) \/ BackgroundFails(s)
    PROVE  SwarmInv'
<1> DEFINE b == background[s]
           Writes1 == \/ b = "aggregate" /\ session' = [session EXCEPT ![s] = "aggregating"] /\ UNCHANGED <<report, gathered>>
                      \/ b = "gather" /\ gathered' = [gathered EXCEPT ![s] = results[s]] /\ UNCHANGED <<session, report>>
                      \/ b = "complete" /\ session' = [session EXCEPT ![s] = "complete"] /\ UNCHANGED <<report, gathered>>
                      \/ b = "report" /\ report' = [report EXCEPT ![s] = gathered[s]] /\ UNCHANGED <<session, gathered>>
                      \/ b = "fail" /\ session' = [session EXCEPT ![s] = "failed"] /\ UNCHANGED <<report, gathered>>
                      \/ b \in {"wait", "stamp"} /\ UNCHANGED <<session, report, gathered>>
           Raised == /\ background' = [background EXCEPT ![s] = IF b = "fail" THEN "ended" ELSE "fail"]
                     /\ aborted' = aborted \cup {s} /\ (Writes1 \/ UNCHANGED <<session, report, gathered>>)
           Went == /\ background' = [background EXCEPT ![s] = Following(b)] /\ b # "wait"
                   /\ UNCHANGED aborted /\ Writes1
<1>1. /\ background \in [Swarms -> Backgrounds] /\ session \in [Swarms -> SessionStatuses]
      /\ report \in [Swarms -> (SUBSET Reviewers) \cup {NoReport}] /\ results \in [Swarms -> SUBSET Reviewers]
      /\ gathered \in [Swarms -> SUBSET Reviewers] /\ progress \in [Swarms -> SUBSET Reviewers]
      /\ active \subseteq Swarms /\ IsFiniteSet(active)
  BY DEF SwarmInv, SwarmShape
<1>2. /\ b \in {"wait", "aggregate", "gather", "complete", "stamp", "report", "fail"}
      /\ active' = active \/ active' = active \ {s}
      /\ UNCHANGED <<request, results, progress, reviewer, timedOut, overlapped>>
  BY <1>1 DEF Advance, BackgroundFails, Leave, historyVars, Backgrounds
<1>3. Command(s) => Writes1
  <2>1. session = [session EXCEPT ![s] = session[s]]
    BY <1>1
  <2> QED
    BY <1>2, <2>1 DEF Command
<1>4. Raised \/ Went
  <2>1. CASE Advance(s)
    BY <1>3, <2>1 DEF Advance, Leave, historyVars
  <2>2. CASE BackgroundFails(s)
    BY <1>3, <2>2 DEF BackgroundFails, Leave
  <2> QED
    BY <2>1, <2>2
<1>5. /\ background' \in [Swarms -> Backgrounds] /\ session' \in [Swarms -> SessionStatuses]
      /\ report' \in [Swarms -> (SUBSET Reviewers) \cup {NoReport}]
      /\ gathered' \in [Swarms -> SUBSET Reviewers]
  <2>1. background' \in [Swarms -> Backgrounds]
    BY <1>1, <1>2, <1>4 DEF Backgrounds, Following
  <2>2. session' \in [Swarms -> SessionStatuses]
    BY <1>1, <1>4 DEF SessionStatuses
  <2>3. report' \in [Swarms -> (SUBSET Reviewers) \cup {NoReport}] /\ gathered' \in [Swarms -> SUBSET Reviewers]
    BY <1>1, <1>4
  <2> QED
    BY <2>1, <2>2, <2>3
<1>6. active' \subseteq active /\ IsFiniteSet(active')
  BY <1>1, <1>2, FS_Subset
<1>7. SwarmShape'
  BY <1>1, <1>2, <1>5, <1>6 DEF SwarmInv, SwarmShape
<1>8. SlotsFree'
  BY <1>2, <1>6, SlotsKept DEF Admitted
<1>9. ASSUME NEW u \in Swarms, u # s
      PROVE  SwarmGood(u)'
  <2>1. SwarmGood(u)
    BY SwarmsGood
  <2>2. SameSwarm(u)
    BY <1>1, <1>2, <1>4, <1>9 DEF SameSwarm
  <2> QED
    BY <2>1, <2>2, SameStaysGood
<1>10. SwarmGood(s) /\ gathered[s] \subseteq Reviewers /\ results[s] \subseteq Reviewers /\ b = background[s]
  BY <1>1, SwarmsGood
<1> HIDE DEF b
<1>11. CASE Raised
  <2>1. /\ background'[s] = IF b = "fail" THEN "ended" ELSE "fail"
        /\ s \in aborted'
    BY <1>1, <1>11
  <2>2. /\ session'[s] = session[s] \/ (b = "aggregate" /\ session'[s] = "aggregating")
           \/ (b = "complete" /\ session'[s] = "complete") \/ (b = "fail" /\ session'[s] = "failed")
        /\ report'[s] = report[s] \/ (b = "report" /\ report'[s] = gathered[s])
        /\ gathered'[s] = gathered[s] \/ (b = "gather" /\ gathered'[s] = results[s])
    BY <1>1, <1>11
  <2>3. SwarmGood(s)'
    BY <1>2, <1>10, <2>1, <2>2 DEF SwarmGood
  <2> QED
    BY <1>7, <1>8, <1>9, <2>3, SwarmsGood
<1>12. CASE Went
  <2>1. background'[s] = Following(b) /\ aborted' = aborted
    BY <1>1, <1>12
  <2>2. /\ \/ session'[s] = session[s] /\ b \notin {"aggregate", "complete", "fail"}
           \/ b = "aggregate" /\ session'[s] = "aggregating"
           \/ b = "complete" /\ session'[s] = "complete"
           \/ b = "fail" /\ session'[s] = "failed"
        /\ (b # "report" /\ report'[s] = report[s]) \/ (b = "report" /\ report'[s] = gathered[s])
        /\ (b # "gather" /\ gathered'[s] = gathered[s]) \/ (b = "gather" /\ gathered'[s] = results[s])
    BY <1>1, <1>12
  <2>3. SwarmGood(s)'
    <3>1. CASE b = "aggregate"
      BY <1>2, <1>10, <2>1, <2>2, <3>1 DEF SwarmGood, Following
    <3>2. CASE b = "gather"
      <4>1. background'[s] = "complete"
        BY <2>1, <3>2 DEF Following
      <4>2. session'[s] = session[s] /\ report'[s] = report[s] /\ gathered'[s] = results[s]
        BY <2>2, <3>2
      <4> QED
        BY <1>2, <1>10, <2>1, <3>2, <4>1, <4>2 DEF SwarmGood
    <3>3. CASE b \in {"complete", "stamp"}
      BY <1>2, <1>10, <2>1, <2>2, <3>3 DEF SwarmGood, Following
    <3>4. CASE b \in {"report", "fail"}
      BY <1>2, <1>10, <2>1, <2>2, <3>4 DEF SwarmGood, Following
    <3> QED
      BY <1>2, <1>12, <3>1, <3>2, <3>3, <3>4
  <2> QED
    BY <1>7, <1>8, <1>9, <2>3, SwarmsGood
<1> QED
  BY <1>4, <1>11, <1>12

LEMMA CrashKeeps ==
    ASSUME SwarmInv, CrashSwarms
    PROVE  SwarmInv'
<1>1. /\ active' = {} /\ UNCHANGED <<session, report, results, progress, gathered, timedOut, overlapped>>
      /\ request' = [s \in Swarms |-> IF s \in Admitted THEN "failed" ELSE request[s]]
      /\ reviewer' = [s \in Swarms |-> [v \in Reviewers |-> IF reviewer[s][v] = "none" THEN "none" ELSE "ended"]]
      /\ background' = [s \in Swarms |-> IF background[s] = "none" THEN "none" ELSE "ended"]
      /\ aborted \subseteq aborted'
  BY DEF CrashSwarms, redisVars
<1>2. SwarmShape'
  <2>1. request' \in [Swarms -> Requests1]
    BY <1>1 DEF SwarmInv, SwarmShape, Requests1
  <2>2. background' \in [Swarms -> Backgrounds]
    BY <1>1 DEF SwarmInv, SwarmShape, Backgrounds
  <2>3. reviewer' \in [Swarms -> [Reviewers -> {"none", "running", "stored", "ended"}]]
    BY <1>1 DEF SwarmInv, SwarmShape
  <2> QED
    BY <1>1, <2>1, <2>2, <2>3, FS_EmptySet DEF SwarmInv, SwarmShape
<1>3. SlotsFree'
  <2>1. Admitted' \subseteq Admitted
    BY <1>1 DEF Admitted, SwarmInv, SwarmShape
  <2> QED
    BY <1>1, <2>1, FS_EmptySet, SlotsKept
<1>4. ASSUME NEW s \in Swarms
      PROVE  SwarmGood(s)'
  <2>1. SwarmGood(s) /\ request[s] \in Requests1 /\ background[s] \in Backgrounds
    BY SwarmsGood DEF SwarmInv, SwarmShape
  <2>2. /\ \A v \in Reviewers : reviewer'[s][v] # "stored"
        /\ background'[s] = IF background[s] = "none" THEN "none" ELSE "ended"
        /\ request'[s] # "accepted" => request[s] # "accepted"
    BY <1>1 DEF Admitted
  <2> QED
    BY <1>1, <2>1, <2>2 DEF SwarmGood
<1> QED
  BY <1>2, <1>3, <1>4, SwarmsGood

LEMMA SwarmAlways == SwarmSpec => []SwarmInv
<1>1. SwarmInv /\ [SwarmNext]_swarmVars => SwarmInv'
  <2>1. SwarmInv /\ SwarmNext => SwarmInv'
    BY CheckKeeps, RequestKeeps, StartKeeps, ReviewerKeeps, WaitKeeps, BackgroundKeeps, CrashKeeps
       DEF SwarmNext, SwarmProgress
  <2>2. SwarmInv /\ UNCHANGED swarmVars => SwarmInv'
    BY DEF SwarmInv, SwarmShape, SlotsFree, Admitted, ResultsFirst, WaitedForAll, SessionsFollow, swarmVars
  <2> QED
    BY <2>1, <2>2
<1> QED
  BY <1>1, SwarmStart, PTL DEF SwarmSpec

\* A session that has ended keeps its status and its report, but for a completed swarm that a
\* command which raised made a failed one.
THEOREM SessionsStay == SwarmSpec => EndedStays
<1> DEFINE StaysEnded(s) ==
             /\ session[s] = "failed" => session'[s] = "failed"
             /\ session[s] = "complete" /\ session'[s] # "complete" => session'[s] = "failed" /\ s \in aborted'
             /\ report[s] # NoReport => report'[s] = report[s]
<1>1. ASSUME SwarmInv, [SwarmNext]_swarmVars, NEW s \in Swarms
      PROVE  StaysEnded(s)
  <2>1. /\ SwarmGood(s) /\ session \in [Swarms -> SessionStatuses]
        /\ report \in [Swarms -> (SUBSET Reviewers) \cup {NoReport}]
    BY <1>1, SwarmsGood DEF SwarmInv, SwarmShape
  <2>2. CASE session'[s] = session[s] /\ report'[s] = report[s]
    BY <2>2
  <2>3. ASSUME NEW u \in Swarms, Create(u) \/ Start(u) \/ RequestFails(u)
        PROVE  StaysEnded(s)
    <3>1. /\ request[u] # "accepted" /\ report' = report
          /\ session' = session \/ \E v : session' = [session EXCEPT ![u] = v]
      BY <2>3 DEF Create, Start, RequestFails, Admitted
    <3>2. session'[s] = session[s] \/ s = u
      BY <2>1, <3>1
    <3> QED
      BY <2>1, <3>1, <3>2 DEF SwarmGood
  <2>4. ASSUME NEW u \in Swarms, Advance(u) \/ BackgroundFails(u)
        PROVE  StaysEnded(s)
    <3>1. /\ background[u] \notin {"none", "ended"}
          /\ Command(u) \/ UNCHANGED <<session, report>>
          /\ aborted \subseteq aborted'
      BY <2>4 DEF Advance, BackgroundFails, historyVars
    <3>2. CASE Command(u)
      <4>1. s # u => session'[s] = session[s] /\ report'[s] = report[s]
        BY <2>1, <3>2 DEF Command
      <4>2. s = u => /\ background[s] # "report" => report'[s] = report[s]
                     /\ background[s] \notin {"aggregate", "complete", "fail"} => session'[s] = session[s]
                     /\ background[s] = "fail" => session'[s] = "failed"
        BY <2>1, <3>2 DEF Command
      <4> QED
        BY <2>1, <3>1, <4>1, <4>2 DEF SwarmGood
    <3> QED
      BY <3>1, <3>2
  <2>5. CASE UNCHANGED swarmVars
    BY <2>2, <2>5 DEF swarmVars
  <2>6. CASE SwarmNext
    <3>1. ASSUME NEW u \in Swarms, Check(u) \/ Wait(u) \/ \E v \in Reviewers : StoreResult(u, v) \/ MarkDone(u, v) \/ StoreFails(u, v)
          PROVE  StaysEnded(s)
      BY <2>2, <3>1 DEF Check, Wait, StoreResult, MarkDone, StoreFails, redisVars
    <3>2. CASE CrashSwarms
      BY <2>2, <3>2 DEF CrashSwarms, redisVars
    <3> HIDE DEF StaysEnded
    <3> QED
      BY <2>3, <2>4, <2>6, <3>1, <3>2 DEF SwarmNext, SwarmProgress
  <2> QED
    BY <1>1, <2>5, <2>6
<1>2. SwarmInv /\ [SwarmNext]_swarmVars => \A s \in Swarms : StaysEnded(s)
  BY <1>1
<1> QED
  BY <1>2, SwarmAlways, PTL DEF SwarmSpec, EndedStays


-----------------------------------------------------------------------------
(* The explorations of the RLM orchestrator.                               *)

RlmSpec == RlmInit /\ [][RlmNext]_rlmVars

RlmShape ==
    /\ RlmTypeOK
    /\ exploring \in [Explorations -> {"new", "iterating", "paused", "ended"}]
    /\ spent \in Nat /\ answered \in [Prompts -> Nat] /\ carried \in BOOLEAN

\* One exploration at most is inside an iteration, which it began with iterations left.
OneIterates ==
    /\ \A e, f \in Explorations : exploring[e] = "iterating" /\ exploring[f] = "iterating" => e = f
    /\ \A e \in Explorations : exploring[e] = "iterating" => iteration[e] < MaxIterations

\* What an iteration spends is in the counters while it runs; between iterations the counter
\* of the iteration is at zero, or was left by one that raised.
CallsCounted ==
    /\ ~LoopFree => spent <= iterationUsed
    /\ iterationUsed <= MaxPerIteration
    /\ LoopFree /\ iterationUsed > 0 => carried

CacheAnswers == \A p \in Prompts : answered[p] = IF p \in cached THEN 1 ELSE 0

RlmInv == RlmShape /\ OneIterates /\ CallsCounted /\ CacheAnswers /\ BudgetKept

LEMMA RlmStart == RlmInit => RlmInv
<1> SUFFICES ASSUME RlmInit
             PROVE  RlmInv
  OBVIOUS
<1>1. rlmResult \in [Explorations -> {"none", "success", "budget", "timeout", "error"}]
  BY DEF RlmInit
<1>2. RlmShape
  <2>1. exploring \in [Explorations -> {"new", "iterating", "paused", "ended"}] /\ carried \in BOOLEAN
    BY DEF RlmInit
  <2>2. /\ iteration \in [Explorations -> 0..MaxIterations] /\ cached \subseteq Prompts
        /\ toolCalls \in 0..MaxToolCalls /\ {totalUsed, iterationUsed} \subseteq Nat
        /\ spent \in Nat /\ answered \in [Prompts -> Nat]
    BY RlmAssumption DEF RlmInit
  <2> QED
    BY <1>1, <2>1, <2>2 DEF RlmShape, RlmTypeOK
<1>3. OneIterates /\ CallsCounted /\ CacheAnswers /\ BudgetKept
  BY RlmAssumption DEF RlmInit, OneIterates, CallsCounted, CacheAnswers, BudgetKept
<1> QED
  BY <1>2, <1>3 DEF RlmInv

LEMMA RlmStep == RlmInv /\ RlmNext => RlmInv'
<1> SUFFICES ASSUME RlmInv, RlmNext
             PROVE  RlmInv'
  OBVIOUS
<1> USE RlmAssumption
<1>1. /\ RlmShape /\ OneIterates /\ CallsCounted /\ CacheAnswers /\ BudgetKept
      /\ rlmResult \in [Explorations -> {"none", "success", "budget", "timeout", "error"}]
      /\ iteration \in [Explorations -> 0..MaxIterations] /\ cached \subseteq Prompts
      /\ toolCalls \in 0..MaxToolCalls /\ totalUsed \in Nat /\ iterationUsed \in Nat
      /\ exploring \in [Explorations -> {"new", "iterating", "paused", "ended"}]
      /\ spent \in Nat /\ answered \in [Prompts -> Nat] /\ carried \in BOOLEAN
  BY DEF RlmInv, RlmShape, RlmTypeOK
<1>2. ASSUME NEW e \in Explorations, BeginIteration(e)
      PROVE  RlmInv'
  <2>1. /\ exploring[e] \in {"new", "paused"} /\ LoopFree
        /\ toolCalls' = 0 /\ spent' = 0
        /\ UNCHANGED <<iteration, found, totalUsed, iterationUsed, cached, answered, carried>>
    BY <1>2 DEF BeginIteration
  <2>2. \/ /\ \E r \in {"success", "budget"} : rlmResult' = [rlmResult EXCEPT ![e] = r]
           /\ exploring' = [exploring EXCEPT ![e] = "ended"]
        \/ /\ iteration[e] # MaxIterations /\ exploring' = [exploring EXCEPT ![e] = "iterating"]
           /\ UNCHANGED rlmResult
    BY <1>2 DEF BeginIteration, EndsAs, IterationsDone
  <2>3. RlmShape'
    BY <1>1, <2>1, <2>2 DEF RlmShape, RlmTypeOK
  <2>4. OneIterates'
    BY <1>1, <2>1, <2>2 DEF OneIterates, LoopFree
  <2>5. CallsCounted'
    BY <1>1, <2>1, <2>2 DEF CallsCounted, LoopFree
  <2>6. CacheAnswers' /\ BudgetKept'
    BY <1>1, <2>1 DEF CacheAnswers, BudgetKept
  <2> QED
    BY <2>3, <2>4, <2>5, <2>6 DEF RlmInv
<1>3. ASSUME NEW e \in Explorations, NEW p \in Prompts, LlmQuery(e, p)
      PROVE  RlmInv'
  <2>1. /\ exploring[e] = "iterating" /\ toolCalls < MaxToolCalls /\ toolCalls' = toolCalls + 1
        /\ UNCHANGED <<exploring, iteration, found, rlmResult, carried>>
    BY <1>3 DEF LlmQuery
  <2>2. OneIterates' /\ ~LoopFree /\ ~LoopFree'
    BY <1>1, <2>1 DEF OneIterates, LoopFree
  <2>3. CASE UNCHANGED budgetVars
    <3>1. RlmShape'
      BY <1>1, <2>1, <2>3 DEF RlmShape, RlmTypeOK, budgetVars
    <3>2. CallsCounted' /\ CacheAnswers' /\ BudgetKept'
      BY <1>1, <2>2, <2>3 DEF CallsCounted, CacheAnswers, BudgetKept, budgetVars
    <3> QED
      BY <2>2, <3>1, <3>2 DEF RlmInv
  <2>4. CASE /\ CanMakeCall /\ p \notin cached
             /\ totalUsed' = totalUsed + 1 /\ iterationUsed' = iterationUsed + 1 /\ spent' = spent + 1
             /\ \/ Keep(p) /\ answered' = [answered EXCEPT ![p] = @ + 1]
                \/ UNCHANGED <<cached, answered>>
    <3>1. RlmShape'
      BY <1>1, <2>1, <2>4 DEF RlmShape, RlmTypeOK, Keep
    <3>2. CallsCounted' /\ BudgetKept'
      BY <1>1, <2>2, <2>4 DEF CallsCounted, BudgetKept, CanMakeCall
    <3>3. CacheAnswers'
      BY <1>1, <2>4 DEF CacheAnswers, Keep
    <3> QED
      BY <2>2, <3>1, <3>2, <3>3 DEF RlmInv
  <2> QED
    BY <1>3, <2>3, <2>4 DEF LlmQuery
<1>4. ASSUME NEW e \in Explorations, EndIteration(e)
      PROVE  RlmInv'
  <2>1. /\ exploring[e] = "iterating" /\ iteration' = [iteration EXCEPT ![e] = @ + 1]
        /\ iterationUsed' = 0 /\ carried' = FALSE
        /\ UNCHANGED <<totalUsed, toolCalls, cached, answered, spent>>
        /\ \/ /\ exploring' = [exploring EXCEPT ![e] = "ended"]
              /\ rlmResult' = [rlmResult EXCEPT ![e] = "success"]
           \/ exploring' = [exploring EXCEPT ![e] = "paused"] /\ UNCHANGED rlmResult
    BY <1>4 DEF EndIteration, EndsAs, CountIteration, ResetIteration
  <2>2. iteration[e] < MaxIterations /\ LoopFree'
    BY <1>1, <2>1 DEF OneIterates, LoopFree
  <2>3. RlmShape'
    <3>1. iteration' \in [Explorations -> 0..MaxIterations]
      BY <1>1, <2>1, <2>2
    <3>2. /\ exploring' \in [Explorations -> {"new", "iterating", "paused", "ended"}]
          /\ rlmResult' \in [Explorations -> {"none", "success", "budget", "timeout", "error"}]
      BY <1>1, <2>1
    <3>3. /\ cached' \subseteq Prompts /\ toolCalls' \in 0..MaxToolCalls /\ {totalUsed', iterationUsed'} \subseteq Nat
          /\ spent' \in Nat /\ answered' \in [Prompts -> Nat]
      BY <1>1, <2>1
    <3>4. carried' \in BOOLEAN
      BY <2>1
    <3> QED
      BY <3>1, <3>2, <3>3, <3>4 DEF RlmShape, RlmTypeOK
  <2>4. OneIterates'
    BY <2>2 DEF OneIterates, LoopFree
  <2>5. CallsCounted' /\ BudgetKept' /\ CacheAnswers'
    BY <1>1, <2>1, <2>2 DEF CallsCounted, BudgetKept, CacheAnswers
  <2> QED
    BY <2>3, <2>4, <2>5 DEF RlmInv
<1>5. ASSUME NEW e \in Explorations, IterationRaises(e)
      PROVE  RlmInv'
  <2>1. /\ exploring[e] = "iterating" /\ exploring' = [exploring EXCEPT ![e] = "ended"]
        /\ rlmResult' = [rlmResult EXCEPT ![e] = "error"]
        /\ carried' = (iterationUsed > 0)
        /\ UNCHANGED <<iteration, toolCalls, totalUsed, iterationUsed, cached, answered, spent>>
    BY <1>5 DEF IterationRaises, EndsAs, budgetVars
  <2>2. LoopFree'
    BY <1>1, <2>1 DEF OneIterates, LoopFree
  <2>3. RlmShape'
    BY <1>1, <2>1 DEF RlmShape, RlmTypeOK
  <2>4. OneIterates'
    BY <2>2 DEF OneIterates, LoopFree
  <2>5. CallsCounted' /\ BudgetKept' /\ CacheAnswers'
    BY <1>1, <2>1, <2>2 DEF CallsCounted, BudgetKept, CacheAnswers
  <2> QED
    BY <2>3, <2>4, <2>5 DEF RlmInv
<1>6. ASSUME NEW e \in Explorations, TimesOut(e)
      PROVE  RlmInv'
  <2>1. /\ exploring[e] = "paused" /\ exploring' = [exploring EXCEPT ![e] = "ended"] /\ LoopFree
        /\ rlmResult' = [rlmResult EXCEPT ![e] = "timeout"]
        /\ UNCHANGED <<iteration, toolCalls, carried, totalUsed, iterationUsed, cached, answered, spent>>
    BY <1>6 DEF TimesOut, EndsAs, budgetVars
  <2>2. LoopFree'
    BY <1>1, <2>1 DEF LoopFree
  <2>3. RlmShape'
    BY <1>1, <2>1 DEF RlmShape, RlmTypeOK
  <2>4. OneIterates'
    BY <2>2 DEF OneIterates, LoopFree
  <2>5. CallsCounted' /\ BudgetKept' /\ CacheAnswers'
    BY <1>1, <2>1, <2>2 DEF CallsCounted, BudgetKept, CacheAnswers
  <2> QED
    BY <2>3, <2>4, <2>5 DEF RlmInv
<1> QED
  BY <1>2, <1>3, <1>4, <1>5, <1>6 DEF RlmNext, RlmProgress

LEMMA RlmAlways == RlmSpec => []RlmInv
<1>1. RlmInv /\ UNCHANGED rlmVars => RlmInv'
  BY DEF RlmInv, rlmVars, RlmShape, RlmTypeOK, OneIterates, CallsCounted, CacheAnswers, BudgetKept, LoopFree
<1> QED
  BY <1>1, RlmStart, RlmStep, PTL DEF RlmSpec

\* An exploration is told that the budget is exhausted only when it is spent in all, or when an
\* iteration that raised left its count behind: reset_iteration is skipped by an exception.
THEOREM RefusalsAreDue == RlmSpec => RefusedIsSpent
<1> DEFINE Due == \A e \in Explorations :
                    rlmResult[e] # "budget" /\ rlmResult'[e] = "budget" => totalUsed = MaxTotal \/ carried
<1>1. RlmInv /\ [RlmNext]_rlmVars => Due
  <2> SUFFICES ASSUME RlmInv, [RlmNext]_rlmVars
               PROVE  Due
    OBVIOUS
  <2>1. CASE UNCHANGED rlmResult
    BY <2>1
  <2>2. ASSUME NEW e \in Explorations, NEW what \in {"success", "timeout", "error"},
               rlmResult' = [rlmResult EXCEPT ![e] = what]
        PROVE  Due
    BY <2>2 DEF RlmInv, RlmShape, RlmTypeOK
  <2>3. ASSUME NEW e \in Explorations, BeginIteration(e)
        PROVE  Due
    <3>1. CASE ~CanMakeCall
      <4>1. LoopFree /\ totalUsed \in Nat /\ iterationUsed \in Nat /\ totalUsed <= MaxTotal
        BY <2>3 DEF BeginIteration, RlmInv, RlmShape, RlmTypeOK, BudgetKept
      <4>2. totalUsed = MaxTotal \/ iterationUsed > 0
        BY <3>1, <4>1, RlmAssumption DEF CanMakeCall
      <4> QED
        BY <4>1, <4>2 DEF RlmInv, CallsCounted
    <3>2. CASE CanMakeCall
      BY <2>1, <2>2, <2>3, <3>2 DEF BeginIteration, EndsAs
    <3> QED
      BY <3>1, <3>2
  <2>4. CASE UNCHANGED rlmVars
    BY <2>1, <2>4 DEF rlmVars
  <2>5. CASE RlmNext
    <3>1. ASSUME NEW e \in Explorations, EndIteration(e) \/ IterationRaises(e) \/ TimesOut(e)
          PROVE  Due
      BY <2>1, <2>2, <3>1 DEF EndIteration, IterationRaises, TimesOut, EndsAs
    <3>2. ASSUME NEW e \in Explorations, NEW p \in Prompts, LlmQuery(e, p)
          PROVE  Due
      BY <2>1, <3>2 DEF LlmQuery
    <3> HIDE DEF Due
    <3> QED
      BY <2>3, <2>5, <3>1, <3>2 DEF RlmNext, RlmProgress
  <2> QED
    BY <2>4, <2>5
<1> QED
  BY <1>1, RlmAlways, PTL DEF RlmSpec, RefusedIsSpent

\* Whatever is admitted, raises or restarts, swarms stay within their slots and explorations
\* within their budget; a report misses no reviewer that was waited for, and an answered
\* question is not asked again.
THEOREM LimitsAlwaysHold == SwarmSpec /\ RlmSpec => []LimitsHold
<1>1. SwarmInv /\ RlmInv => LimitsHold
  <2> SUFFICES ASSUME SwarmInv, RlmInv
               PROVE  LimitsHold
    OBVIOUS
  <2>1. SwarmTypeOK
    BY DEF SwarmInv, SwarmShape, ResultsFirst, SwarmTypeOK
  <2>2. SlotsBounded
    BY DEF SwarmInv, SlotsFree, SlotsBounded
  <2>3. ReportIsFull
    BY DEF SwarmInv, WaitedForAll, ReportIsFull
  <2>4. AnsweredOnce
    BY DEF RlmInv, CacheAnswers, AnsweredOnce
  <2> QED
    BY <2>1, <2>2, <2>3, <2>4 DEF LimitsHold, RlmInv, RlmShape
<1> QED
  BY <1>1, SwarmAlways, RlmAlways, PTL

-----------------------------------------------------------------------------
(* The stage coordinators and their gates.                                 *)

\* Where each call has its gates: the last step of discovery and of validation, the step before
\* the monitor in a deployment.
LEMMA StepsAre ==
    /\ Len(Steps["discovery"]) = 3 /\ Len(Steps["design"]) = 5 /\ Len(Steps["planning"]) = 2
    /\ Len(Steps["validation"]) = 3 /\ Len(Steps["deployment"]) = 4 /\ Len(Steps["monitoring"]) = 1
    /\ Steps["deployment"][4] = "monitor"
    /\ \A s \in StageCalls : \A k \in 1..Len(Steps[s]) :
         /\ Steps[s][k] = "hitl1" <=> s = "discovery" /\ k = 3
         /\ Steps[s][k] = "hitl5" <=> s = "validation" /\ k = 3
         /\ Steps[s][k] = "hitl6" <=> s = "deployment" /\ k = 3
<1>1. ASSUME NEW k \in 1..3
      PROVE  /\ Steps["discovery"][k] = "hitl1" <=> k = 3
             /\ Steps["validation"][k] = "hitl5" <=> k = 3
             /\ Steps["discovery"][k] \notin {"hitl5", "hitl6"} /\ Steps["validation"][k] \notin {"hitl1", "hitl6"}
  <2>1. k = 1 \/ k = 2 \/ k = 3
    OBVIOUS
  <2> QED
    BY <2>1 DEF Steps
<1>2. ASSUME NEW k \in 1..5
      PROVE  Steps["design"][k] \notin {"hitl1", "hitl5", "hitl6"}
  <2>1. k = 1 \/ k = 2 \/ k = 3 \/ k = 4 \/ k = 5
    OBVIOUS
  <2> QED
    BY <2>1 DEF Steps
<1>3. ASSUME NEW k \in 1..2
      PROVE  Steps["planning"][k] \notin {"hitl1", "hitl5", "hitl6"}
  <2>1. k = 1 \/ k = 2
    OBVIOUS
  <2> QED
    BY <2>1 DEF Steps
<1>4. ASSUME NEW k \in 1..4
      PROVE  /\ Steps["deployment"][k] = "hitl6" <=> k = 3
             /\ Steps["deployment"][k] \notin {"hitl1", "hitl5"}
  <2>1. k = 1 \/ k = 2 \/ k = 3 \/ k = 4
    OBVIOUS
  <2> QED
    BY <2>1 DEF Steps
<1>5. ASSUME NEW k \in 1..1
      PROVE  Steps["monitoring"][k] \notin {"hitl1", "hitl5", "hitl6"}
  <2>1. k = 1
    OBVIOUS
  <2> QED
    BY <2>1 DEF Steps
<1>6. /\ Len(Steps["discovery"]) = 3 /\ Len(Steps["design"]) = 5 /\ Len(Steps["planning"]) = 2
      /\ Len(Steps["validation"]) = 3 /\ Len(Steps["deployment"]) = 4 /\ Len(Steps["monitoring"]) = 1
      /\ Steps["deployment"][4] = "monitor"
  BY DEF Steps
<1>7. ASSUME NEW s \in StageCalls, NEW k \in 1..Len(Steps[s])
      PROVE  /\ Steps[s][k] = "hitl1" <=> s = "discovery" /\ k = 3
             /\ Steps[s][k] = "hitl5" <=> s = "validation" /\ k = 3
             /\ Steps[s][k] = "hitl6" <=> s = "deployment" /\ k = 3
  <2>1. CASE s \in {"discovery", "validation"}
    BY <1>1, <1>6, <2>1
  <2>2. CASE s = "design"
    BY <1>2, <1>6, <2>2
  <2>3. CASE s = "planning"
    BY <1>3, <1>6, <2>3
  <2>4. CASE s = "deployment"
    BY <1>4, <1>6, <2>4
  <2>5. CASE s = "monitoring"
    BY <1>5, <1>6, <2>5
  <2> QED
    BY <2>1, <2>2, <2>3, <2>4, <2>5 DEF StageCalls
<1> QED
  BY <1>6, <1>7

\* A gate is passed by a request that was approved, or left out as the history says.
Passed1(g) == g \in excused \/ \E n \in DOMAIN requests : requests[n].gate = g /\ requests[n].status = "approved"

StageShape ==
    /\ stage \in StageCalls /\ pos \in 0..Len(Steps[stage])
    /\ outcome \in {"none", "succeeded", "pending", "failed"}
    /\ requests \in Seq([gate : RequestGates, status : {"pending", "approved", "rejected"}])
    /\ held \in {0} \cup DOMAIN requests
    /\ stageCalls \in Nat

\* What the request of a stage is, and what a stage without one has left out.
HeldOf ==
    /\ pos # 0 => held = 0
    /\ stageCalls = 0 => requests = <<>> /\ pos = 0 /\ stage = "discovery"
    /\ outcome = "pending" => held # 0
    /\ pos # 0 => outcome = "none"
    /\ held # 0 => \/ stage = "discovery" /\ requests[held].gate = "hitl1"
                   \/ stage = "validation" /\ requests[held].gate = "hitl5"
                   \/ stage = "deployment" /\ requests[held].gate = "hitl6"
    /\ held = 0 /\ pos = 0 /\ outcome = "succeeded" =>
        /\ stage = "discovery" => "hitl1" \in excused
        /\ stage = "validation" => "hitl5" \in excused
        /\ stage = "deployment" => "hitl6" \in excused
    /\ stage = "deployment" /\ pos = 4 => "hitl6" \in excused
    /\ stage = "deployment" /\ outcome = "succeeded" => held = 0

\* A stage that began has the gates of those before it behind it.
GatesPassed ==
    /\ stage # "discovery" => Passed1("hitl1")
    /\ stage \in {"deployment", "monitoring"} => Passed1("hitl5")
    /\ stage = "monitoring" => Passed1("hitl6")

\* Every request is for a gate that the coordinators can ask for.
LEMMA RequestTyped ==
    ASSUME StageShape, NEW n \in DOMAIN requests
    PROVE  requests[n] \in [gate : RequestGates, status : {"pending", "approved", "rejected"}]
<1> DEFINE R == [gate : RequestGates, status : {"pending", "approved", "rejected"}]
<1>1. requests \in Seq(R)
  BY DEF StageShape
<1> HIDE DEF R
<1>2. requests[n] \in R
  BY <1>1
<1> QED
  BY <1>2 DEF R

StageInv == StageShape /\ HeldOf /\ GatesPassed /\ UndecidedIsAwaited

LEMMA StageStart == StageInit => StageInv
<1> SUFFICES ASSUME StageInit
             PROVE  StageInv
  OBVIOUS
<1>1. StageShape
  BY StepsAre DEF StageInit, StageShape, StageCalls
<1> QED
  BY <1>1 DEF StageInit, StageInv, HeldOf, GatesPassed, UndecidedIsAwaited

\* Approved requests stay, whatever is asked or decided next.
LEMMA PassedStays ==
    ASSUME NEW g, Passed1(g), excused \subseteq excused',
           \A n \in DOMAIN requests : /\ n \in DOMAIN requests' /\ requests'[n].gate = requests[n].gate
                                      /\ requests[n].status = "approved" => requests'[n].status = "approved"
    PROVE  Passed1(g)'
<1>1. CASE g \in excused
  BY <1>1 DEF Passed1
<1>2. CASE g \notin excused
  <2>1. PICK n \in DOMAIN requests : requests[n].gate = g /\ requests[n].status = "approved"
    BY <1>2 DEF Passed1
  <2> QED
    BY <2>1 DEF Passed1
<1> QED
  BY <1>1, <1>2

\* Inside a call, a gate is left behind only when it is excused.
LEMMA InsideHeld ==
    ASSUME StageInv, pos # 0, UNCHANGED <<stage, held, stageCalls>>, excused \subseteq excused',
           \/ Return("failed")
           \/ GoOn /\ (CurrentStep \in RequestGates => CurrentStep \in excused')
    PROVE  HeldOf' /\ pos' \in 0..Len(Steps[stage]) /\ outcome' \in {"none", "succeeded", "pending", "failed"}
<1>1. StageShape /\ HeldOf /\ held = 0 /\ held' = 0 /\ stageCalls' # 0 /\ outcome = "none"
  BY DEF StageInv, HeldOf
<1>2. /\ stage \in StageCalls /\ pos \in 1..Len(Steps[stage]) /\ Len(Steps[stage]) \in 1..5
  BY <1>1, StepsAre DEF StageShape, StageCalls
<1>3. \/ pos' = 0 /\ outcome' = "failed"
      \/ pos = Len(Steps[stage]) /\ pos' = 0 /\ outcome' = "succeeded" /\ (CurrentStep \in RequestGates => CurrentStep \in excused')
      \/ pos # Len(Steps[stage]) /\ pos' = pos + 1 /\ outcome' = "none" /\ (CurrentStep \in RequestGates => CurrentStep \in excused')
  BY <1>1 DEF Return, GoOn
<1>4. /\ stage = "discovery" /\ pos = 3 => CurrentStep = "hitl1"
      /\ stage = "validation" /\ pos = 3 => CurrentStep = "hitl5"
      /\ stage = "deployment" /\ pos = 3 => CurrentStep = "hitl6"
      /\ Len(Steps["discovery"]) = 3 /\ Len(Steps["validation"]) = 3 /\ Len(Steps["deployment"]) = 4
  BY <1>2, StepsAre DEF CurrentStep
<1>5. pos' \in 0..Len(Steps[stage]) /\ outcome' \in {"none", "succeeded", "pending", "failed"}
  BY <1>2, <1>3
<1>6. CASE stage = "discovery"
  BY <1>1, <1>2, <1>3, <1>4, <1>5, <1>6 DEF HeldOf, RequestGates
<1>7. CASE stage = "validation"
  BY <1>1, <1>2, <1>3, <1>4, <1>5, <1>7 DEF HeldOf, RequestGates
<1>8. CASE stage = "deployment"
  <2>1. pos = 4 => "hitl6" \in excused
    BY <1>1, <1>8 DEF HeldOf
  <2>2. pos' = 4 => pos = 3
    BY <1>2, <1>3
  <2>3. pos' = 4 => "hitl6" \in excused'
    BY <1>3, <1>4, <1>8, <2>2 DEF RequestGates
  <2>4. outcome' = "succeeded" => "hitl6" \in excused'
    BY <1>3, <1>4, <1>8, <2>1
  <2>5. (pos' # 0 => outcome' = "none") /\ outcome' # "pending"
    BY <1>3
  <2> QED
    BY <1>1, <1>5, <1>8, <2>3, <2>4, <2>5 DEF HeldOf
<1>9. CASE stage \notin {"discovery", "validation", "deployment"}
  BY <1>1, <1>2, <1>3, <1>5, <1>9 DEF HeldOf
<1> QED
  BY <1>6, <1>7, <1>8, <1>9

LEMMA CallKeeps ==
    ASSUME StageInv, NEW next \in StageCalls, NEW skips \in BOOLEAN, CallStage(next, skips)
    PROVE  StageInv'
<1>1. /\ pos = 0 /\ stage' = next /\ pos' = 1 /\ outcome' = "none" /\ held' = 0
      /\ stageCalls' = stageCalls + 1 /\ UNCHANGED <<requests, orphans, excused>>
      /\ \/ stageCalls = 0 /\ next = "discovery"
         \/ Repeats /\ next = stage
         \/ GoesOn /\ next = After
  BY DEF CallStage
<1>2. StageShape /\ HeldOf /\ GatesPassed /\ UndecidedIsAwaited
  BY DEF StageInv
<1>3. StageShape'
  <2>1. Len(Steps[next]) \in 1..5
    BY StepsAre DEF StageCalls
  <2>2. pos' \in 0..Len(Steps[stage'])
    <3>1. stage' = next /\ pos' = 1
      BY <1>1
    <3>2. 1 \in 0..Len(Steps[next])
      BY <2>1
    <3> QED
      BY <3>1, <3>2
  <2>3. held' \in {0} \cup DOMAIN requests /\ stageCalls' \in Nat
    BY <1>1, <1>2 DEF StageShape
  <2> QED
    BY <1>1, <1>2, <2>2, <2>3 DEF StageShape
<1>4. HeldOf'
  BY <1>1, <1>2 DEF HeldOf, StageShape
<1>5. held # 0 => held \in DOMAIN requests /\ requests[held].status # "pending"
  BY <1>1, <1>2 DEF StageShape, HeldOf, Repeats, GoesOn, Approved
<1>6. UndecidedIsAwaited'
  <2> SUFFICES ASSUME NEW n \in DOMAIN requests, requests[n].status = "pending"
               PROVE  n \in orphans
    BY <1>1 DEF UndecidedIsAwaited
  <2>1. n = held \/ n \in orphans
    BY <1>2 DEF UndecidedIsAwaited
  <2>2. n \in Nat \ {0}
    BY <1>2 DEF StageShape
  <2> QED
    BY <1>5, <2>1, <2>2
<1>7. \A g : Passed1(g) => Passed1(g)'
  BY <1>1 DEF Passed1
<1>8. GatesPassed'
  <2>1. CASE next = "discovery"
    BY <1>1, <2>1 DEF GatesPassed
  <2>2. CASE next = stage
    BY <1>1, <1>2, <1>7, <2>2 DEF GatesPassed
  <2>3. CASE GoesOn /\ next = After
    <3>1. /\ held = 0 => outcome = "succeeded"
          /\ \A g \in excused : Passed1(g)
      BY <2>3 DEF GoesOn, Passed1
    <3>2. held # 0 => /\ held \in DOMAIN requests /\ requests[held].status = "approved"
                      /\ Passed1(requests[held].gate)
      BY <1>2, <2>3 DEF GoesOn, Approved, Passed1, StageShape
    <3>3. CASE stage = "discovery"
      <4>1. next = "design" /\ Passed1("hitl1")
        BY <1>1, <1>2, <2>3, <3>1, <3>2, <3>3 DEF After, HeldOf
      <4> QED
        BY <1>1, <1>7, <4>1 DEF GatesPassed
    <3>4. CASE stage \in {"design", "planning"}
      <4>1. next \in {"planning", "validation"} /\ Passed1("hitl1")
        BY <1>2, <2>3, <3>4 DEF After, GatesPassed
      <4> QED
        BY <1>1, <1>7, <4>1 DEF GatesPassed
    <3>5. CASE stage = "validation"
      <4>1. next = "deployment" /\ Passed1("hitl1") /\ Passed1("hitl5")
        BY <1>1, <1>2, <2>3, <3>1, <3>2, <3>5 DEF After, HeldOf, GatesPassed
      <4> QED
        BY <1>1, <1>7, <4>1 DEF GatesPassed
    <3>6. CASE stage = "deployment"
      <4>1. next = "monitoring" /\ outcome = "pending"
        BY <2>3, <3>6 DEF After, StageCalls
      <4>2. Passed1("hitl1") /\ Passed1("hitl5") /\ Passed1("hitl6")
        BY <1>2, <3>2, <3>6, <4>1 DEF HeldOf, GatesPassed
      <4> QED
        BY <1>1, <1>7, <4>1, <4>2 DEF GatesPassed
    <3>7. CASE stage = "monitoring"
      BY <2>3, <3>7 DEF After, StageCalls
    <3> QED
      BY <1>2, <3>3, <3>4, <3>5, <3>6, <3>7 DEF StageShape, StageCalls
  <2> QED
    BY <1>1, <2>1, <2>2, <2>3
<1> QED
  BY <1>3, <1>4, <1>6, <1>8 DEF StageInv

\* A step inside a call that stores no request: the call goes on, excusing the gate it is at, or
\* fails at a step that is none.
LEMMA InsideKeeps ==
    ASSUME StageInv, pos # 0, UNCHANGED <<stage, held, requests, stageCalls>>, orphans \subseteq orphans',
           excused \subseteq excused',
           \/ Return("failed")
           \/ GoOn /\ (CurrentStep \in RequestGates => CurrentStep \in excused')
    PROVE  StageInv'
<1>1. StageShape /\ GatesPassed /\ UndecidedIsAwaited
  BY DEF StageInv
<1>2. HeldOf' /\ StageShape'
  BY <1>1, InsideHeld DEF StageShape
<1>3. \A g : Passed1(g) => Passed1(g)'
  BY DEF Passed1
<1>4. GatesPassed'
  BY <1>1, <1>3 DEF GatesPassed
<1>5. UndecidedIsAwaited'
  BY <1>1 DEF UndecidedIsAwaited
<1> QED
  BY <1>2, <1>4, <1>5 DEF StageInv

LEMMA StoredIs ==
    ASSUME StageInv, CurrentStep \in RequestGates, requests' = Stored
    PROVE  /\ requests' \in Seq([gate : RequestGates, status : {"pending", "approved", "rejected"}])
           /\ Len(requests') \in DOMAIN requests' /\ DOMAIN requests' = DOMAIN requests \cup {Len(requests')}
           /\ requests'[Len(requests')] = [gate |-> CurrentStep, status |-> "pending"]
           /\ Len(requests') \notin DOMAIN requests /\ requests' # <<>> /\ Len(requests') # 0
           /\ \A n \in DOMAIN requests : requests'[n] = requests[n]
<1> DEFINE R == [gate : RequestGates, status : {"pending", "approved", "rejected"}]
           r == [gate |-> CurrentStep, status |-> "pending"]
<1>1. requests \in Seq(R) /\ r \in R /\ requests' = Append(requests, r)
  BY DEF StageInv, StageShape, Stored
<1> HIDE DEF R, r
<1>2. requests' \in Seq(R) /\ Len(requests') = Len(requests) + 1 /\ Len(requests) \in Nat
  BY <1>1
<1>3. DOMAIN requests = 1..Len(requests) /\ DOMAIN requests' = 1..(Len(requests) + 1)
  BY <1>1, <1>2
<1>4. requests'[Len(requests')] = r /\ \A n \in DOMAIN requests : requests'[n] = requests[n]
  BY <1>1, <1>2, <1>3
<1> QED
  BY <1>2, <1>3, <1>4 DEF R, r

LEMMA SubmitKeeps ==
    ASSUME StageInv, SubmitGate
    PROVE  StageInv'
<1>1. /\ pos # 0 /\ CurrentStep \in RequestGates /\ requests' = Stored /\ held' = Len(requests') /\ pos' = 0
      /\ outcome' = IF stage = "discovery" THEN "succeeded" ELSE "pending"
      /\ UNCHANGED <<stage, orphans, excused, stageCalls>>
  BY DEF SubmitGate, AsksGate, ReturnRequest, Return
<1>2. StageShape /\ HeldOf /\ GatesPassed /\ UndecidedIsAwaited /\ held = 0
  BY <1>1 DEF StageInv, HeldOf
<1>3. StageShape'
  <2>1. 0 \in 0..Len(Steps[stage])
    BY <1>2, StepsAre DEF StageShape, StageCalls
  <2> QED
    BY <1>1, <1>2, <2>1, StoredIs DEF StageShape
<1>4. requests'[held'].gate = CurrentStep
  BY <1>1, StoredIs
<1>5. \/ CurrentStep = "hitl1" /\ stage = "discovery"
      \/ CurrentStep = "hitl5" /\ stage = "validation"
      \/ CurrentStep = "hitl6" /\ stage = "deployment"
  <2>1. stage \in StageCalls /\ pos \in 1..Len(Steps[stage])
    BY <1>1, <1>2, StepsAre DEF StageShape, StageCalls
  <2> QED
    BY <1>1, <2>1, StepsAre DEF RequestGates, CurrentStep
<1>6. held' # 0 /\ stageCalls # 0
  BY <1>1, <1>2, StoredIs DEF HeldOf
<1>7. HeldOf'
  BY <1>1, <1>4, <1>5, <1>6 DEF HeldOf
<1>8. \A g : Passed1(g) => Passed1(g)'
  BY <1>1, StoredIs, PassedStays
<1>9. GatesPassed'
  BY <1>1, <1>2, <1>8 DEF GatesPassed
<1>10. UndecidedIsAwaited'
  <2> SUFFICES ASSUME NEW n \in DOMAIN requests', requests'[n].status = "pending"
               PROVE  n = held' \/ n \in orphans'
    BY DEF UndecidedIsAwaited
  <2>1. CASE n \in DOMAIN requests
    <3>1. n # 0 /\ requests'[n] = requests[n]
      BY <1>1, <1>2, <2>1, StoredIs DEF StageShape
    <3> QED
      BY <1>1, <1>2, <2>1, <3>1 DEF UndecidedIsAwaited
  <2>2. CASE n \notin DOMAIN requests
    BY <1>1, <2>2, StoredIs
  <2> QED
    BY <2>1, <2>2
<1> QED
  BY <1>3, <1>7, <1>9, <1>10 DEF StageInv

LEMMA SubmitFailsKeeps ==
    ASSUME StageInv, SubmitFails
    PROVE  StageInv'
<1>1. /\ pos # 0 /\ CurrentStep \in RequestGates /\ GoOn /\ excused' = excused \cup {CurrentStep}
      /\ UNCHANGED <<stage, held, stageCalls>>
      /\ \/ UNCHANGED <<requests, orphans>>
         \/ requests' = Stored /\ orphans' = orphans \cup {Len(requests')}
  BY DEF SubmitFails, AsksGate
<1>2. CASE UNCHANGED <<requests, orphans>>
  BY <1>1, <1>2, InsideKeeps
<1>3. CASE requests' = Stored /\ orphans' = orphans \cup {Len(requests')}
  <2>1. StageShape /\ GatesPassed /\ UndecidedIsAwaited /\ held = 0
    BY <1>1 DEF StageInv, HeldOf
  <2>2. HeldOf' /\ pos' \in 0..Len(Steps[stage]) /\ outcome' \in {"none", "succeeded", "pending", "failed"}
    BY <1>1, InsideHeld
  <2>3. requests' \in Seq([gate : RequestGates, status : {"pending", "approved", "rejected"}])
    BY <1>1, <1>3, StoredIs
  <2>4. StageShape'
    BY <1>1, <2>1, <2>2, <2>3 DEF StageShape
  <2>5. \A g : Passed1(g) => Passed1(g)'
    BY <1>1, <1>3, StoredIs, PassedStays
  <2>6. GatesPassed'
    BY <1>1, <2>1, <2>5 DEF GatesPassed
  <2>7. UndecidedIsAwaited'
    BY <1>1, <1>3, <2>1, StoredIs DEF UndecidedIsAwaited
  <2> QED
    BY <2>2, <2>4, <2>6, <2>7 DEF StageInv
<1> QED
  BY <1>1, <1>2, <1>3

LEMMA DecideKeeps ==
    ASSUME StageInv, DecideRequest
    PROVE  StageInv'
<1>1. PICK n \in DOMAIN requests, verdict1 \in {"approved", "rejected"} :
          requests[n].status = "pending" /\ requests' = [requests EXCEPT ![n].status = verdict1]
  BY DEF DecideRequest
<1>2. UNCHANGED <<stage, pos, outcome, held, orphans, excused, stageCalls>>
  BY DEF DecideRequest
<1> DEFINE R == [gate : RequestGates, status : {"pending", "approved", "rejected"}]
           r == [requests[n] EXCEPT !.status = verdict1]
<1>3. requests \in Seq(R) /\ requests' = [requests EXCEPT ![n] = r]
  BY <1>1 DEF StageInv, StageShape
<1>4. requests[n] \in R
  BY RequestTyped DEF StageInv
<1>5. r \in R /\ r.gate = requests[n].gate /\ r.status = verdict1
  BY <1>1, <1>4
<1> HIDE DEF R, r
<1>6. requests' \in Seq(R) /\ DOMAIN requests' = DOMAIN requests
  BY <1>3, <1>5
<1>7. \A k \in DOMAIN requests : requests'[k] = IF k = n THEN r ELSE requests[k]
  BY <1>3, <1>6
<1>8. StageShape /\ HeldOf /\ GatesPassed /\ UndecidedIsAwaited
  BY DEF StageInv
<1>9. StageShape'
  BY <1>2, <1>6, <1>8 DEF StageShape, R
<1>10. \A k \in DOMAIN requests : requests'[k].gate = requests[k].gate
  BY <1>5, <1>7
<1>11. HeldOf'
  <2>1. held # 0 => requests'[held].gate = requests[held].gate
    BY <1>8, <1>10 DEF StageShape
  <2>2. requests # <<>>
    BY <1>1
  <2>3. stageCalls # 0
    BY <1>8, <2>2 DEF HeldOf
  <2> QED
    BY <1>2, <1>8, <2>1, <2>3 DEF HeldOf
<1>12. \A g : Passed1(g) => Passed1(g)'
  BY <1>1, <1>2, <1>6, <1>7, <1>10, PassedStays
<1>13. GatesPassed'
  BY <1>2, <1>8, <1>12 DEF GatesPassed
<1>14. UndecidedIsAwaited'
  BY <1>1, <1>2, <1>5, <1>6, <1>7, <1>8 DEF UndecidedIsAwaited
<1> QED
  BY <1>9, <1>11, <1>13, <1>14 DEF StageInv

LEMMA StageStep == StageInv /\ StageNext => StageInv'
<1> SUFFICES ASSUME StageInv, StageNext
             PROVE  StageInv'
  OBVIOUS
<1>1. CASE RunAgent
  BY <1>1, InsideKeeps DEF RunAgent
<1>2. CASE RunMonitor
  BY <1>2, InsideKeeps DEF RunMonitor, RequestGates
<1>3. CASE SkipGate
  BY <1>3, InsideKeeps DEF SkipGate
<1>4. CASE SubmitMissing
  BY <1>4, InsideKeeps DEF SubmitMissing, RequestGates, SubmitGates
<1> QED
  BY <1>1, <1>2, <1>3, <1>4, CallKeeps, SubmitKeeps, SubmitFailsKeeps, DecideKeeps DEF StageNext

LEMMA StageAlways == StageSpec => []StageInv
<1>1. StageInv /\ UNCHANGED stageVars => StageInv'
  BY DEF StageInv, stageVars, StageShape, HeldOf, GatesPassed, UndecidedIsAwaited, Passed1
<1> QED
  BY <1>1, StageStart, StageStep, PTL DEF StageSpec

-----------------------------------------------------------------------------
(* The TDD loop.                                                           *)

TddSpec == TddInit /\ [][TddNext]_tddVars

TddTyped ==
    /\ tddAt \in {"utest", "coding", "tests", "review", "debugger", "gate", "ended"}
    /\ version \in Nat /\ failCount \in Nat /\ broken \subseteq Tests
    /\ testedAs \in 0..version /\ analysis \in 0..version /\ given \in 0..version
    /\ reviewedAs \in 0..version /\ submitted \in 0..version
    /\ verdict \in {"none", "succeeded", "failed", "raised"}

\* Each version after the first answers a failure, and the failures allowed bound them: the loop
\* is left at the debugger or after a review, and the tests lead to the debugger above the retries.
FailuresPay ==
    /\ tddAt \in {"utest", "coding", "debugger"} => version = failCount
    /\ tddAt \in {"tests", "review", "gate"} => version = failCount + 1
    /\ tddAt \in {"utest", "coding", "tests", "review", "gate"} => failCount <= MaxCodingRetries + Grace
    /\ version <= MaxCodingRetries + Grace + 1

\* What the loop holds to be judged is the version coded last.
VersionJudged ==
    /\ tddAt \in {"review", "gate"} => testedAs = version /\ broken \subseteq Parametrized
    /\ tddAt = "gate" => reviewedAs = version
    /\ tddAt # "ended" => submitted = 0 /\ verdict = "none"
    /\ submitted # 0 \/ verdict = "succeeded" =>
        submitted \in {0, version} /\ testedAs = version /\ reviewedAs = version /\ broken \subseteq Parametrized

\* There is an analysis only after more failures than the coder is allowed: then every failure
\* of the tests leads to the debugger, and every one of the review drops the analysis.
AnalysisFollows ==
    /\ tddAt # "ended" /\ analysis # 0 => failCount > MaxCodingRetries
    /\ tddAt = "utest" => analysis = 0
    /\ tddAt = "debugger" => failCount > MaxCodingRetries
    /\ tddAt = "coding" /\ analysis # 0 => analysis = version \/ missed = TRUE
    /\ tddAt = "tests" /\ given # 0 => given = version - 1 \/ missed = TRUE

TddInv == TddTyped /\ FailuresPay /\ VersionJudged /\ AnalysisFollows

LEMMA TddStart == TddInit => TddInv
<1>1. TddInit => TddTyped /\ FailuresPay
  BY TddAssumption DEF TddInit, TddTyped, FailuresPay, Grace
<1>2. TddInit => VersionJudged /\ AnalysisFollows
  BY DEF TddInit, VersionJudged, AnalysisFollows
<1> QED
  BY <1>1, <1>2 DEF TddInv

LEMMA TddStep == TddInv /\ TddNext => TddInv'
<1> SUFFICES ASSUME TddInv, TddNext
             PROVE  TddInv'
  OBVIOUS
<1> USE TddAssumption DEF Grace
<1>1. TddTyped /\ FailuresPay /\ VersionJudged /\ AnalysisFollows
  BY DEF TddInv
<1>2. CASE WriteTests
  <2>1. TddTyped'
    BY <1>1, <1>2 DEF WriteTests, Await, Conclude, TddTyped
  <2>2. FailuresPay'
    BY <1>1, <1>2 DEF WriteTests, Await, Conclude, TddTyped, FailuresPay
  <2>3. VersionJudged'
    BY <1>1, <1>2 DEF WriteTests, Await, Conclude, TddTyped, VersionJudged
  <2>4. AnalysisFollows'
    BY <1>1, <1>2 DEF WriteTests, Await, Conclude, TddTyped, AnalysisFollows
  <2> QED
    BY <2>1, <2>2, <2>3, <2>4 DEF TddInv
<1>3. CASE CodeVersion
  <2>1. TddTyped'
    BY <1>1, <1>3 DEF CodeVersion, Await, Conclude, TddTyped
  <2>2. FailuresPay'
    BY <1>1, <1>3 DEF CodeVersion, Await, Conclude, TddTyped, FailuresPay
  <2>3. VersionJudged'
    BY <1>1, <1>3 DEF CodeVersion, Await, Conclude, TddTyped, VersionJudged
  <2>4. AnalysisFollows'
    BY <1>1, <1>3 DEF CodeVersion, Await, Conclude, TddTyped, AnalysisFollows
  <2> QED
    BY <2>1, <2>2, <2>3, <2>4 DEF TddInv
<1>4. CASE RunTests
  <2>1. CASE Conclude("failed") /\ UNCHANGED <<broken, testedAs, failCount>>
    <3>1. TddTyped'
      BY <1>1, <1>4, <2>1 DEF RunTests, Conclude, TddTyped
    <3>2. FailuresPay' /\ AnalysisFollows'
      BY <1>1, <1>4, <2>1 DEF RunTests, Conclude, TddTyped, FailuresPay, AnalysisFollows
    <3>3. VersionJudged'
      BY <1>1, <1>4, <2>1 DEF RunTests, Conclude, TddTyped, VersionJudged
    <3> QED
      BY <3>1, <3>2, <3>3 DEF TddInv
  <2>2. ASSUME NEW fails \in SUBSET Tests, broken' = fails, testedAs' = version, AllPassed(fails),
               Await("review"), UNCHANGED failCount
        PROVE  TddInv'
    <3>1. TddTyped'
      BY <1>1, <1>4, <2>2 DEF RunTests, Await, TddTyped
    <3>2. FailuresPay' /\ AnalysisFollows'
      BY <1>1, <1>4, <2>2 DEF RunTests, Await, TddTyped, FailuresPay, AnalysisFollows
    <3>3. VersionJudged'
      BY <1>1, <1>4, <2>2 DEF RunTests, Await, AllPassed, Seen, TddTyped, VersionJudged
    <3> QED
      BY <3>1, <3>2, <3>3 DEF TddInv
  <2>3. ASSUME NEW fails \in SUBSET Tests, broken' = fails, testedAs' = version, failCount' = failCount + 1,
               Await(IF failCount' > MaxCodingRetries THEN "debugger" ELSE "coding")
        PROVE  TddInv'
    <3>1. TddTyped'
      BY <1>1, <1>4, <2>3 DEF RunTests, Await, TddTyped
    <3>2. FailuresPay'
      BY <1>1, <1>4, <2>3 DEF RunTests, Await, TddTyped, FailuresPay
    <3>3. AnalysisFollows'
      BY <1>1, <1>4, <2>3 DEF RunTests, Await, TddTyped, AnalysisFollows
    <3>4. VersionJudged'
      BY <1>1, <1>4, <2>3 DEF RunTests, Await, TddTyped, VersionJudged
    <3> QED
      BY <3>1, <3>2, <3>3, <3>4 DEF TddInv
  <2> QED
    BY <1>4, <2>1, <2>2, <2>3 DEF RunTests
<1>5. CASE Review
  <2>1. TddTyped'
    BY <1>1, <1>5 DEF Review, ResetAnalysis, GoAfter, Await, Conclude, TddTyped
  <2>2. FailuresPay'
    BY <1>1, <1>5 DEF Review, GoAfter, Await, Conclude, TddTyped, FailuresPay
  <2>3. VersionJudged'
    BY <1>1, <1>5 DEF Review, GoAfter, Await, Conclude, TddTyped, VersionJudged
  <2>4. AnalysisFollows'
    BY <1>1, <1>5 DEF Review, ResetAnalysis, GoAfter, Await, Conclude, TddTyped, AnalysisFollows
  <2> QED
    BY <2>1, <2>2, <2>3, <2>4 DEF TddInv
<1>6. CASE Debug
  <2>1. TddTyped'
    BY <1>1, <1>6 DEF Debug, GoAfter, Await, Conclude, TddTyped
  <2>2. FailuresPay'
    BY <1>1, <1>6 DEF Debug, GoAfter, Await, Conclude, TddTyped, FailuresPay
  <2>3. VersionJudged'
    BY <1>1, <1>6 DEF Debug, GoAfter, Await, Conclude, TddTyped, VersionJudged
  <2>4. AnalysisFollows'
    BY <1>1, <1>6 DEF Debug, GoAfter, Await, Conclude, TddTyped, AnalysisFollows
  <2> QED
    BY <2>1, <2>2, <2>3, <2>4 DEF TddInv
<1>7. CASE Hitl4
  <2>1. TddTyped'
    BY <1>1, <1>7 DEF Hitl4, Conclude, TddTyped
  <2>2. FailuresPay' /\ AnalysisFollows'
    BY <1>1, <1>7 DEF Hitl4, Conclude, TddTyped, FailuresPay, AnalysisFollows
  <2>3. VersionJudged'
    BY <1>1, <1>7 DEF Hitl4, Conclude, TddTyped, VersionJudged
  <2> QED
    BY <2>1, <2>2, <2>3 DEF TddInv
<1> QED
  BY <1>2, <1>3, <1>4, <1>5, <1>6, <1>7 DEF TddNext, TddProgress

LEMMA TddAlways == TddSpec => []TddInv
<1>1. TddInv /\ UNCHANGED tddVars => TddInv'
  BY DEF TddInv, tddVars, TddTyped, FailuresPay, VersionJudged, AnalysisFollows
<1> QED
  BY <1>1, TddStart, TddStep, PTL DEF TddSpec

\* A release has passed every gate that was not left out, nobody decides for nobody but on a request
\* whose submission raised; and an implementation is submitted when it passed its tests and its
\* review, after a bounded number of codings.
THEOREM WorkAlwaysJudged == StageSpec /\ TddSpec => []WorkIsJudged
<1>1. StageInv => StageTypeOK /\ ReleaseWasApproved /\ UndecidedIsAwaited
  <2> SUFFICES ASSUME StageInv
               PROVE  StageTypeOK /\ ReleaseWasApproved
    BY DEF StageInv
  <2>1. StageTypeOK
    BY RequestTyped DEF StageInv, StageShape, StageTypeOK
  <2>2. ReleaseWasApproved
    <3> SUFFICES ASSUME stage \in {"deployment", "monitoring"}, outcome = "succeeded", NEW g \in RequestGates \ excused
                 PROVE  \E n \in Asked(g) : Approved(n)
      BY DEF ReleaseWasApproved
    <3>1. Passed1("hitl1") /\ Passed1("hitl5")
      BY DEF StageInv, GatesPassed
    <3>2. CASE stage = "monitoring"
      BY <3>1, <3>2 DEF StageInv, GatesPassed, RequestGates, Passed1, Asked, Approved
    <3>3. CASE stage = "deployment" /\ pos = 0
      <4>1. "hitl6" \in excused
        BY <3>3 DEF StageInv, HeldOf
      <4> QED
        BY <3>1, <4>1 DEF RequestGates, Passed1, Asked, Approved
    <3> QED
      BY <3>1, <3>2, <3>3 DEF StageInv, HeldOf
  <2> QED
    BY <2>1, <2>2
<1>2. TddInv => TddTypeOK /\ SubmittedIsJudged /\ CodingsBounded /\ AnalysisIsRecent
  BY DEF TddInv, TddTyped, FailuresPay, VersionJudged, AnalysisFollows, TddTypeOK, SubmittedIsJudged,
         CodingsBounded, AnalysisIsRecent
<1>3. StageInv /\ TddInv => WorkIsJudged
  BY <1>1, <1>2 DEF WorkIsJudged
<1> QED
  BY <1>3, StageAlways, TddAlways, PTL

-----------------------------------------------------------------------------
(* A behaviour of the instance is one of every part.                       *)

LEMMA PartsRun ==
    MCSpec => /\ BatchSpec /\ SwarmSpec /\ MailSpec /\ GitSpec
              /\ StageSpec /\ TddSpec /\ RlmSpec /\ QuerySpec
<1>1. MCInit => /\ BatchInit /\ SwarmInit /\ MailInit /\ GitInit
                /\ StageInit /\ TddInit /\ RlmInit /\ QueryInit
  BY DEF MCInit
<1>2. [MCNext]_servicesVars =>
        /\ [BatchNext]_batchVars /\ [SwarmNext]_swarmVars /\ [MailNext]_mailVars /\ [GitNext]_gitVars
        /\ [StageNext]_stageVars /\ [TddNext]_tddVars /\ [RlmNext]_rlmVars /\ [QueryNext]_queryVars
  <2>1. CASE UNCHANGED servicesVars
    BY <2>1 DEF servicesVars
  <2>2. ASSUME MCNext
        PROVE  /\ [BatchNext]_batchVars /\ [SwarmNext]_swarmVars /\ [MailNext]_mailVars /\ [GitNext]_gitVars
               /\ [StageNext]_stageVars /\ [TddNext]_tddVars /\ [RlmNext]_rlmVars /\ [QueryNext]_queryVars
    <3>1. CASE BatchNext /\ Others("batch")
      BY <3>1 DEF Others
    <3>2. CASE SwarmNext /\ Others("swarm")
      BY <3>2 DEF Others
    <3>3. CASE MailNext /\ Others("mail")
      BY <3>3 DEF Others
    <3>4. CASE GitNext /\ Others("git")
      BY <3>4 DEF Others
    <3>5. CASE StageNext /\ Others("stages")
      BY <3>5 DEF Others
    <3>6. CASE TddNext /\ Others("tdd")
      BY <3>6 DEF Others
    <3>7. CASE RlmNext /\ Others("rlm")
      BY <3>7 DEF Others
    <3>8. CASE QueryNext /\ Others("queries")
      BY <3>8 DEF Others
    <3>9. CASE Others("desk")
      BY <3>9 DEF Others
    <3> QED
      BY <2>2, <3>1, <3>2, <3>3, <3>4, <3>5, <3>6, <3>7, <3>8, <3>9 DEF MCNext, Acks, Mail, Swarming, Querying
  <2> QED
    BY <2>1, <2>2
<1> QED
  BY <1>1, <1>2, PTL
     DEF MCSpec, BatchSpec, SwarmSpec, MailSpec, GitSpec, StageSpec, TddSpec, RlmSpec, QuerySpec

\* What the parts promise on their own, the specification the run checks promises of all of them.
THEOREM ServicesTrue ==
    MCSpec => /\ [](BatchesAreTrue /\ PatchesAreTrue /\ WorkIsJudged /\ MailIsKept /\ LimitsHold)
              /\ EndedStays /\ AnswerStays /\ RefusedIsSpent
BY PartsRun, BatchesTrue, PatchesTrue, WorkAlwaysJudged, MailAlwaysKept, LimitsAlwaysHold,
   SessionsStay, AnswersStay, RefusalsAreDue, PTL
=============================================================================
