-------------------------- MODULE WorkerPoolProofs --------------------------
(***************************************************************************)
(* Theorems about WorkerPool, for any number of pools, permits and keys    *)
(* and every value of the bounds.                                          *)
(***************************************************************************)
EXTENDS WorkerPool, FiniteSetTheorems, TLAPS

-----------------------------------------------------------------------------
(* Choosing events to run.                                                 *)

Below(S, i) == {j \in S : j < i}

(* The oldest n of a finite set of ids are at most n: the number of smaller *)
(* ids maps them one to one into 0..n-1.                                   *)
LEMMA OldestBound ==
    ASSUME NEW S \in SUBSET Nat, IsFiniteSet(S), NEW n \in Nat
    PROVE  /\ IsFiniteSet(Oldest(S, n))
           /\ Cardinality(Oldest(S, n)) \in 0..n
<1> DEFINE T == Oldest(S, n)
           f == [i \in T |-> Cardinality(Below(S, i))]
<1>1. IsFiniteSet(T) /\ Cardinality(T) \in Nat
  <2>1. T \in SUBSET S
    BY DEF Oldest
  <2> QED
    BY <2>1, FS_Subset, FS_CardinalityType
<1>2. ASSUME NEW i \in S
      PROVE  IsFiniteSet(Below(S, i)) /\ Cardinality(Below(S, i)) \in Nat
  <2>1. Below(S, i) \in SUBSET S
    BY DEF Below
  <2> QED
    BY <2>1, FS_Subset, FS_CardinalityType
<1>3. \A i \in T : i \in S /\ Cardinality(Below(S, i)) < n
  BY DEF Oldest, Below
<1>4. ASSUME NEW i \in T PROVE Cardinality(Below(S, i)) \in 0..(n - 1)
  <2>1. Cardinality(Below(S, i)) \in Nat /\ Cardinality(Below(S, i)) < n
    BY <1>2, <1>3
  <2> QED
    BY <2>1
<1>5. f \in [T -> 0..(n - 1)] /\ \A i \in T : f[i] = Cardinality(Below(S, i))
  BY <1>4
<1>6. ASSUME NEW x \in T, NEW y \in T, x < y PROVE f[x] # f[y]
  <2>1. x \in S /\ y \in S /\ x \in Nat /\ y \in Nat
    BY <1>3
  <2>2. x \notin Below(S, x) /\ Below(S, x) \cup {x} \in SUBSET Below(S, y)
    <3>1. ~(x < x)
      BY <2>1
    <3>2. ASSUME NEW j \in S, j < x PROVE j < y
      <4>1. j \in Nat
        OBVIOUS
      <4> QED
        BY <1>6, <2>1, <3>2, <4>1
    <3> QED
      BY <1>6, <2>1, <3>1, <3>2 DEF Below
  <2>3. Cardinality(Below(S, x) \cup {x}) = Cardinality(Below(S, x)) + 1
    BY <1>2, <2>1, <2>2, FS_AddElement
  <2>4. Cardinality(Below(S, x) \cup {x}) <= Cardinality(Below(S, y))
    BY <1>2, <2>1, <2>2, FS_Subset
  <2> QED
    BY <1>2, <1>5, <2>1, <2>3, <2>4
<1>7. IsFiniteSet(0..(n - 1)) /\ Cardinality(0..(n - 1)) = n
  <2>1. 0 \in Int /\ n - 1 \in Int
    OBVIOUS
  <2>2. Cardinality(0..(n - 1)) = IF 0 > n - 1 THEN 0 ELSE (n - 1) - 0 + 1
    BY <2>1, FS_Interval
  <2> QED
    BY <2>1, <2>2, FS_Interval
<1> HIDE DEF T, f
<1>8. ASSUME n < Cardinality(T) PROVE FALSE
  <2>1. \E x, y \in T : x # y /\ f[x] = f[y]
    BY <1>1, <1>5, <1>7, <1>8, FS_PigeonHole
  <2>2. PICK x \in T, y \in T : x # y /\ f[x] = f[y]
    BY <2>1
  <2>3. x \in Nat /\ y \in Nat
    BY <1>3
  <2>4. x < y \/ y < x
    BY <2>2, <2>3
  <2> QED
    BY <1>6, <2>2, <2>4
<1>9. Cardinality(T) \in 0..n
  BY <1>1, <1>8
<1> QED
  BY <1>1, <1>9 DEF T

LEMMA FirstsBound ==
    ASSUME NEW S \in SUBSET Nat
    PROVE  IsFiniteSet(Firsts(S)) /\ Cardinality(Firsts(S)) \in 0..1
<1>1. CASE Firsts(S) = {}
  <2>1. 0 \in 0..1
    OBVIOUS
  <2> QED
    BY <1>1, <2>1, FS_EmptySet
<1>2. CASE Firsts(S) # {}
  <2>1. PICK i \in S : i \in Firsts(S)
    BY <1>2 DEF Firsts
  <2>2. ASSUME NEW j \in Firsts(S) PROVE j = i
    <3>1. i \in Nat /\ j \in Nat /\ i <= j /\ j <= i
      BY <2>1 DEF Firsts
    <3> QED
      BY <3>1
  <2>3. Firsts(S) = {i}
    BY <2>1, <2>2
  <2>4. 1 \in 0..1
    OBVIOUS
  <2> QED
    BY <2>3, <2>4, FS_Singleton
<1> QED
  BY <1>1, <1>2

-----------------------------------------------------------------------------
(* The semaphore and the set of active tasks.                              *)

(* The strengthening of PermitsBalanced: Active(p) is finite.              *)
Balanced ==
    \A p \in Pools : /\ IsFiniteSet(Active(p))
                     /\ permits[p] + Cardinality(Active(p)) = PoolSize

TaskTypes(n) == [pool : Pools, id : 1..n, step : Steps]
Unique == \A t, u \in tasks : t.id = u.id => t = u

(* What every step that touches the tasks has to leave behind.             *)
TasksFine == /\ Balanced'
             /\ permits' \in [Pools -> 0..PoolSize]
             /\ tasks' \subseteq TaskTypes(cursor)
             /\ Unique'

LEMMA BalancedBounds ==
    ASSUME NEW n \in Nat, NEW c \in Nat, n + c = PoolSize
    PROVE  n \in 0..PoolSize
BY PoolAssumption

LEMMA MoveFine ==
    ASSUME TypeOK, Unique, Balanced, NEW t \in tasks, NEW label \in Steps,
           Move(t, label)
    PROVE  TasksFine /\ ActiveIds' = ActiveIds
<1> DEFINE u == [t EXCEPT !.step = label]
<1>1. t \in TaskTypes(cursor) /\ u \in TaskTypes(cursor) /\ u.id = t.id /\ u.pool = t.pool
  BY DEF TypeOK, TaskTypes
<1>2. tasks' = (tasks \ {t}) \cup {u} /\ permits' = permits
  BY DEF Move
<1> HIDE DEF u
<1>3. \A v \in tasks \ {t} : v.id # t.id
  BY DEF Unique
<1>4. u \notin tasks \ {t}
  BY <1>1, <1>3
<1>5. Unique'
  BY <1>1, <1>2, <1>3 DEF Unique
<1>6. ActiveIds' = ActiveIds
  BY <1>1, <1>2 DEF ActiveIds
<1>7. ASSUME NEW p \in Pools
      PROVE  /\ IsFiniteSet(Active(p)')
             /\ permits'[p] + Cardinality(Active(p)') = PoolSize
  <2>1. CASE p # t.pool
    <3>1. Active(p)' = Active(p)
      BY <1>1, <1>2, <2>1 DEF Active
    <3> QED
      BY <1>2, <3>1 DEF Balanced
  <2>2. CASE p = t.pool
    <3>1. Active(p)' = (Active(p) \ {t}) \cup {u} /\ t \in Active(p) /\ u \notin Active(p) \ {t}
      BY <1>1, <1>2, <1>4, <2>2 DEF Active
    <3>2. IsFiniteSet(Active(p)) /\ Cardinality(Active(p)) \in Nat
      BY FS_CardinalityType DEF Balanced
    <3>3. /\ IsFiniteSet(Active(p) \ {t})
          /\ Cardinality(Active(p) \ {t}) = Cardinality(Active(p)) - 1
      BY <3>1, <3>2, FS_RemoveElement
    <3>4. /\ IsFiniteSet((Active(p) \ {t}) \cup {u})
          /\ Cardinality((Active(p) \ {t}) \cup {u}) = Cardinality(Active(p) \ {t}) + 1
      BY <3>1, <3>3, FS_AddElement
    <3>5. Cardinality(Active(p)') = Cardinality(Active(p))
      BY <3>1, <3>2, <3>3, <3>4
    <3> QED
      BY <1>2, <3>1, <3>4, <3>5 DEF Balanced
  <2> QED
    BY <2>1, <2>2
<1>8. tasks' \subseteq TaskTypes(cursor)
  BY <1>1, <1>2 DEF TypeOK, TaskTypes
<1> QED
  BY <1>2, <1>5, <1>6, <1>7, <1>8 DEF TasksFine, Balanced, TypeOK

LEMMA EndFine ==
    ASSUME TypeOK, Unique, Balanced, NEW p \in Pools, NEW S \in SUBSET Active(p),
           End(p, S)
    PROVE  TasksFine /\ ActiveIds' \subseteq ActiveIds
<1>1. tasks' = tasks \ S /\ permits' = [permits EXCEPT ![p] = @ + Cardinality(S)]
  BY DEF End
<1>2. Unique' /\ ActiveIds' \subseteq ActiveIds /\ tasks' \subseteq TaskTypes(cursor)
  BY <1>1 DEF Unique, ActiveIds, TypeOK, TaskTypes
<1>3. ASSUME NEW q \in Pools
      PROVE  /\ IsFiniteSet(Active(q)')
             /\ permits'[q] \in 0..PoolSize
             /\ permits'[q] + Cardinality(Active(q)') = PoolSize
  <2>1. CASE q # p
    <3>1. Active(q)' = Active(q)
      BY <1>1, <2>1 DEF Active
    <3> QED
      BY <1>1, <2>1, <3>1 DEF Balanced, TypeOK
  <2>2. CASE q = p
    <3>1. Active(p)' = Active(p) \ S /\ Active(p) \cap S = S
      BY <1>1 DEF Active
    <3>2. IsFiniteSet(Active(p)) /\ Cardinality(Active(p)) \in Nat
      BY FS_CardinalityType DEF Balanced
    <3>3. IsFiniteSet(S) /\ Cardinality(S) \in Nat
      BY <3>2, FS_Subset, FS_CardinalityType
    <3>4. /\ IsFiniteSet(Active(p) \ S)
          /\ Cardinality(Active(p) \ S) = Cardinality(Active(p)) - Cardinality(S)
          /\ Cardinality(Active(p) \ S) \in Nat
      BY <3>1, <3>2, FS_Difference, FS_CardinalityType
    <3>5. permits[p] \in Nat /\ permits[p] + Cardinality(Active(p)) = PoolSize
      BY DEF Balanced, TypeOK
    <3>6. permits'[p] = permits[p] + Cardinality(S)
      BY <1>1 DEF TypeOK
    <3>7. permits'[p] \in Nat /\ permits'[p] + Cardinality(Active(p) \ S) = PoolSize
      BY <3>2, <3>3, <3>4, <3>5, <3>6
    <3>8. permits'[p] \in 0..PoolSize
      BY <3>4, <3>7, BalancedBounds
    <3> QED
      BY <2>2, <3>1, <3>4, <3>7, <3>8
  <2> QED
    BY <2>1, <2>2
<1>4. permits' \in [Pools -> 0..PoolSize]
  <2>1. permits' = [q \in Pools |-> permits'[q]]
    BY <1>1 DEF TypeOK
  <2> QED
    BY <1>3, <2>1
<1> QED
  BY <1>2, <1>3, <1>4 DEF TasksFine, Balanced

(* The tasks made for a set of events are as many as the events.           *)
LEMMA NewTasks ==
    ASSUME NEW p, NEW S, IsFiniteSet(S)
    PROVE  LET T == {[pool |-> p, id |-> i, step |-> "mark"] : i \in S}
           IN  IsFiniteSet(T) /\ Cardinality(T) = Cardinality(S)
<1> DEFINE T == {[pool |-> p, id |-> i, step |-> "mark"] : i \in S}
           f == [i \in S |-> [pool |-> p, id |-> i, step |-> "mark"]]
<1>1. f \in [S -> T]
  OBVIOUS
<1>2. \A t \in T : \E i \in S : f[i] = t
  OBVIOUS
<1>3. ASSUME NEW i \in S, NEW j \in S, f[i] = f[j] PROVE i = j
  <2>1. f[i].id = i /\ f[j].id = j
    OBVIOUS
  <2> QED
    BY <1>3, <2>1
<1>4. f \in Surjection(S, T)
  BY <1>1, <1>2 DEF Surjection
<1>5. f \in Injection(S, T)
  <2>1. DOMAIN f = S
    OBVIOUS
  <2>2. IsInjective(f)
    BY <1>3, <2>1 DEF IsInjective
  <2> QED
    BY <1>1, <2>2 DEF Injection
<1> HIDE DEF T, f
<1>6. IsFiniteSet(T) /\ (Cardinality(T) = Cardinality(S) <=> f \in Injection(S, T))
  BY <1>4, FS_Surjection
<1> QED
  BY <1>5, <1>6 DEF T

LEMMA SpawnFine ==
    ASSUME TypeOK, Unique, Balanced, NEW p \in Pools, NEW S \in SUBSET (1..cursor),
           S \cap ActiveIds = {}, IsFiniteSet(S), Cardinality(S) <= permits[p],
           SpawnAll(p, S)
    PROVE  TasksFine /\ ActiveIds' = ActiveIds \cup S
<1> DEFINE T == {[pool |-> p, id |-> i, step |-> "mark"] : i \in S}
<1>1. tasks' = tasks \cup T /\ permits' = [permits EXCEPT ![p] = @ - Cardinality(S)]
  BY DEF SpawnAll
<1>2. IsFiniteSet(T) /\ Cardinality(T) = Cardinality(S)
  BY NewTasks
<1>3. T \subseteq TaskTypes(cursor) /\ (\A t \in T : t.pool = p /\ t.id \in S)
  BY DEF TaskTypes, Steps
<1>4. \A t, u \in T : t.id = u.id => t = u
  OBVIOUS
<1>5. {t.id : t \in T} = S
  <2>1. \A t \in T : t.id \in S
    OBVIOUS
  <2>2. ASSUME NEW i \in S PROVE \E t \in T : t.id = i
    <3>1. [pool |-> p, id |-> i, step |-> "mark"] \in T
      OBVIOUS
    <3> QED
      BY <3>1
  <2> QED
    BY <2>1, <2>2
<1> HIDE DEF T
<1>6. \A t \in tasks, u \in T : t.id # u.id
  BY <1>3 DEF ActiveIds
<1>7. Unique'
  BY <1>1, <1>4, <1>6 DEF Unique
<1>8. ActiveIds' = ActiveIds \cup S
  BY <1>1, <1>5 DEF ActiveIds
<1>9. tasks' \subseteq TaskTypes(cursor)
  BY <1>1, <1>3 DEF TypeOK, TaskTypes
<1>10. Cardinality(S) \in Nat
  BY FS_CardinalityType
<1>11. ASSUME NEW q \in Pools
       PROVE  /\ IsFiniteSet(Active(q)')
              /\ permits'[q] \in 0..PoolSize
              /\ permits'[q] + Cardinality(Active(q)') = PoolSize
  <2>1. CASE q # p
    <3>1. Active(q)' = Active(q)
      BY <1>1, <1>3, <2>1 DEF Active
    <3> QED
      BY <1>1, <2>1, <3>1 DEF Balanced, TypeOK
  <2>2. CASE q = p
    <3>1. Active(p)' = Active(p) \cup T /\ Active(p) \cap T = {}
      BY <1>1, <1>3, <1>6 DEF Active
    <3>2. IsFiniteSet(Active(p)) /\ Cardinality(Active(p)) \in Nat
      BY FS_CardinalityType DEF Balanced
    <3>3. /\ IsFiniteSet(Active(p) \cup T)
          /\ Cardinality(Active(p) \cup T) =
                Cardinality(Active(p)) + Cardinality(T) - Cardinality({})
      BY <1>2, <3>1, <3>2, FS_Union
    <3>4. Cardinality({}) = 0
      BY FS_EmptySet
    <3>5. permits[p] \in 0..PoolSize /\ permits[p] + Cardinality(Active(p)) = PoolSize
      BY DEF Balanced, TypeOK
    <3>6. permits'[p] = permits[p] - Cardinality(S)
      BY <1>1 DEF TypeOK
    <3>7. permits'[p] \in 0..PoolSize
      BY <1>10, <3>5, <3>6, PoolAssumption
    <3>8. permits'[p] + Cardinality(Active(p)') = PoolSize
      BY <1>2, <1>10, <3>1, <3>2, <3>3, <3>4, <3>5, <3>6
    <3> QED
      BY <2>2, <3>1, <3>3, <3>7, <3>8
  <2> QED
    BY <2>1, <2>2
<1>12. permits' \in [Pools -> 0..PoolSize]
  <2>1. permits' = [q \in Pools |-> permits'[q]]
    BY <1>1 DEF TypeOK
  <2> QED
    BY <1>11, <2>1
<1> QED
  BY <1>7, <1>8, <1>9, <1>11, <1>12 DEF TasksFine, Balanced

LEMMA DownFine ==
    ASSUME TypeOK, Unique, Balanced, NEW p \in Pools, Down(p)
    PROVE  TasksFine /\ ActiveIds' \subseteq ActiveIds
<1>1. tasks' = tasks \ Active(p) /\ permits' = [permits EXCEPT ![p] = PoolSize]
  BY DEF Down
<1>2. Unique' /\ ActiveIds' \subseteq ActiveIds /\ tasks' \subseteq TaskTypes(cursor)
  BY <1>1 DEF Unique, ActiveIds, TypeOK, TaskTypes
<1>3. permits' \in [Pools -> 0..PoolSize]
  BY <1>1, PoolAssumption DEF TypeOK
<1>4. ASSUME NEW q \in Pools
      PROVE  /\ IsFiniteSet(Active(q)')
             /\ permits'[q] + Cardinality(Active(q)') = PoolSize
  <2>1. CASE q # p
    <3>1. Active(q)' = Active(q)
      BY <1>1, <2>1 DEF Active
    <3> QED
      BY <1>1, <2>1, <3>1 DEF Balanced, TypeOK
  <2>2. CASE q = p
    <3>1. Active(q)' = {} /\ permits'[q] = PoolSize
      BY <1>1, <2>2 DEF Active, TypeOK
    <3> QED
      BY <3>1, FS_EmptySet, PoolAssumption
  <2> QED
    BY <2>1, <2>2
<1> QED
  BY <1>2, <1>3, <1>4 DEF TasksFine, Balanced

-----------------------------------------------------------------------------
(* Type correctness, and every event in one place.                         *)

LEMMA XAddExtends ==
    ASSUME TypeOK, NEW e \in Entry, XAdd(e)
    PROVE  /\ stream' \in Seq(Entry)
           /\ Len(stream') = Len(stream) + 1
           /\ stream'[Len(stream) + 1] = e
           /\ \A i \in Ids : stream'[i] = stream[i]
           /\ trimmed' \in 0..Len(stream')
<1>1. stream' = Append(stream, e) /\ stream \in Seq(Entry) /\ Len(stream) \in Nat
  BY DEF XAdd, TypeOK
<1>2. Len(stream') = Len(stream) + 1
  BY <1>1
<1>3. trimmed' \in trimmed..(Len(stream) + 1) /\ trimmed \in 0..Len(stream)
  BY DEF XAdd, TypeOK
<1> QED
  BY <1>1, <1>2, <1>3 DEF Ids

(* XREADGROUP delivers entries of the stream past the cursor.              *)
LEMMA DeliverBounds ==
    ASSUME TypeOK, Deliver
    PROVE  /\ cursor' \in cursor..Len(stream)
           /\ Fresh \subseteq (cursor + 1)..cursor'
           /\ pending' = pending \cup Fresh
<1>1. Fresh \subseteq {i \in Ids : i > cursor}
  BY DEF Fresh, Oldest
<1> QED
  BY <1>1 DEF TypeOK, Deliver, Ids

(* The bounds of TypeOK that depend on the cursor survive its growth.      *)
LEMMA CursorGrows ==
    ASSUME TypeOK, cursor' \in Nat, cursor <= cursor'
    PROVE  /\ 1..cursor \subseteq 1..cursor'
           /\ 0..cursor \subseteq 0..cursor'
           /\ TaskTypes(cursor) \subseteq TaskTypes(cursor')
<1>1. 1..cursor \subseteq 1..cursor' /\ 0..cursor \subseteq 0..cursor'
  BY DEF TypeOK
<1> QED
  BY <1>1 DEF TaskTypes

LEMMA ExceptTyping ==
    ASSUME NEW D, NEW R, NEW f \in [D -> R], NEW d \in D, NEW r \in R
    PROVE  [f EXCEPT ![d] = r] \in [D -> R]
OBVIOUS

LEMMA AnswerIsEntry == Answer \in Entry /\ Placeholder \in Entry
BY DEF Answer, Placeholder, Entry, Kinds

LEMMA InitTypeOK == Init => TypeOK
<1> SUFFICES ASSUME Init PROVE TypeOK
  OBVIOUS
<1>1. stream \in Seq(Entry)
  <2>1. <<>> \in Seq(Entry) /\ <<Placeholder>> \in Seq(Entry)
    BY AnswerIsEntry
  <2> QED
    BY <2>1 DEF Init
<1>2. PoolSize \in 0..PoolSize
  BY PoolAssumption
<1> QED
  BY <1>1, <1>2 DEF Init, TypeOK, Loops

LEMMA InitBalanced == Init => Balanced /\ OneHolder
<1> SUFFICES ASSUME Init PROVE Balanced /\ OneHolder
  OBVIOUS
<1>1. \A p \in Pools : Active(p) = {} /\ permits[p] = PoolSize
  BY DEF Init, Active
<1>2. Balanced
  BY <1>1, FS_EmptySet, PoolAssumption DEF Balanced
<1>3. OneHolder
  BY DEF Init, OneHolder, ActiveIds
<1> QED
  BY <1>2, <1>3

(* Chosen stays within the batch and the permits.                          *)
LEMMA ChosenBound ==
    ASSUME TypeOK, NEW p \in Pools,
           loop[p] = "spawn" \/ (loop[p] = "acquire" /\ permits[p] > 0)
    PROVE  /\ Chosen(p) \in SUBSET batch[p]
           /\ IsFiniteSet(Chosen(p))
           /\ Cardinality(Chosen(p)) <= permits[p]
<1>1. batch[p] \in SUBSET (1..cursor) /\ permits[p] \in 0..PoolSize /\ cursor \in Nat
  BY DEF TypeOK
<1>2. batch[p] \in SUBSET Nat /\ IsFiniteSet(batch[p])
  <2>1. IsFiniteSet(1..cursor)
    BY <1>1, FS_Interval
  <2> QED
    BY <1>1, <2>1, FS_Subset
<1>3. permits[p] \in Nat
  BY <1>1
<1>4. CASE Chosen(p) = Oldest(batch[p], permits[p])
  <2>1. Chosen(p) \in SUBSET batch[p]
    BY <1>4 DEF Oldest
  <2>2. IsFiniteSet(Chosen(p)) /\ Cardinality(Chosen(p)) \in 0..permits[p]
    BY <1>2, <1>3, <1>4, OldestBound
  <2> QED
    BY <1>3, <2>1, <2>2
<1>5. CASE Chosen(p) = Firsts(batch[p]) /\ permits[p] > 0
  <2>1. Chosen(p) \in SUBSET batch[p]
    BY <1>5 DEF Firsts
  <2>2. IsFiniteSet(Chosen(p)) /\ Cardinality(Chosen(p)) \in 0..1
    BY <1>2, <1>5, FirstsBound
  <2> QED
    BY <1>3, <1>5, <2>1, <2>2
<1>6. CASE Chosen(p) = {}
  BY <1>3, <1>6, FS_EmptySet
<1> QED
  BY <1>4, <1>5, <1>6 DEF Chosen

-----------------------------------------------------------------------------
(* Every step leaves the tasks fine; where it makes, moves or ends tasks    *)
(* the lemmas above say so, elsewhere tasks and permits are untouched.     *)

LEMMA SpawnStepFine ==
    ASSUME TypeOK, OneHolder, Balanced, NEW p \in Pools, Spawn(p)
    PROVE  /\ TasksFine
           /\ ActiveIds' = ActiveIds \cup Chosen(p)
           /\ Chosen(p) \in SUBSET batch[p]
<1>1. /\ Chosen(p) \in SUBSET batch[p]
      /\ IsFiniteSet(Chosen(p))
      /\ Cardinality(Chosen(p)) <= permits[p]
  BY ChosenBound DEF Spawn
<1>2. Chosen(p) \in SUBSET (1..cursor) /\ Chosen(p) \cap ActiveIds = {}
  BY <1>1 DEF OneHolder, TypeOK
<1>3. Unique
  BY DEF OneHolder, Unique
<1>4. SpawnAll(p, Chosen(p))
  BY DEF Spawn
<1> QED
  BY <1>1, <1>2, <1>3, <1>4, SpawnFine

LEMMA TaskStepFine ==
    ASSUME TypeOK, OneHolder, Balanced, NEW t \in tasks,
           Process(t) \/ Agent(t) \/ TaskFails(t)
    PROVE  TasksFine /\ ActiveIds' \subseteq ActiveIds
<1>1. Unique
  BY DEF OneHolder, Unique
<1>2. t \in Active(t.pool) /\ t.pool \in Pools
  BY DEF Active, TypeOK
<1>3. ASSUME NEW label \in Steps, Move(t, label)
      PROVE  TasksFine /\ ActiveIds' \subseteq ActiveIds
  BY <1>1, <1>3, MoveFine
<1>4. ASSUME End(t.pool, {t}) PROVE TasksFine /\ ActiveIds' \subseteq ActiveIds
  <2>1. {t} \in SUBSET Active(t.pool)
    BY <1>2
  <2> QED
    BY <1>1, <1>2, <1>4, <2>1, EndFine
<1>5. (\E label \in Steps : Move(t, label)) \/ End(t.pool, {t})
  <2>1. CASE Mark(t)
    BY <2>1 DEF Mark, Steps
  <2>2. CASE Agent(t)
    BY <2>2 DEF Agent, Steps
  <2>3. CASE PublishResult(t) \/ PublishError(t)
    BY <2>3 DEF PublishResult, PublishError, Steps
  <2>4. CASE Acknowledge(t)
    BY <2>4 DEF Acknowledge
  <2>5. CASE TaskFails(t)
    BY <2>5 DEF TaskFails, Steps
  <2> QED
    BY <2>1, <2>2, <2>3, <2>4, <2>5 DEF Process
<1> QED
  BY <1>3, <1>4, <1>5

LEMMA StopStepFine ==
    ASSUME TypeOK, OneHolder, Balanced, NEW p \in Pools,
           StopTimeout(p) \/ CancelRest(p) \/ Exit(p) \/ Crash(p)
    PROVE  TasksFine /\ ActiveIds' \subseteq ActiveIds
<1>1. Unique
  BY DEF OneHolder, Unique
<1>2. CASE StopTimeout(p)
  <2>1. Gathered(p) \in SUBSET Active(p) /\ End(p, Gathered(p))
    BY <1>2 DEF StopTimeout, Gathered
  <2> QED
    BY <1>1, <2>1, EndFine
<1>3. CASE CancelRest(p)
  <2>1. Active(p) \in SUBSET Active(p) /\ End(p, Active(p))
    BY <1>3 DEF CancelRest
  <2> QED
    BY <1>1, <2>1, EndFine
<1>4. CASE Exit(p) \/ Crash(p)
  <2>1. Down(p)
    BY <1>4 DEF Exit, Crash
  <2> QED
    BY <1>1, <2>1, DownFine
<1> QED
  BY <1>2, <1>3, <1>4

LEMMA QuietStepFine ==
    ASSUME TypeOK, OneHolder, Balanced, UNCHANGED taskVars
    PROVE  TasksFine /\ ActiveIds' = ActiveIds
<1>1. tasks' = tasks /\ permits' = permits
  BY DEF taskVars
<1>2. Balanced' /\ Unique' /\ ActiveIds' = ActiveIds
  BY <1>1 DEF Balanced, Unique, OneHolder, Active, ActiveIds
<1> QED
  BY <1>1, <1>2 DEF TasksFine, TypeOK, TaskTypes

LEMMA StepBalanced ==
    TypeOK /\ OneHolder /\ Balanced /\ [Next]_vars => Balanced'
<1> SUFFICES ASSUME TypeOK, OneHolder, Balanced, [Next]_vars PROVE TasksFine
  BY DEF TasksFine
<1>1. CASE Publish \/ UNCHANGED vars
  BY <1>1, QuietStepFine DEF Publish, vars
<1>2. ASSUME NEW p \in Pools,
             \/ Start(p) \/ Read(p) \/ ReadNothing(p) \/ Sift(p) \/ Backoff(p)
             \/ Stop(p) \/ StopReturns(p) \/ LoopFails(p)
      PROVE  TasksFine
  <2>1. UNCHANGED taskVars
    BY <1>2 DEF Start, Read, ReadNothing, Sift, Backoff, Stop, StopReturns, LoopFails
  <2> QED
    BY <2>1, QuietStepFine
<1>3. ASSUME NEW p \in Pools, Spawn(p) PROVE TasksFine
  BY <1>3, SpawnStepFine
<1>4. ASSUME NEW p \in Pools, StopTimeout(p) \/ CancelRest(p) \/ Exit(p) \/ Crash(p)
      PROVE  TasksFine
  BY <1>4, StopStepFine
<1>5. ASSUME NEW t \in tasks, Process(t) \/ Agent(t) \/ TaskFails(t)
      PROVE  TasksFine
  BY <1>5, TaskStepFine
<1> QED
  BY <1>1, <1>2, <1>3, <1>4, <1>5 DEF Next, EventLoop, Stopping

-----------------------------------------------------------------------------
(* Only requests become tasks, and requests have a key.                    *)

LEMMA TaskFacts ==
    ASSUME TypeOK, Requested, NEW t \in tasks
    PROVE  /\ t.id \in 1..cursor /\ t.id \in Ids /\ t.pool \in Pools /\ t.step \in Steps
           /\ stream[t.id] \in Entry /\ CanHandle(stream[t.id]) /\ Key(t) \in Keys
<1>1. t.id \in 1..cursor /\ t.id \in Ids /\ t.pool \in Pools /\ t.step \in Steps
  BY DEF TypeOK, Ids
<1>2. stream[t.id] \in Entry
  BY <1>1 DEF TypeOK, Ids
<1> QED
  BY <1>1, <1>2 DEF Requested, Key

LEMMA NextTurnTyping ==
    ASSUME TypeOK, NEW p \in Pools, NextTurn(p)
    PROVE  /\ state' \in [Pools -> {"stopped", "running", "shutting_down"}]
           /\ loop' \in [Pools -> Loops]
BY DEF TypeOK, NextTurn, Goto, Loops

LEMMA DeliverTyping ==
    ASSUME TypeOK, Deliver,
           UNCHANGED <<stream, trimmed, marks, tasks, waited, succeeded, completed, errored>>
    PROVE  /\ trimmed' \in 0..Len(stream') /\ cursor' \in 0..Len(stream')
           /\ pending' \subseteq 1..cursor' /\ Fresh \in SUBSET (1..cursor')
           /\ marks' \in [Keys -> 0..cursor']
           /\ batch \in [Pools -> SUBSET (1..cursor')]
           /\ tasks' \subseteq TaskTypes(cursor')
           /\ waited' \in [Pools -> SUBSET (1..cursor')]
           /\ acked \subseteq 1..cursor' /\ succeeded' \subseteq 1..cursor'
           /\ completed' \subseteq 1..cursor' /\ errored' \subseteq 1..cursor'
<1>1. cursor' \in Nat /\ cursor <= cursor' /\ cursor' <= Len(stream)
  BY DeliverBounds DEF TypeOK
<1>2. /\ 1..cursor \subseteq 1..cursor' /\ 0..cursor \subseteq 0..cursor'
      /\ TaskTypes(cursor) \subseteq TaskTypes(cursor')
  BY <1>1, CursorGrows
<1>3. Fresh \in SUBSET (1..cursor')
  BY DeliverBounds DEF TypeOK
<1>4. pending' \subseteq 1..cursor'
  BY <1>2, <1>3, DeliverBounds DEF TypeOK
<1>5. tasks' \subseteq TaskTypes(cursor')
  BY <1>2 DEF TypeOK, TaskTypes
<1>6. /\ marks' \in [Keys -> 0..cursor']
      /\ batch \in [Pools -> SUBSET (1..cursor')]
      /\ waited' \in [Pools -> SUBSET (1..cursor')]
  BY <1>2 DEF TypeOK
<1> QED
  BY <1>1, <1>2, <1>3, <1>4, <1>5, <1>6 DEF TypeOK

LEMMA StepTypeOK ==
    TypeOK /\ OneHolder /\ Balanced /\ Requested /\ [Next]_vars => TypeOK'
<1> SUFFICES ASSUME TypeOK, OneHolder, Balanced, Requested, [Next]_vars PROVE TypeOK'
  OBVIOUS
<1>1. CASE Publish
  <2>1. PICK e \in Publishable : XAdd(e)
    BY <1>1 DEF Publish
  <2>2. e \in Entry
    BY PoolAssumption
  <2>3. cursor' \in 0..Len(stream')
    BY <1>1, <2>1, <2>2, XAddExtends DEF Publish, TypeOK
  <2> QED
    BY <1>1, <2>1, <2>2, <2>3, XAddExtends
    DEF Publish, TypeOK, loopVars, taskVars, stopVars, histVars, envVars
<1>2. ASSUME NEW p \in Pools, Start(p) PROVE TypeOK'
  BY <1>2 DEF Start, Goto, TypeOK, Loops, redisVars, taskVars, stopVars, histVars, envVars
<1>3. ASSUME NEW p \in Pools, Read(p) PROVE TypeOK'
  <2>1. UNCHANGED <<stream, trimmed, marks, tasks, waited, succeeded, completed, errored,
                    acked, permits, state, stopper, runs, crashes, faults, stops>>
    BY <1>3 DEF Read, taskVars, stopVars, histVars, envVars
  <2>2. Deliver /\ loop' \in [Pools -> Loops]
    BY <1>3 DEF Read, Goto, TypeOK, Loops
  <2>3. batch' \in [Pools -> SUBSET (1..cursor')]
    <3>1. /\ Fresh \in SUBSET (1..cursor')
          /\ batch \in [Pools -> SUBSET (1..cursor')]
      BY <2>1, <2>2, DeliverTyping
    <3>2. batch' = [batch EXCEPT ![p] = Fresh]
      BY <1>3 DEF Read
    <3> QED
      BY <3>1, <3>2, ExceptTyping
  <2> QED
    BY <2>1, <2>2, <2>3, DeliverTyping DEF TypeOK, TaskTypes
<1>4. ASSUME NEW p \in Pools, ReadNothing(p) \/ Backoff(p) PROVE TypeOK'
  BY <1>4, NextTurnTyping
  DEF ReadNothing, Backoff, TypeOK, redisVars, taskVars, stopVars, histVars, envVars
<1>5. ASSUME NEW p \in Pools, Sift(p) PROVE TypeOK'
  <2>1. loop' \in [Pools -> Loops]
    BY <1>5 DEF Sift, Goto, TypeOK, Loops
  <2>2. \A i \in Odd(p) : i \in 1..cursor
    BY DEF Odd, Firsts, TypeOK
  <2>3. pending' \subseteq 1..cursor /\ acked' \subseteq 1..cursor
    BY <1>5, <2>2 DEF Sift, XAck, TypeOK
  <2>4. batch' \in [Pools -> SUBSET (1..cursor)]
    BY <1>5 DEF Sift, TypeOK
  <2> QED
    BY <1>5, <2>1, <2>3, <2>4 DEF Sift, TypeOK, taskVars, stopVars, envVars
<1>6. ASSUME NEW p \in Pools, Spawn(p) PROVE TypeOK'
  <2>1. TasksFine
    BY <1>6, SpawnStepFine
  <2>2. /\ state' \in [Pools -> {"stopped", "running", "shutting_down"}]
        /\ loop' \in [Pools -> Loops]
    <3>1. CASE NextTurn(p)
      BY <3>1, NextTurnTyping
    <3>2. CASE Goto(p, "acquire") /\ UNCHANGED state
      BY <3>2 DEF Goto, TypeOK, Loops
    <3> QED
      BY <1>6, <3>1, <3>2 DEF Spawn
  <2>3. batch' \in [Pools -> SUBSET (1..cursor)]
    <3>1. /\ batch \in [Pools -> SUBSET (1..cursor)]
          /\ batch[p] \ Chosen(p) \in SUBSET (1..cursor) /\ {} \in SUBSET (1..cursor)
      BY DEF TypeOK
    <3>2. \/ batch' = [batch EXCEPT ![p] = batch[p] \ Chosen(p)]
          \/ batch' = [batch EXCEPT ![p] = {}]
      BY <1>6 DEF Spawn
    <3> QED
      BY <3>1, <3>2, ExceptTyping
  <2> QED
    BY <1>6, <2>1, <2>2, <2>3
    DEF Spawn, TypeOK, TasksFine, TaskTypes, redisVars, stopVars, histVars, envVars
<1>7. ASSUME NEW p \in Pools, Stop(p) PROVE TypeOK'
  <2>1. {t.id : t \in Active(p)} \in SUBSET (1..cursor)
    BY DEF Active, TypeOK
  <2>2. waited' \in [Pools -> SUBSET (1..cursor)]
    <3>1. waited' = [waited EXCEPT ![p] = {t.id : t \in Active(p)}]
      BY <1>7 DEF Stop
    <3>2. waited \in [Pools -> SUBSET (1..cursor)]
      BY DEF TypeOK
    <3> QED
      BY <2>1, <3>1, <3>2, ExceptTyping
  <2>3. stopper' \in [Pools -> {"none", "waiting", "cancelling"}]
    BY <1>7 DEF Stop, TypeOK
  <2> QED
    BY <1>7, <2>2, <2>3 DEF Stop, TypeOK, redisVars, taskVars, histVars
<1>8. ASSUME NEW p \in Pools, StopReturns(p) PROVE TypeOK'
  BY <1>8 DEF StopReturns, TypeOK, redisVars, loopVars, taskVars, histVars, envVars
<1>9. ASSUME NEW p \in Pools, StopTimeout(p) \/ CancelRest(p) PROVE TypeOK'
  <2>1. TasksFine
    BY <1>9, StopStepFine
  <2>2. stopper' \in [Pools -> {"none", "waiting", "cancelling"}]
    BY <1>9 DEF StopTimeout, CancelRest, TypeOK
  <2> QED
    BY <1>9, <2>1, <2>2
    DEF StopTimeout, CancelRest, TypeOK, TasksFine, TaskTypes, redisVars, loopVars,
        histVars, envVars
<1>10. ASSUME NEW p \in Pools, Exit(p) \/ Crash(p) PROVE TypeOK'
  <2>1. TasksFine
    BY <1>10, StopStepFine
  <2>2. /\ state' \in [Pools -> {"stopped", "running", "shutting_down"}]
        /\ loop' \in [Pools -> Loops]
        /\ stopper' \in [Pools -> {"none", "waiting", "cancelling"}]
    BY <1>10 DEF Exit, Crash, Down, Goto, TypeOK, Loops
  <2>3. batch' \in [Pools -> SUBSET (1..cursor)] /\ waited' \in [Pools -> SUBSET (1..cursor)]
    <3>1. batch' = [batch EXCEPT ![p] = {}] /\ waited' = [waited EXCEPT ![p] = {}]
      BY <1>10 DEF Exit, Crash, Down
    <3>2. {} \in SUBSET (1..cursor)
      OBVIOUS
    <3> QED
      BY <3>1, <3>2, ExceptTyping DEF TypeOK
  <2>4. crashes' \in Nat /\ faults' \in Nat /\ stops' \in Nat
    BY <1>10 DEF Exit, Crash, envVars, TypeOK
  <2> QED
    BY <1>10, <2>1, <2>2, <2>3, <2>4
    DEF Exit, Crash, TypeOK, TasksFine, TaskTypes, redisVars, histVars
<1>11. ASSUME NEW p \in Pools, LoopFails(p) PROVE TypeOK'
  <2>1. UNCHANGED <<stream, trimmed, marks, tasks, permits, waited, stopper, state,
                    succeeded, completed, errored, runs, crashes, stops>>
    BY <1>11 DEF LoopFails, taskVars, stopVars
  <2>2. loop' \in [Pools -> Loops] /\ faults' \in Nat
    BY <1>11 DEF LoopFails, Goto, TypeOK, Loops
  <2>3. CASE Deliver /\ UNCHANGED <<batch, acked>>
    BY <2>1, <2>2, <2>3, DeliverTyping DEF TypeOK, TaskTypes
  <2>4. CASE UNCHANGED <<cursor, pending, batch, acked>>
    BY <2>1, <2>2, <2>4 DEF TypeOK
  <2>5. CASE /\ \E i \in Odd(p) : XAck(i) \/ UNCHANGED <<pending, acked>>
             /\ batch' = [batch EXCEPT ![p] = {}]
             /\ UNCHANGED cursor
    <3>1. \A i \in Odd(p) : i \in 1..cursor
      BY DEF Odd, Firsts, TypeOK
    <3>2. pending' \subseteq 1..cursor /\ acked' \subseteq 1..cursor
      BY <2>5, <3>1 DEF XAck, TypeOK
    <3>3. batch' \in [Pools -> SUBSET (1..cursor)]
      BY <2>5 DEF TypeOK
    <3> QED
      BY <2>1, <2>2, <2>5, <3>2, <3>3 DEF TypeOK
  <2> QED
    BY <1>11, <2>3, <2>4, <2>5 DEF LoopFails
<1>12. ASSUME NEW t \in tasks, Process(t) \/ Agent(t) \/ TaskFails(t) PROVE TypeOK'
  <2>1. TasksFine
    BY <1>12, TaskStepFine
  <2>2. t.id \in 1..cursor /\ Key(t) \in Keys
    BY TaskFacts
  <2>3. UNCHANGED <<cursor, loopVars, stopVars, crashes, stops>>
    BY <1>12 DEF Process, Mark, PublishResult, PublishError, Acknowledge, Agent, TaskFails,
                 redisVars, envVars
  <2>4. /\ stream' \in Seq(Entry) /\ trimmed' \in 0..Len(stream')
        /\ cursor \in 0..Len(stream')
    <3>1. CASE XAdd(Answer)
      <4>1. /\ stream' \in Seq(Entry) /\ trimmed' \in 0..Len(stream')
            /\ Len(stream') = Len(stream) + 1
        BY <3>1, AnswerIsEntry, XAddExtends
      <4>2. Len(stream) \in Nat /\ cursor \in 0..Len(stream)
        BY DEF TypeOK
      <4>3. cursor \in 0..Len(stream')
        BY <4>1, <4>2
      <4> QED
        BY <4>1, <4>3
    <3>2. CASE UNCHANGED <<stream, trimmed>>
      BY <3>2 DEF TypeOK
    <3> QED
      BY <1>12, <3>1, <3>2
      DEF Process, Mark, PublishResult, PublishError, Acknowledge, Agent, TaskFails,
          AddResult, redisVars
  <2>5. pending' \subseteq 1..cursor /\ acked' \subseteq 1..cursor
    <3>1. CASE XAck(t.id)
      BY <2>2, <3>1 DEF XAck, TypeOK
    <3>2. CASE UNCHANGED <<pending, acked>>
      BY <3>2 DEF TypeOK
    <3> QED
      BY <1>12, <3>1, <3>2
      DEF Process, Mark, PublishResult, PublishError, Acknowledge, Agent, TaskFails, redisVars
  <2>6. marks' \in [Keys -> 0..cursor]
    <3>1. CASE SetNX(t)
      BY <2>2, <3>1 DEF SetNX, TypeOK
    <3>2. CASE UNCHANGED marks
      BY <3>2 DEF TypeOK
    <3> QED
      BY <1>12, <3>1, <3>2
      DEF Process, Mark, PublishResult, PublishError, Acknowledge, Agent, TaskFails, redisVars
  <2>7. /\ succeeded' \subseteq 1..cursor /\ completed' \subseteq 1..cursor
        /\ errored' \subseteq 1..cursor
    BY <1>12, <2>2
    DEF Process, Mark, PublishResult, PublishError, Acknowledge, Agent, TaskFails,
        AddResult, TypeOK
  <2>8. runs' \in [Keys -> Nat] /\ faults' \in Nat
    <3>1. CASE Mark(t)
      BY <2>2, <3>1 DEF Mark, TypeOK, envVars
    <3>2. CASE ~Mark(t)
      BY <1>12, <3>2
      DEF Process, PublishResult, PublishError, Acknowledge, Agent, TaskFails, TypeOK, envVars
    <3> QED
      BY <3>1, <3>2
  <2> QED
    BY <2>1, <2>3, <2>4, <2>5, <2>6, <2>7, <2>8
    DEF TasksFine, TaskTypes, TypeOK, loopVars, stopVars
<1>13. CASE UNCHANGED vars
  BY <1>13 DEF vars, TypeOK, redisVars, loopVars, taskVars, stopVars, histVars, envVars
<1> QED
  BY <1>1, <1>2, <1>3, <1>4, <1>5, <1>6, <1>7, <1>8, <1>9, <1>10, <1>11, <1>12, <1>13
  DEF Next, EventLoop, Stopping

-----------------------------------------------------------------------------
(* OneHolder and Requested are preserved.                                  *)

LEMMA HeldLess ==
    ASSUME TypeOK, OneHolder, TasksFine, ActiveIds' \subseteq ActiveIds,
           \A q \in Pools : batch'[q] \subseteq batch[q]
    PROVE  OneHolder'
BY DEF OneHolder, TasksFine, Unique

LEMMA StepOneHolder ==
    TypeOK /\ OneHolder /\ Balanced /\ [Next]_vars => OneHolder'
<1> SUFFICES ASSUME TypeOK, OneHolder, Balanced, [Next]_vars PROVE OneHolder'
  OBVIOUS
<1>1. CASE Publish \/ UNCHANGED vars
  <2>1. TasksFine /\ ActiveIds' = ActiveIds /\ batch' = batch
    BY <1>1, QuietStepFine DEF Publish, vars, loopVars
  <2> QED
    BY <2>1, HeldLess
<1>2. ASSUME NEW p \in Pools,
             \/ Start(p) \/ ReadNothing(p) \/ Sift(p) \/ Backoff(p)
             \/ Stop(p) \/ StopReturns(p) \/ LoopFails(p)
      PROVE  OneHolder'
  <2>1. TasksFine /\ ActiveIds' = ActiveIds
    <3>1. UNCHANGED taskVars
      BY <1>2 DEF Start, ReadNothing, Sift, Backoff, Stop, StopReturns, LoopFails
    <3> QED
      BY <3>1, QuietStepFine
  <2>2. ASSUME NEW q \in Pools PROVE batch'[q] \subseteq batch[q]
    <3>1. \/ batch' = batch
          \/ batch' = [batch EXCEPT ![p] = {}]
          \/ \E i \in Odd(p) : batch' = [batch EXCEPT ![p] = @ \ {i}]
      BY <1>2 DEF Start, ReadNothing, Sift, Backoff, Stop, StopReturns, LoopFails, loopVars
    <3> QED
      BY <3>1 DEF TypeOK
  <2> QED
    BY <2>1, <2>2, HeldLess
<1>3. ASSUME NEW p \in Pools, Read(p) PROVE OneHolder'
  <2>1. TasksFine /\ ActiveIds' = ActiveIds
    BY <1>3, QuietStepFine DEF Read
  <2>2. batch' = [batch EXCEPT ![p] = Fresh] /\ \A i \in Fresh : i > cursor
    BY <1>3, DeliverBounds DEF Read, TypeOK
  <2>3. /\ ActiveIds \subseteq 1..cursor
        /\ \A q \in Pools : batch[q] \subseteq 1..cursor
    BY DEF ActiveIds, TypeOK
  <2>4. /\ Fresh \cap ActiveIds = {}
        /\ \A q \in Pools : Fresh \cap batch[q] = {}
    <3>1. ASSUME NEW i \in Fresh PROVE i \notin 1..cursor
      <4>1. i > cursor /\ cursor \in Nat
        BY <2>2 DEF TypeOK
      <4>2. i \in Nat
        BY <1>3, DeliverBounds DEF Read, TypeOK
      <4> QED
        BY <4>1, <4>2
    <3> QED
      BY <2>3, <3>1
  <2>5. \A q \in Pools : batch'[q] = IF q = p THEN Fresh ELSE batch[q]
    BY <2>2 DEF TypeOK
  <2> QED
    BY <2>1, <2>4, <2>5 DEF OneHolder, TasksFine, Unique
<1>4. ASSUME NEW p \in Pools, Spawn(p) PROVE OneHolder'
  <2>1. /\ TasksFine
        /\ ActiveIds' = ActiveIds \cup Chosen(p)
        /\ Chosen(p) \in SUBSET batch[p]
    BY <1>4, SpawnStepFine
  <2>2. \/ batch' = [batch EXCEPT ![p] = batch[p] \ Chosen(p)]
        \/ batch' = [batch EXCEPT ![p] = {}]
    BY <1>4 DEF Spawn
  <2>3. /\ batch'[p] \subseteq batch[p] \ Chosen(p)
        /\ \A q \in Pools \ {p} : batch'[q] = batch[q]
    BY <2>2 DEF TypeOK
  <2>4. ASSUME NEW q \in Pools PROVE batch'[q] \cap ActiveIds' = {}
    <3>1. batch[q] \cap ActiveIds = {} /\ (q # p => batch[q] \cap batch[p] = {})
      BY DEF OneHolder
    <3> QED
      BY <2>1, <2>3, <3>1
  <2>5. ASSUME NEW q \in Pools, NEW r \in Pools \ {q} PROVE batch'[q] \cap batch'[r] = {}
    <3>1. batch[q] \cap batch[r] = {}
      BY DEF OneHolder
    <3>2. batch'[q] \subseteq batch[q] /\ batch'[r] \subseteq batch[r]
      BY <2>3
    <3> QED
      BY <3>1, <3>2
  <2> QED
    BY <2>1, <2>4, <2>5 DEF OneHolder, TasksFine, Unique
<1>5. ASSUME NEW p \in Pools, StopTimeout(p) \/ CancelRest(p) \/ Exit(p) \/ Crash(p)
      PROVE  OneHolder'
  <2>1. TasksFine /\ ActiveIds' \subseteq ActiveIds
    BY <1>5, StopStepFine
  <2>2. batch' = batch \/ batch' = [batch EXCEPT ![p] = {}]
    BY <1>5 DEF StopTimeout, CancelRest, Exit, Crash, Down, loopVars
  <2> QED
    BY <2>1, <2>2, HeldLess DEF TypeOK
<1>6. ASSUME NEW t \in tasks, Process(t) \/ Agent(t) \/ TaskFails(t)
      PROVE  OneHolder'
  <2>1. TasksFine /\ ActiveIds' \subseteq ActiveIds
    BY <1>6, TaskStepFine
  <2>2. batch' = batch
    BY <1>6 DEF Process, Mark, PublishResult, PublishError, Acknowledge, Agent, TaskFails,
                loopVars
  <2> QED
    BY <2>1, <2>2, HeldLess
<1> QED
  BY <1>1, <1>2, <1>3, <1>4, <1>5, <1>6 DEF Next, EventLoop, Stopping

(* Nothing recorded is taken back.                                         *)
Grows == /\ cursor' \in Nat /\ cursor <= cursor'
         /\ Len(stream) <= Len(stream')
         /\ \A i \in Ids : stream'[i] = stream[i]
         /\ \A i \in Ids' \ Ids : CanHandle(stream'[i]) => stream'[i].key \in Keys
         /\ \A k \in Keys : marks[k] # 0 => marks'[k] = marks[k]
         /\ succeeded \subseteq succeeded' /\ acked \subseteq acked'
         /\ completed \subseteq completed' /\ errored \subseteq errored'
         /\ crashes' \in Nat /\ crashes <= crashes'
         /\ faults' \in Nat /\ faults <= faults'
         /\ stops' \in Nat /\ stops <= stops'

LEMMA StepGrows == TypeOK /\ Requested /\ [Next]_vars => Grows
<1> SUFFICES ASSUME TypeOK, Requested, [Next]_vars PROVE Grows
  OBVIOUS
<1>1. ASSUME NEW e \in Entry, XAdd(e), CanHandle(e) => e.key \in Keys
      PROVE  /\ Len(stream) <= Len(stream')
             /\ \A i \in Ids : stream'[i] = stream[i]
             /\ \A i \in Ids' \ Ids : CanHandle(stream'[i]) => stream'[i].key \in Keys
  <2>1. Len(stream) \in Nat /\ Len(stream') = Len(stream) + 1
    BY <1>1, XAddExtends DEF TypeOK
  <2>2. \A i \in Ids' \ Ids : i = Len(stream) + 1
    BY <2>1 DEF Ids
  <2> QED
    BY <1>1, <2>1, <2>2, XAddExtends
<1>2. CASE Publish
  <2>1. PICK e \in Publishable : XAdd(e)
    BY <1>2 DEF Publish
  <2>2. e \in Entry /\ (CanHandle(e) => e.key \in Keys)
    BY PoolAssumption
  <2>3. UNCHANGED <<cursor, marks, succeeded, acked, completed, errored, crashes, faults, stops>>
    BY <1>2 DEF Publish, histVars, envVars
  <2> QED
    BY <1>1, <2>1, <2>2, <2>3 DEF Grows, TypeOK
<1>3. ASSUME UNCHANGED stream
      PROVE  /\ Len(stream) <= Len(stream')
             /\ \A i \in Ids : stream'[i] = stream[i]
             /\ \A i \in Ids' \ Ids : CanHandle(stream'[i]) => stream'[i].key \in Keys
  BY <1>3 DEF Ids, TypeOK
<1>4. ASSUME NEW p \in Pools,
             \/ Start(p) \/ EventLoop(p) \/ Stop(p) \/ Stopping(p) \/ Crash(p) \/ LoopFails(p)
      PROVE  Grows
  <2>1. UNCHANGED <<stream, marks, succeeded, completed, errored>>
    BY <1>4 DEF Start, EventLoop, Read, ReadNothing, Sift, Spawn, Backoff, Stop, Stopping,
                StopReturns, StopTimeout, CancelRest, Exit, Crash, LoopFails, redisVars, histVars
  <2>2. acked \subseteq acked'
    BY <1>4 DEF Start, EventLoop, Read, ReadNothing, Sift, XAck, Spawn, Backoff, Stop, Stopping,
                StopReturns, StopTimeout, CancelRest, Exit, Crash, LoopFails, histVars
  <2>3. cursor' \in Nat /\ cursor <= cursor'
    <3>1. CASE Deliver
      BY <3>1, DeliverBounds DEF TypeOK
    <3>2. CASE UNCHANGED cursor
      BY <3>2 DEF TypeOK
    <3> QED
      BY <1>4, <3>1, <3>2
      DEF Start, EventLoop, Read, ReadNothing, Sift, Spawn, Backoff, Stop, Stopping,
          StopReturns, StopTimeout, CancelRest, Exit, Crash, LoopFails, redisVars
  <2>4. /\ crashes' \in Nat /\ crashes <= crashes'
        /\ faults' \in Nat /\ faults <= faults'
        /\ stops' \in Nat /\ stops <= stops'
    BY <1>4 DEF Start, EventLoop, Read, ReadNothing, Sift, Spawn, Backoff, Stop, Stopping,
                StopReturns, StopTimeout, CancelRest, Exit, Crash, LoopFails, envVars, TypeOK
  <2> QED
    BY <1>3, <2>1, <2>2, <2>3, <2>4 DEF Grows
<1>5. ASSUME NEW t \in tasks, Process(t) \/ Agent(t) \/ TaskFails(t) PROVE Grows
  <2>1. Key(t) \in Keys
    BY TaskFacts
  <2>2. /\ Len(stream) <= Len(stream')
        /\ \A i \in Ids : stream'[i] = stream[i]
        /\ \A i \in Ids' \ Ids : CanHandle(stream'[i]) => stream'[i].key \in Keys
    <3>1. CASE XAdd(Answer)
      <4>1. Answer \in Entry /\ ~CanHandle(Answer)
        BY AnswerIsEntry DEF Answer, CanHandle
      <4> QED
        BY <1>1, <3>1, <4>1
    <3>2. CASE UNCHANGED stream
      BY <1>3, <3>2
    <3> QED
      BY <1>5, <3>1, <3>2
      DEF Process, Mark, PublishResult, PublishError, Acknowledge, Agent, TaskFails,
          AddResult, redisVars
  <2>3. \A k \in Keys : marks[k] # 0 => marks'[k] = marks[k]
    <3>1. CASE SetNX(t)
      BY <2>1, <3>1 DEF SetNX, TypeOK
    <3> QED
      BY <1>5, <3>1
      DEF Process, Mark, PublishResult, PublishError, Acknowledge, Agent, TaskFails, redisVars
  <2>4. /\ succeeded \subseteq succeeded' /\ acked \subseteq acked'
        /\ completed \subseteq completed' /\ errored \subseteq errored'
    BY <1>5 DEF Process, Mark, PublishResult, PublishError, Acknowledge, Agent, TaskFails,
                AddResult, XAck
  <2>5. /\ crashes' \in Nat /\ crashes <= crashes'
        /\ faults' \in Nat /\ faults <= faults'
        /\ stops' \in Nat /\ stops <= stops'
        /\ cursor' \in Nat /\ cursor <= cursor'
    BY <1>5 DEF Process, Mark, PublishResult, PublishError, Acknowledge, Agent, TaskFails,
                envVars, redisVars, TypeOK
  <2> QED
    BY <2>2, <2>3, <2>4, <2>5 DEF Grows
<1>6. CASE UNCHANGED vars
  BY <1>3, <1>6 DEF vars, redisVars, histVars, envVars, Grows, TypeOK
<1> QED
  BY <1>2, <1>4, <1>5, <1>6 DEF Next

LEMMA InitRequested == Init => Requested
<1> SUFFICES ASSUME Init PROVE Requested
  OBVIOUS
<1>1. ASSUME NEW i \in Ids PROVE ~CanHandle(stream[i])
  <2>1. CASE stream = <<>>
    <3>1. Ids = {}
      BY <2>1 DEF Ids
    <3> QED
      BY <3>1
  <2>2. CASE stream = <<Placeholder>>
    <3>1. Len(stream) = 1 /\ stream[1] = Placeholder
      BY <2>2
    <3>2. i = 1
      BY <3>1 DEF Ids
    <3> QED
      BY <3>1, <3>2 DEF Placeholder, CanHandle
  <2> QED
    BY <2>1, <2>2 DEF Init
<1> QED
  BY <1>1 DEF Init, Requested

LEMMA StepRequested ==
    TypeOK /\ OneHolder /\ Balanced /\ Requested /\ [Next]_vars => Requested'
<1> SUFFICES ASSUME TypeOK, OneHolder, Balanced, Requested, [Next]_vars PROVE Requested'
  OBVIOUS
<1>0. Grows
  BY StepGrows
<1>1. \A i \in Ids' : CanHandle(stream'[i]) => stream'[i].key \in Keys
  BY <1>0 DEF Grows, Requested
<1>2. \A i \in 1..cursor : i \in Ids /\ stream'[i] = stream[i]
  BY <1>0 DEF Grows, TypeOK, Ids
<1>3. \A p \in Pools : \A i \in batch[p] : stream'[i] = stream[i]
  BY <1>2 DEF TypeOK
<1>4. \A t \in tasks : stream'[t.id] = stream[t.id]
  BY <1>2 DEF TypeOK
<1>5. ASSUME \A i \in ActiveIds' : CanHandle(stream'[i]),
             \A p \in Pools : loop'[p] \in {"spawn", "acquire"} =>
                 \A i \in batch'[p] : CanHandle(stream'[i])
      PROVE  Requested'
  BY <1>1, <1>5 DEF Requested, ActiveIds
<1>6. \A i \in ActiveIds : CanHandle(stream'[i])
  BY <1>4 DEF ActiveIds, Requested
<1>7. ASSUME (UNCHANGED loop), \A q \in Pools : batch'[q] \subseteq batch[q]
      PROVE  \A q \in Pools : loop'[q] \in {"spawn", "acquire"} =>
                 \A i \in batch'[q] : CanHandle(stream'[i])
  BY <1>3, <1>7 DEF Requested
<1>8. ASSUME NEW p \in Pools, NEW l \in (Loops \ {"spawn", "acquire"}), Goto(p, l),
             \A q \in Pools \ {p} : batch'[q] = batch[q]
      PROVE  \A q \in Pools : loop'[q] \in {"spawn", "acquire"} =>
                 \A i \in batch'[q] : CanHandle(stream'[i])
  BY <1>3, <1>8 DEF Requested, Goto, TypeOK
<1>9. CASE Publish \/ UNCHANGED vars
  <2>1. ActiveIds' = ActiveIds /\ UNCHANGED <<loop, batch>>
    BY <1>9 DEF Publish, vars, taskVars, loopVars, ActiveIds
  <2> QED
    BY <1>5, <1>6, <1>7, <2>1
<1>10. ASSUME NEW p \in Pools,
              \/ Start(p) \/ Read(p) \/ ReadNothing(p) \/ Backoff(p) \/ LoopFails(p)
       PROVE  Requested'
  <2>1. ActiveIds' = ActiveIds
    BY <1>10 DEF Start, Read, ReadNothing, Backoff, LoopFails, taskVars, ActiveIds
  <2>2. \E l \in Loops \ {"spawn", "acquire"} : Goto(p, l)
    BY <1>10 DEF Start, Read, ReadNothing, Backoff, LoopFails, NextTurn, Loops
  <2>3. \A q \in Pools \ {p} : batch'[q] = batch[q]
    BY <1>10 DEF Start, Read, ReadNothing, Backoff, LoopFails, TypeOK
  <2> QED
    BY <1>5, <1>6, <1>8, <2>1, <2>2, <2>3
<1>11. ASSUME NEW p \in Pools, Sift(p) PROVE Requested'
  <2>1. ActiveIds' = ActiveIds
    BY <1>11 DEF Sift, taskVars, ActiveIds
  <2>2. CASE (\A i \in batch[p] : CanHandle(stream[i])) /\ Goto(p, "spawn") /\ UNCHANGED batch
    <3>1. \A q \in Pools : loop'[q] \in {"spawn", "acquire"} =>
              \A i \in batch'[q] : CanHandle(stream'[i])
      BY <1>3, <2>2 DEF Requested, Goto, TypeOK
    <3> QED
      BY <1>5, <1>6, <2>1, <3>1
  <2>3. CASE UNCHANGED loop /\ \E i \in Odd(p) : batch' = [batch EXCEPT ![p] = @ \ {i}]
    <3>1. \A q \in Pools : batch'[q] \subseteq batch[q]
      BY <2>3 DEF TypeOK
    <3> QED
      BY <1>5, <1>6, <1>7, <2>1, <2>3, <3>1
  <2>4. CASE Goto(p, "backoff") /\ batch' = [batch EXCEPT ![p] = {}]
    <3>1. \A q \in Pools \ {p} : batch'[q] = batch[q]
      BY <2>4 DEF TypeOK
    <3>2. "backoff" \in Loops \ {"spawn", "acquire"}
      BY DEF Loops
    <3> QED
      BY <1>5, <1>6, <1>8, <2>1, <2>4, <3>1, <3>2
  <2> QED
    BY <1>11, <2>2, <2>3, <2>4 DEF Sift
<1>12. ASSUME NEW p \in Pools, Spawn(p) PROVE Requested'
  <2>1. /\ ActiveIds' = ActiveIds \cup Chosen(p)
        /\ Chosen(p) \in SUBSET batch[p]
    BY <1>12, SpawnStepFine
  <2>2. loop[p] \in {"spawn", "acquire"}
    BY <1>12 DEF Spawn
  <2>3. \A i \in batch[p] : CanHandle(stream'[i])
    BY <1>3, <2>2 DEF Requested
  <2>4. \/ batch' = [batch EXCEPT ![p] = batch[p] \ Chosen(p)]
        \/ batch' = [batch EXCEPT ![p] = {}]
    BY <1>12 DEF Spawn
  <2>5. batch'[p] \subseteq batch[p] /\ \A q \in Pools \ {p} : batch'[q] = batch[q]
    BY <2>4 DEF TypeOK
  <2>6. \A q \in Pools \ {p} : loop'[q] = loop[q]
    BY <1>12 DEF Spawn, NextTurn, Goto, TypeOK
  <2>7. \A q \in Pools : loop'[q] \in {"spawn", "acquire"} =>
            \A i \in batch'[q] : CanHandle(stream'[i])
    BY <1>3, <2>3, <2>5, <2>6 DEF Requested
  <2> QED
    BY <1>5, <1>6, <2>1, <2>3, <2>7
<1>13. ASSUME NEW p \in Pools, Stop(p) \/ StopReturns(p) PROVE Requested'
  <2>1. ActiveIds' = ActiveIds /\ UNCHANGED <<loop, batch>>
    BY <1>13 DEF Stop, StopReturns, taskVars, loopVars, ActiveIds
  <2> QED
    BY <1>5, <1>6, <1>7, <2>1
<1>14. ASSUME NEW p \in Pools, StopTimeout(p) \/ CancelRest(p) PROVE Requested'
  <2>1. ActiveIds' \subseteq ActiveIds
    BY <1>14, StopStepFine
  <2>2. UNCHANGED <<loop, batch>>
    BY <1>14 DEF StopTimeout, CancelRest, loopVars
  <2> QED
    BY <1>5, <1>6, <1>7, <2>1, <2>2
<1>15. ASSUME NEW p \in Pools, Exit(p) \/ Crash(p) PROVE Requested'
  <2>1. ActiveIds' \subseteq ActiveIds
    BY <1>15, StopStepFine
  <2>2. Goto(p, "down") /\ batch' = [batch EXCEPT ![p] = {}]
    BY <1>15 DEF Exit, Crash, Down
  <2>3. \A q \in Pools \ {p} : batch'[q] = batch[q]
    BY <2>2 DEF TypeOK
  <2>4. "down" \in Loops \ {"spawn", "acquire"}
    BY DEF Loops
  <2> QED
    BY <1>5, <1>6, <1>8, <2>1, <2>2, <2>3, <2>4
<1>16. ASSUME NEW t \in tasks, Process(t) \/ Agent(t) \/ TaskFails(t) PROVE Requested'
  <2>1. ActiveIds' \subseteq ActiveIds
    BY <1>16, TaskStepFine
  <2>2. UNCHANGED <<loop, batch>>
    BY <1>16 DEF Process, Mark, PublishResult, PublishError, Acknowledge, Agent, TaskFails,
                 loopVars
  <2> QED
    BY <1>5, <1>6, <1>7, <2>1, <2>2
<1> QED
  BY <1>9, <1>10, <1>11, <1>12, <1>13, <1>14, <1>15, <1>16 DEF Next, EventLoop, Stopping

-----------------------------------------------------------------------------
(* What a task knows of its event.                                         *)

LEMMA KnownStays ==
    ASSUME TypeOK, Requested, Grows, NEW t \in tasks, Known(t)
    PROVE  Known(t)'
<1>1. /\ t.id \in 1..cursor /\ t.id \in Ids /\ CanHandle(stream[t.id]) /\ Key(t) \in Keys
  BY TaskFacts
<1>2. stream'[t.id] = stream[t.id] /\ Key(t)' = Key(t)
  BY <1>1 DEF Grows, Key
<1>3. t.id # 0 /\ (marks[Key(t)] # 0 => marks'[Key(t)] = marks[Key(t)])
  BY <1>1 DEF Grows, TypeOK
<1>4. Requests!Duplicate(t.id) => Requests!Duplicate(t.id)'
  BY <1>1, <1>2, <1>3 DEF Requests!Duplicate, Key
<1> QED
  BY <1>1, <1>2, <1>3, <1>4 DEF Known, Grows, Answered

-----------------------------------------------------------------------------
(* An event takes its key once.                                            *)

LEMMA InitUntaken == Init => Untaken
BY DEF Init, Untaken

(* Where marks do not change, batches and tasks at "mark" only shrink.     *)
LEMMA UntakenStays ==
    ASSUME TypeOK, Untaken, UNCHANGED marks,
           \A p \in Pools : batch'[p] \subseteq batch[p],
           \A t \in tasks' : t.step = "mark" =>
               t \in tasks \/ \E p \in Pools : t.id \in batch[p]
    PROVE  Untaken'
BY DEF Untaken, NotTaken

LEMMA StepUntaken ==
    /\ TypeOK /\ OneHolder /\ Balanced /\ Requested /\ Untaken
    /\ [Next]_vars
    => Untaken'
<1> SUFFICES ASSUME TypeOK, OneHolder, Balanced, Requested, Untaken, [Next]_vars
             PROVE  Untaken'
  OBVIOUS
<1>1. CASE Publish \/ UNCHANGED vars
  BY <1>1, UntakenStays DEF Publish, vars, redisVars, loopVars, taskVars
<1>2. ASSUME NEW p \in Pools,
             \/ Start(p) \/ ReadNothing(p) \/ Sift(p) \/ Backoff(p)
             \/ Stop(p) \/ Stopping(p) \/ Crash(p) \/ LoopFails(p)
      PROVE  Untaken'
  <2>1. UNCHANGED marks /\ tasks' \subseteq tasks
    BY <1>2 DEF Start, ReadNothing, Sift, Backoff, Stop, Stopping, StopReturns, StopTimeout,
                CancelRest, Exit, Crash, Down, End, LoopFails, redisVars, taskVars
  <2>2. ASSUME NEW q \in Pools PROVE batch'[q] \subseteq batch[q]
    <3>1. \/ batch' = batch
          \/ batch' = [batch EXCEPT ![p] = {}]
          \/ \E i \in Odd(p) : batch' = [batch EXCEPT ![p] = @ \ {i}]
      BY <1>2 DEF Start, ReadNothing, Sift, Backoff, Stop, Stopping, StopReturns, StopTimeout,
                  CancelRest, Exit, Crash, Down, LoopFails, loopVars
    <3> QED
      BY <3>1 DEF TypeOK
  <2> QED
    BY <2>1, <2>2, UntakenStays
<1>3. ASSUME NEW p \in Pools, Read(p) PROVE Untaken'
  <2>1. UNCHANGED <<marks, tasks>> /\ batch' = [batch EXCEPT ![p] = Fresh]
    BY <1>3 DEF Read, taskVars
  <2>2. ASSUME NEW i \in Fresh PROVE NotTaken(i)
    <3>1. i > cursor /\ i \in Nat /\ cursor \in Nat
      BY <1>3, DeliverBounds DEF Read, TypeOK
    <3>2. \A k \in Keys : marks[k] \in 0..cursor
      BY DEF TypeOK
    <3>3. i \notin 0..cursor
      BY <3>1
    <3> QED
      BY <3>2, <3>3 DEF NotTaken
  <2>3. \A q \in Pools : batch'[q] = IF q = p THEN Fresh ELSE batch[q]
    BY <2>1 DEF TypeOK
  <2> QED
    BY <2>1, <2>2, <2>3 DEF Untaken, NotTaken
<1>4. ASSUME NEW p \in Pools, Spawn(p) PROVE Untaken'
  <2>1. UNCHANGED marks
    BY <1>4 DEF Spawn, redisVars
  <2>2. tasks' = tasks \cup {[pool |-> p, id |-> i, step |-> "mark"] : i \in Chosen(p)}
    BY <1>4 DEF Spawn, SpawnAll
  <2>3. Chosen(p) \in SUBSET batch[p]
    BY <1>4, SpawnStepFine
  <2>4. \A t \in tasks' : t \in tasks \/ t.id \in batch[p]
    BY <2>2, <2>3
  <2>5. \A q \in Pools : batch'[q] \subseteq batch[q]
    BY <1>4 DEF Spawn, TypeOK
  <2> QED
    BY <2>1, <2>4, <2>5, UntakenStays
<1>5. ASSUME NEW t \in tasks, Process(t) \/ Agent(t) \/ TaskFails(t) PROVE Untaken'
  <2>1. UNCHANGED batch
    BY <1>5 DEF Process, Mark, PublishResult, PublishError, Acknowledge, Agent, TaskFails,
                loopVars
  <2>2. \A u \in tasks' : u.step = "mark" => u \in tasks /\ u # t
    <3>1. t \in [pool : Pools, id : 1..cursor, step : Steps]
      BY DEF TypeOK
    <3>2. \/ tasks' = tasks \ {t}
          \/ \E label \in Steps \ {"mark"} :
                 tasks' = (tasks \ {t}) \cup {[t EXCEPT !.step = label]}
      <4>1. CASE Mark(t)
        BY <4>1 DEF Mark, Move, Steps
      <4>2. CASE Agent(t)
        BY <4>2 DEF Agent, Move, Steps
      <4>3. CASE PublishResult(t) \/ PublishError(t)
        BY <4>3 DEF PublishResult, PublishError, Move, Steps
      <4>4. CASE Acknowledge(t)
        BY <4>4 DEF Acknowledge, End
      <4>5. CASE TaskFails(t)
        BY <4>5 DEF TaskFails, Move, End, Steps
      <4> QED
        BY <1>5, <4>1, <4>2, <4>3, <4>4, <4>5 DEF Process
    <3>3. CASE tasks' = tasks \ {t}
      BY <3>3
    <3>4. ASSUME NEW label \in (Steps \ {"mark"}),
                 tasks' = (tasks \ {t}) \cup {[t EXCEPT !.step = label]}
          PROVE  \A u \in tasks' : u.step = "mark" => u \in tasks /\ u # t
      <4>1. [t EXCEPT !.step = label].step = label
        BY <3>1
      <4> QED
        BY <3>4, <4>1
    <3> QED
      BY <3>2, <3>3, <3>4
  <2>3. CASE UNCHANGED marks
    BY <2>1, <2>2, <2>3, UntakenStays
  <2>4. CASE SetNX(t)
    <3>1. \A k \in Keys : marks'[k] = marks[k] \/ marks'[k] = t.id
      BY <2>4, TaskFacts DEF SetNX, TypeOK
    <3>2. ASSUME NEW p \in Pools, NEW i \in batch[p] PROVE NotTaken(i)'
      <4>1. i # t.id
        BY <3>2 DEF OneHolder, ActiveIds
      <4> QED
        BY <3>1, <4>1 DEF Untaken, NotTaken
    <3>3. ASSUME NEW u \in tasks, u.step = "mark", u # t PROVE NotTaken(u.id)'
      <4>1. u.id # t.id
        BY <3>3 DEF OneHolder
      <4> QED
        BY <3>1, <3>3, <4>1 DEF Untaken, NotTaken
    <3> QED
      BY <2>1, <2>2, <3>2, <3>3 DEF Untaken
  <2> QED
    BY <1>5, <2>3, <2>4
    DEF Process, Mark, PublishResult, PublishError, Acknowledge, Agent, TaskFails, redisVars
<1> QED
  BY <1>1, <1>2, <1>3, <1>4, <1>5 DEF Next, EventLoop

LEMMA InitTasksKnown == Init => TasksKnown
BY DEF Init, TasksKnown

LEMMA StepTasksKnown ==
    /\ TypeOK /\ OneHolder /\ Balanced /\ Requested /\ Untaken /\ TasksKnown
    /\ [Next]_vars
    => TasksKnown'
<1> SUFFICES ASSUME TypeOK, OneHolder, Balanced, Requested, Untaken, TasksKnown, [Next]_vars
             PROVE  TasksKnown'
  OBVIOUS
<1>1. Grows
  BY StepGrows
<1>2. \A t \in tasks : Known(t)'
  BY <1>1, KnownStays DEF TasksKnown
<1>3. ASSUME tasks' \subseteq tasks PROVE TasksKnown'
  BY <1>2, <1>3 DEF TasksKnown
<1>4. ASSUME NEW u, tasks' \subseteq tasks \cup {u}, Known(u)' PROVE TasksKnown'
  BY <1>2, <1>4 DEF TasksKnown
<1>5. CASE Publish \/ UNCHANGED vars
  BY <1>3, <1>5 DEF Publish, vars, taskVars
<1>6. ASSUME NEW p \in Pools,
             \/ Start(p) \/ Read(p) \/ ReadNothing(p) \/ Sift(p) \/ Backoff(p)
             \/ Stop(p) \/ Stopping(p) \/ Crash(p) \/ LoopFails(p)
      PROVE  TasksKnown'
  BY <1>3, <1>6 DEF Start, Read, ReadNothing, Sift, Backoff, Stop, Stopping, StopReturns,
                    StopTimeout, CancelRest, Exit, Crash, Down, End, LoopFails, taskVars
<1>7. ASSUME NEW p \in Pools, Spawn(p) PROVE TasksKnown'
  <2>1. tasks' = tasks \cup {[pool |-> p, id |-> i, step |-> "mark"] : i \in Chosen(p)}
    BY <1>7 DEF Spawn, SpawnAll
  <2>2. \A u \in tasks' : u \in tasks \/ u.step = "mark"
    BY <2>1
  <2>3. \A u \in tasks' : u.step = "mark" => Known(u)'
    BY DEF Known
  <2> QED
    BY <1>2, <2>2, <2>3 DEF TasksKnown
<1>8. ASSUME NEW t \in tasks, Process(t) \/ Agent(t) \/ TaskFails(t) PROVE TasksKnown'
  <2>1. CASE End(t.pool, {t})
    BY <1>3, <2>1 DEF End
  <2>2. /\ t.id \in 1..cursor /\ t.id \in Ids /\ CanHandle(stream[t.id]) /\ Key(t) \in Keys
        /\ t \in [pool : Pools, id : 1..cursor, step : Steps]
    BY TaskFacts DEF TypeOK
  <2>3. Known(t)
    BY DEF TasksKnown
  \* It suffices that the step of t is known to be sound in the new state.
  <2>4. ASSUME NEW label \in Steps, Move(t, label),
               label \in {"agent", "completed", "failed"} => marks'[Key(t)] = t.id,
               label = "completed" => t.id \in succeeded',
               label \in {"ack", "giveack"} => t.id \in Answered',
               label = "skip" => marks'[Key(t)] \notin {0, t.id}
        PROVE  TasksKnown'
    <3> DEFINE u == [t EXCEPT !.step = label]
    <3>1. u.id = t.id /\ u.step = label /\ tasks' = (tasks \ {t}) \cup {u}
      BY <2>2, <2>4 DEF Move
    <3> HIDE DEF u
    <3>2. stream'[u.id].key = Key(t)
      BY <1>1, <2>2, <3>1 DEF Grows, Key
    <3>3. Key(u)' = Key(t)
      BY <3>2 DEF Key
    <3>4. label = "skip" => Requests!Duplicate(u.id)'
      BY <2>2, <2>4, <3>1, <3>2 DEF Requests!Duplicate
    <3>5. Known(u)'
      BY <2>4, <3>1, <3>3, <3>4 DEF Known
    <3> QED
      BY <1>4, <3>1, <3>5
  <2>5. CASE Mark(t) /\ Move(t, "agent") /\ marks[Key(t)] = 0
    <3>1. marks'[Key(t)] = t.id
      BY <2>2, <2>5 DEF Mark, SetNX, TypeOK
    <3> QED
      BY <2>4, <2>5, <3>1 DEF Steps
  <2>6. CASE Mark(t) /\ Move(t, "skip") /\ marks[Key(t)] # 0
    <3>1. marks[Key(t)] # t.id
      BY <2>2, <2>6 DEF Mark, Untaken, NotTaken
    <3>2. marks'[Key(t)] = marks[Key(t)]
      BY <1>1, <2>2, <2>6 DEF Grows
    <3> QED
      BY <2>4, <2>6, <3>1, <3>2 DEF Steps
  <2>7. CASE Agent(t)
    <3>1. marks'[Key(t)] = t.id
      BY <2>3, <2>7 DEF Agent, Known, redisVars
    <3>2. CASE Move(t, "completed") /\ succeeded' = succeeded \cup {t.id}
      BY <2>4, <3>1, <3>2 DEF Steps
    <3>3. CASE Move(t, "failed")
      BY <2>4, <3>1, <3>3 DEF Steps
    <3>4. CASE Move(t, "giveup")
      BY <2>4, <3>4 DEF Steps
    <3> QED
      BY <2>7, <3>2, <3>3, <3>4 DEF Agent
  <2>8. CASE PublishResult(t)
    <3>1. t.id \in Answered'
      BY <2>8 DEF PublishResult, AddResult, Answered
    <3> QED
      BY <2>4, <2>8, <3>1 DEF PublishResult, Steps
  <2>9. CASE PublishError(t)
    <3>1. t.id \in Answered'
      BY <2>9 DEF PublishError, AddResult, Answered
    <3> QED
      BY <2>4, <2>9, <3>1 DEF PublishError, Steps
  <2>10. CASE Acknowledge(t)
    BY <2>1, <2>10 DEF Acknowledge
  <2>11. CASE TaskFails(t)
    <3>1. CASE Move(t, "giveup")
      BY <2>4, <3>1 DEF Steps
    <3> QED
      BY <2>1, <2>11, <3>1 DEF TaskFails
  <2>12. CASE Mark(t)
    BY <2>5, <2>6, <2>12 DEF Mark
  <2> QED
    BY <1>8, <2>7, <2>8, <2>9, <2>10, <2>11, <2>12 DEF Process
<1> QED
  BY <1>5, <1>6, <1>7, <1>8 DEF Next, EventLoop

-----------------------------------------------------------------------------
(* At most one run for each key.                                           *)

(* The strengthening of AtMostOneRun: a key that is not taken has no run.  *)
RunsMarked == \A k \in Keys : runs[k] <= 1 /\ (marks[k] = 0 => runs[k] = 0)

LEMMA InitRunsMarked == Init => RunsMarked
<1> SUFFICES ASSUME Init, NEW k \in Keys PROVE runs[k] <= 1 /\ (marks[k] = 0 => runs[k] = 0)
  BY DEF RunsMarked
<1>1. runs[k] = 0
  BY DEF Init
<1> QED
  BY <1>1

LEMMA StepRunsMarked ==
    TypeOK /\ Requested /\ RunsMarked /\ [Next]_vars => RunsMarked'
<1> SUFFICES ASSUME TypeOK, Requested, RunsMarked, [Next]_vars PROVE RunsMarked'
  OBVIOUS
<1>1. Grows
  BY StepGrows
<1>2. ASSUME UNCHANGED runs PROVE RunsMarked'
  BY <1>1, <1>2 DEF RunsMarked, Grows
<1>3. CASE Publish \/ UNCHANGED vars
  BY <1>2, <1>3 DEF Publish, vars, histVars
<1>4. ASSUME NEW p \in Pools,
             \/ Start(p) \/ EventLoop(p) \/ Stop(p) \/ Stopping(p) \/ Crash(p) \/ LoopFails(p)
      PROVE  RunsMarked'
  BY <1>2, <1>4 DEF Start, EventLoop, Read, ReadNothing, Sift, Spawn, Backoff, Stop, Stopping,
                    StopReturns, StopTimeout, CancelRest, Exit, Crash, LoopFails, histVars
<1>5. ASSUME NEW t \in tasks, PublishResult(t) \/ PublishError(t) \/ Acknowledge(t)
                              \/ Agent(t) \/ TaskFails(t)
      PROVE  RunsMarked'
  BY <1>2, <1>5 DEF PublishResult, PublishError, Acknowledge, Agent, TaskFails
<1>6. ASSUME NEW t \in tasks, Mark(t) PROVE RunsMarked'
  <2>1. t.id \in 1..cursor /\ t.id # 0 /\ Key(t) \in Keys
    BY TaskFacts DEF TypeOK
  <2>2. CASE UNCHANGED runs
    BY <1>2, <2>2
  <2>3. CASE marks[Key(t)] = 0 /\ runs' = [runs EXCEPT ![Key(t)] = @ + 1]
    <3>1. marks'[Key(t)] = t.id /\ \A k \in Keys \ {Key(t)} : marks'[k] = marks[k]
      BY <1>6, <2>1, <2>3 DEF Mark, SetNX, TypeOK
    <3>2. runs'[Key(t)] = 1 /\ \A k \in Keys \ {Key(t)} : runs'[k] = runs[k]
      BY <2>1, <2>3 DEF RunsMarked, TypeOK
    <3> QED
      BY <2>1, <3>1, <3>2 DEF RunsMarked
  <2> QED
    BY <1>6, <2>2, <2>3 DEF Mark
<1> QED
  BY <1>3, <1>4, <1>5, <1>6 DEF Next, Process

-----------------------------------------------------------------------------
(* The pools implement AgentRequests.                                      *)

LEMMA InitRefines == Init => Requests!Init
BY DEF Init, Requests!Init, Placeholder, Requests!Placeholder

(* The steps of a task, and those of read_events, as steps of AgentRequests. *)
LEMMA AddResultRefines ==
    ASSUME TypeOK, Requested, TasksKnown, NEW t \in tasks, AddResult(t),
           t.step \in {"completed", "failed", "giveup"},
           UNCHANGED <<marks, succeeded, acked>>
    PROVE  Requests!Next
<1>1. t.id \in Requests!Ids /\ Requests!CanHandle(stream[t.id])
  BY TaskFacts DEF Ids, Requests!Ids, CanHandle, Requests!CanHandle
<1>2. stream' = Append(stream, Requests!Answer)
  BY DEF AddResult, XAdd, Answer, Requests!Answer
<1>3. CASE t.step = "completed"
  <2>1. t.id \in succeeded
    BY <1>3 DEF TasksKnown, Known
  <2>2. Requests!Complete(t.id)
    BY <1>2, <1>3, <2>1 DEF AddResult, Requests!Complete
  <2> QED
    BY <1>1, <2>2 DEF Requests!Next
<1>4. CASE t.step # "completed"
  <2>1. Requests!Report(t.id)
    BY <1>1, <1>2, <1>4 DEF AddResult, Requests!Report
  <2> QED
    BY <1>1, <2>1 DEF Requests!Next
<1> QED
  BY <1>3, <1>4

LEMMA SetNXRefines ==
    ASSUME TypeOK, Requested, NEW t \in tasks, SetNX(t),
           UNCHANGED <<stream, succeeded, completed, errored, acked>>
    PROVE  [Requests!Next]_(Requests!vars)
<1>1. t.id \in Requests!Ids /\ Requests!CanHandle(stream[t.id]) /\ Key(t) \in Keys
  BY TaskFacts DEF Ids, Requests!Ids, CanHandle, Requests!CanHandle
<1>2. CASE marks[Key(t)] = 0
  <2>1. marks' = [marks EXCEPT ![Key(t)] = t.id]
    BY <1>1, <1>2 DEF SetNX, TypeOK
  <2>2. Requests!TakeUp(t.id)
    BY <1>1, <1>2, <2>1 DEF Requests!TakeUp, Key
  <2> QED
    BY <1>1, <2>2 DEF Requests!Next
<1>3. CASE marks[Key(t)] # 0
  <2>1. marks' = marks
    BY <1>1, <1>3 DEF SetNX, TypeOK
  <2> QED
    BY <2>1 DEF Requests!vars
<1> QED
  BY <1>2, <1>3

LEMMA AckRefines ==
    ASSUME TypeOK, Requested, TasksKnown, NEW t \in tasks, XAck(t.id),
           t.step \in {"ack", "skip", "giveack"},
           UNCHANGED <<stream, marks, succeeded, completed, errored>>
    PROVE  Requests!Next
<1>1. t.id \in Requests!Ids
  BY TaskFacts DEF Ids, Requests!Ids
<1>2. t.id \in completed \cup errored \/ Requests!Duplicate(t.id)
  BY DEF TasksKnown, Known, Answered
<1>3. Requests!Settle(t.id)
  BY <1>2 DEF XAck, Requests!Settle
<1> QED
  BY <1>1, <1>3 DEF Requests!Next

LEMMA SiftRefines ==
    ASSUME TypeOK, NEW p \in Pools, NEW i \in Odd(p), Parses(stream[i]), XAck(i),
           UNCHANGED <<stream, marks, succeeded, completed, errored>>
    PROVE  Requests!Next
<1>1. i \in batch[p] /\ ~CanHandle(stream[i])
  BY DEF Odd, Firsts
<1>2. i \in Requests!Ids /\ stream[i] \in Entry
  BY <1>1 DEF TypeOK, Requests!Ids
<1>3. stream[i].kind = "foreign"
  BY <1>1, <1>2 DEF Parses, CanHandle, Entry, Kinds
<1>4. Requests!Settle(i)
  BY <1>3 DEF XAck, Requests!Settle
<1> QED
  BY <1>2, <1>4 DEF Requests!Next

LEMMA StepRefines ==
    TypeOK /\ Requested /\ TasksKnown /\ [Next]_vars => [Requests!Next]_(Requests!vars)
<1> SUFFICES ASSUME TypeOK, Requested, TasksKnown, [Next]_vars
             PROVE  [Requests!Next]_(Requests!vars)
  OBVIOUS
<1>1. ASSUME UNCHANGED <<stream, marks, succeeded, completed, errored, acked>>
      PROVE  [Requests!Next]_(Requests!vars)
  BY <1>1 DEF Requests!vars
<1>2. CASE UNCHANGED vars
  BY <1>1, <1>2 DEF vars, redisVars, histVars
<1>3. CASE Publish
  <2>1. PICK e \in Publishable : XAdd(e)
    BY <1>3 DEF Publish
  <2>2. e \in Requests!Entry /\ stream' = Append(stream, e)
    BY <2>1, PoolAssumption DEF XAdd, Entry, Requests!Entry, Kinds, Requests!Kinds
  <2>3. Requests!Submit
    BY <1>3, <2>2 DEF Publish, histVars, Requests!Submit
  <2> QED
    BY <2>3 DEF Requests!Next
<1>4. ASSUME NEW p \in Pools,
             \/ Start(p) \/ Read(p) \/ ReadNothing(p) \/ Spawn(p) \/ Backoff(p)
             \/ Stop(p) \/ Stopping(p) \/ Crash(p)
      PROVE  [Requests!Next]_(Requests!vars)
  BY <1>1, <1>4 DEF Start, Read, ReadNothing, Spawn, Backoff, Stop, Stopping, StopReturns,
                    StopTimeout, CancelRest, Exit, Crash, redisVars, histVars
<1>5. ASSUME NEW p \in Pools, Sift(p) \/ LoopFails(p)
      PROVE  [Requests!Next]_(Requests!vars)
  <2>1. UNCHANGED <<stream, marks, succeeded, completed, errored>>
    BY <1>5 DEF Sift, LoopFails
  <2>2. acked' = acked \/ \E i \in Odd(p) : Parses(stream[i]) /\ XAck(i)
    BY <1>5 DEF Sift, LoopFails
  <2>3. CASE acked' = acked
    BY <1>1, <2>1, <2>3
  <2>4. ASSUME NEW i \in Odd(p), Parses(stream[i]), XAck(i) PROVE Requests!Next
    BY <2>1, <2>4, SiftRefines
  <2> QED
    BY <2>2, <2>3, <2>4
<1>6. ASSUME NEW t \in tasks, Mark(t) PROVE [Requests!Next]_(Requests!vars)
  BY <1>6, SetNXRefines DEF Mark
<1>7. ASSUME NEW t \in tasks, Agent(t) PROVE [Requests!Next]_(Requests!vars)
  <2>1. CASE UNCHANGED succeeded
    BY <1>1, <1>7, <2>1 DEF Agent, redisVars
  <2>2. CASE succeeded' = succeeded \cup {t.id}
    <3>1. t.id \in Requests!Ids /\ Requests!CanHandle(stream[t.id]) /\ Key(t) \in Keys
      BY TaskFacts DEF Ids, Requests!Ids, CanHandle, Requests!CanHandle
    <3>2. marks[stream[t.id].key] = t.id /\ stream[t.id].key \in Keys
      BY <1>7, <3>1 DEF Agent, TasksKnown, Known, Key
    <3>3. Requests!Succeed(t.id)
      BY <1>7, <2>2, <3>1, <3>2 DEF Agent, redisVars, Requests!Succeed
    <3> QED
      BY <3>1, <3>3 DEF Requests!Next
  <2> QED
    BY <1>7, <2>1, <2>2 DEF Agent
<1>8. ASSUME NEW t \in tasks, PublishResult(t) \/ PublishError(t)
      PROVE  [Requests!Next]_(Requests!vars)
  BY <1>8, AddResultRefines DEF PublishResult, PublishError
<1>9. ASSUME NEW t \in tasks, Acknowledge(t) PROVE [Requests!Next]_(Requests!vars)
  BY <1>9, AckRefines DEF Acknowledge
<1>10. ASSUME NEW t \in tasks, TaskFails(t) PROVE [Requests!Next]_(Requests!vars)
  <2>1. UNCHANGED succeeded
    BY <1>10 DEF TaskFails
  <2>2. CASE UNCHANGED <<stream, marks, completed, errored, acked>>
    BY <1>1, <2>1, <2>2
  <2>3. CASE SetNX(t) /\ UNCHANGED <<stream, completed, errored, acked>>
    BY <2>1, <2>3, SetNXRefines
  <2>4. CASE /\ t.step \in {"completed", "failed", "giveup"} /\ AddResult(t)
             /\ UNCHANGED <<marks, acked>>
    BY <2>1, <2>4, AddResultRefines
  <2>5. CASE /\ t.step \in {"ack", "skip", "giveack"} /\ XAck(t.id)
             /\ UNCHANGED <<stream, marks, completed, errored>>
    BY <2>1, <2>5, AckRefines
  <2> QED
    BY <1>10, <2>2, <2>3, <2>4, <2>5 DEF TaskFails
<1> QED
  BY <1>2, <1>3, <1>4, <1>5, <1>6, <1>7, <1>8, <1>9, <1>10 DEF Next, EventLoop, Process

-----------------------------------------------------------------------------
(* What becomes of an event that is read, and of a key that is taken.      *)

(* A loop that reads, waits or has ended holds no batch, and only stop()   *)
(* makes a loop end or a stopper wait.                                     *)
Emptied == {"down", "read", "backoff", "ended"}
LoopsFine ==
    /\ \A p \in Pools : loop[p] \in Emptied => batch[p] = {}
    /\ stops = 0 => \A p \in Pools : /\ loop[p] # "ended" /\ stopper[p] = "none"
                                     /\ state[p] = "running" \/ loop[p] = "down"

LEMMA InitLoopsFine == Init => LoopsFine
BY DEF Init, LoopsFine

LEMMA StepLoopsFine == TypeOK /\ Requested /\ LoopsFine /\ [Next]_vars => LoopsFine'
<1> SUFFICES ASSUME TypeOK, Requested, LoopsFine, [Next]_vars PROVE LoopsFine'
  OBVIOUS
<1>1. stops' = 0 => stops = 0
  <2>1. stops \in Nat /\ stops' \in Nat /\ stops <= stops'
    BY StepGrows DEF Grows, TypeOK
  <2> QED
    BY <2>1
<1> DEFINE Fine(q) == /\ loop'[q] \in Emptied => batch'[q] = {}
                      /\ stops' = 0 => /\ loop'[q] # "ended" /\ stopper'[q] = "none"
                                       /\ state'[q] = "running" \/ loop'[q] = "down"
<1>2. SUFFICES ASSUME NEW q \in Pools PROVE Fine(q)
  BY DEF LoopsFine
<1>3. ASSUME loop'[q] = loop[q], batch'[q] = batch[q], state'[q] = state[q],
             stopper'[q] = stopper[q]
      PROVE  Fine(q)
  BY <1>1, <1>3 DEF LoopsFine
<1>4. CASE UNCHANGED <<loopVars, stopVars>>
  BY <1>3, <1>4 DEF loopVars, stopVars
<1>5. CASE Publish \/ UNCHANGED vars
  BY <1>4, <1>5 DEF Publish, vars
<1>6. ASSUME NEW t \in tasks, Process(t) \/ Agent(t) \/ TaskFails(t) PROVE Fine(q)
  BY <1>4, <1>6 DEF Process, Mark, PublishResult, PublishError, Acknowledge, Agent, TaskFails
<1>7. ASSUME NEW p \in Pools, p # q,
             \/ Start(p) \/ EventLoop(p) \/ Stop(p) \/ Stopping(p) \/ Crash(p) \/ LoopFails(p)
      PROVE  Fine(q)
  <2>1. loop'[q] = loop[q] /\ state'[q] = state[q]
    BY <1>7 DEF Start, EventLoop, Read, ReadNothing, Sift, Spawn, Backoff, NextTurn, Goto, Stop,
                Stopping, StopReturns, StopTimeout, CancelRest, Exit, Crash, Down, LoopFails,
                loopVars, TypeOK
  <2>2. batch'[q] = batch[q] /\ stopper'[q] = stopper[q]
    BY <1>7 DEF Start, EventLoop, Read, ReadNothing, Sift, Spawn, Backoff, Stop,
                Stopping, StopReturns, StopTimeout, CancelRest, Exit, Crash, Down, LoopFails,
                loopVars, stopVars, TypeOK
  <2> QED
    BY <1>3, <2>1, <2>2
<1>8. CASE Start(q)
  BY <1>1, <1>8 DEF Start, Goto, LoopsFine, Emptied, stopVars, TypeOK
<1>9. CASE Read(q)
  BY <1>1, <1>9 DEF Read, Goto, LoopsFine, Emptied, stopVars, TypeOK
<1>10. ASSUME NextTurn(q), loop[q] # "down", batch'[q] = {}, UNCHANGED stopVars
       PROVE  Fine(q)
  BY <1>1, <1>10 DEF NextTurn, Goto, LoopsFine, stopVars, TypeOK
<1>11. CASE ReadNothing(q) \/ Backoff(q)
  BY <1>10, <1>11 DEF ReadNothing, Backoff, LoopsFine, Emptied
<1>12. CASE Sift(q)
  <2>1. loop[q] = "sift" /\ UNCHANGED <<state, stopper>>
    BY <1>12 DEF Sift, stopVars
  <2>2. \/ loop'[q] \in {"spawn", "sift"}
        \/ loop'[q] = "backoff" /\ batch'[q] = {}
    BY <1>12, <2>1 DEF Sift, Goto, TypeOK
  <2> QED
    BY <1>1, <2>1, <2>2 DEF LoopsFine, Emptied
<1>13. CASE Spawn(q)
  <2>1. loop[q] \notin Emptied /\ UNCHANGED <<stopper, waited, stops>>
    BY <1>13 DEF Spawn, Emptied, stopVars, envVars
  <2>2. CASE NextTurn(q) /\ batch' = [batch EXCEPT ![q] = {}]
    BY <1>10, <2>1, <2>2 DEF Emptied, stopVars, TypeOK
  <2>3. CASE Goto(q, "acquire") /\ state[q] = "running" /\ UNCHANGED state
    BY <1>1, <2>1, <2>3 DEF Goto, LoopsFine, Emptied, TypeOK
  <2> QED
    BY <1>13, <2>2, <2>3 DEF Spawn
<1>14. CASE Stop(q)
  <2>1. stops' # 0 /\ UNCHANGED <<loop, batch>>
    BY <1>14 DEF Stop, TypeOK
  <2> QED
    BY <2>1 DEF LoopsFine
<1>15. CASE StopReturns(q) \/ StopTimeout(q) \/ CancelRest(q)
  <2>1. stopper[q] # "none" /\ UNCHANGED <<loop, batch>>
    BY <1>15 DEF StopReturns, StopTimeout, CancelRest, loopVars
  <2> QED
    BY <1>1, <2>1 DEF LoopsFine
<1>16. CASE Exit(q) \/ Crash(q)
  BY <1>16 DEF Exit, Crash, Down, Goto, TypeOK
<1>17. CASE LoopFails(q)
  <2>1. loop'[q] = "backoff" /\ UNCHANGED <<state, stopper>> /\ loop[q] \in {"read", "sift"}
    BY <1>17 DEF LoopFails, Goto, stopVars, TypeOK
  <2>2. batch'[q] = {}
    BY <1>17 DEF LoopFails, LoopsFine, Emptied, TypeOK
  <2> QED
    BY <1>1, <2>1, <2>2 DEF LoopsFine
<1> QED
  BY <1>5, <1>6, <1>7, <1>8, <1>9, <1>11, <1>12, <1>13, <1>14, <1>15, <1>16, <1>17
  DEF Next, EventLoop, Stopping

(* While nothing crashed, failed or was stopped, none of the steps that end *)
(* a task without acknowledging its event is possible.                     *)
Quiet == crashes + faults + stops = 0

LEMMA NoneIsZero ==
    ASSUME NEW a \in Nat, NEW b \in Nat, NEW c \in Nat, ~(a + b + c > 0)
    PROVE  a + b + c = 0
OBVIOUS

LEMMA SumZero ==
    ASSUME NEW a \in Nat, NEW b \in Nat, NEW c \in Nat, a + b + c = 0
    PROVE  a = 0 /\ b = 0 /\ c = 0
OBVIOUS

LEMMA QuietStep ==
    ASSUME TypeOK, Requested, LoopsFine, [Next]_vars, Quiet'
    PROVE  /\ Quiet /\ stops = 0
           /\ \A p \in Pools : /\ ~StopTimeout(p) /\ ~CancelRest(p) /\ ~Exit(p)
                               /\ ~Crash(p) /\ ~LoopFails(p) /\ ~Stop(p)
                               /\ loop[p] # "down" => state[p] = "running"
           /\ \A t \in tasks : ~TaskFails(t)
<1>1. /\ crashes \in Nat /\ faults \in Nat /\ stops \in Nat
      /\ crashes' \in Nat /\ faults' \in Nat /\ stops' \in Nat
      /\ crashes <= crashes' /\ faults <= faults' /\ stops <= stops'
  BY StepGrows DEF Grows, TypeOK
<1>2. crashes' = 0 /\ faults' = 0 /\ stops' = 0 /\ crashes = 0 /\ faults = 0 /\ stops = 0
  <2>1. crashes' + faults' + stops' = 0
    BY DEF Quiet
  <2>2. crashes' = 0 /\ faults' = 0 /\ stops' = 0
    BY <1>1, <2>1, SumZero
  <2> QED
    BY <1>1, <2>2
<1>3. \A p \in Pools : ~Crash(p) /\ ~LoopFails(p) /\ ~Stop(p)
  BY <1>2 DEF Crash, LoopFails, Stop
<1>4. \A t \in tasks : ~TaskFails(t)
  BY <1>2 DEF TaskFails
<1>5. \A p \in Pools : /\ ~StopTimeout(p) /\ ~CancelRest(p) /\ ~Exit(p)
                       /\ loop[p] # "down" => state[p] = "running"
  BY <1>2 DEF StopTimeout, CancelRest, Exit, LoopsFine
<1> QED
  BY <1>2, <1>3, <1>4, <1>5 DEF Quiet

(* The ids that a batch or a task holds.                                   *)
Held == ActiveIds \cup UNION {batch[p] : p \in Pools}

LEMMA InitOrphans == Init => OrphansHaveACause
BY DEF Init, OrphansHaveACause

LEMMA StepOrphans ==
    /\ TypeOK /\ OneHolder /\ Balanced /\ Requested /\ LoopsFine /\ OrphansHaveACause
    /\ [Next]_vars
    => OrphansHaveACause'
<1> SUFFICES ASSUME TypeOK, OneHolder, Balanced, Requested, LoopsFine, OrphansHaveACause,
                    [Next]_vars, ~(crashes + faults + stops > 0)',
                    \A i \in 1..cursor' : Parses(stream'[i])
             PROVE  (pending \subseteq Held)'
  BY DEF OrphansHaveACause, Held
<1>1. Grows
  BY StepGrows
<1>2. Quiet'
  <2>1. crashes' \in Nat /\ faults' \in Nat /\ stops' \in Nat
    BY <1>1 DEF Grows
  <2>2. ~(crashes' + faults' + stops' > 0)
    OBVIOUS
  <2>3. crashes' + faults' + stops' = 0
    BY <2>1, <2>2, NoneIsZero
  <2> QED
    BY <2>3 DEF Quiet
<1>3. \A i \in 1..cursor : Parses(stream[i])
  <2>1. \A i \in 1..cursor : i \in Ids /\ i \in 1..cursor'
    BY <1>1 DEF Grows, Ids, TypeOK
  <2> QED
    BY <1>1, <2>1 DEF Grows
<1>4. pending \subseteq Held
  <2>1. Quiet
    BY <1>2, QuietStep
  <2> QED
    BY <1>3, <2>1 DEF OrphansHaveACause, Held, Quiet
<1>5. ASSUME pending' \subseteq pending, ActiveIds \subseteq ActiveIds',
             \A p \in Pools : batch[p] \subseteq batch'[p]
      PROVE  (pending \subseteq Held)'
  BY <1>4, <1>5 DEF Held
<1>6. CASE Publish \/ UNCHANGED vars
  BY <1>5, <1>6 DEF Publish, vars, redisVars, taskVars, loopVars, ActiveIds
<1>7. ASSUME NEW p \in Pools,
             Start(p) \/ ReadNothing(p) \/ Backoff(p) \/ StopReturns(p)
      PROVE  (pending \subseteq Held)'
  BY <1>5, <1>7 DEF Start, ReadNothing, Backoff, StopReturns, redisVars, taskVars, loopVars,
                    ActiveIds
<1>8. ASSUME NEW p \in Pools, Read(p) PROVE (pending \subseteq Held)'
  <2>1. pending' = pending \cup Fresh /\ ActiveIds' = ActiveIds
    BY <1>8 DEF Read, Deliver, taskVars, ActiveIds
  <2>2. batch'[p] = Fresh /\ batch[p] = {} /\ \A q \in Pools \ {p} : batch'[q] = batch[q]
    BY <1>8 DEF Read, LoopsFine, Emptied, TypeOK
  <2> QED
    BY <1>4, <2>1, <2>2 DEF Held
<1>9. ASSUME NEW p \in Pools, Sift(p) PROVE (pending \subseteq Held)'
  <2>1. ActiveIds' = ActiveIds
    BY <1>9 DEF Sift, taskVars, ActiveIds
  <2>2. CASE UNCHANGED <<pending, batch>>
    BY <1>5, <2>1, <2>2
  <2>3. ASSUME NEW i \in Odd(p), XAck(i), batch' = [batch EXCEPT ![p] = @ \ {i}]
        PROVE  (pending \subseteq Held)'
    <3>1. pending' = pending \ {i} /\ \A q \in Pools : batch[q] \ {i} \subseteq batch'[q]
      BY <2>3 DEF XAck, TypeOK
    <3> QED
      BY <1>4, <2>1, <3>1 DEF Held
  <2>4. ASSUME NEW i \in Odd(p), ~Parses(stream[i]) PROVE FALSE
    BY <1>3, <2>4 DEF Odd, Firsts, TypeOK
  <2> QED
    BY <1>9, <2>2, <2>3, <2>4 DEF Sift
<1>10. ASSUME NEW p \in Pools, Spawn(p) PROVE (pending \subseteq Held)'
  <2>1. ActiveIds' = ActiveIds \cup Chosen(p) /\ pending' = pending
    BY <1>10, SpawnStepFine DEF Spawn, redisVars
  <2>2. state[p] = "running"
    <3>1. loop[p] # "down"
      BY <1>10 DEF Spawn
    <3> QED
      BY <1>2, <3>1, QuietStep
  <2>3. batch[p] \ Chosen(p) \subseteq batch'[p] /\ \A q \in Pools \ {p} : batch'[q] = batch[q]
    BY <1>10, <2>2 DEF Spawn, TypeOK
  <2> QED
    BY <1>4, <2>1, <2>3 DEF Held
<1>11. ASSUME NEW p \in Pools,
              \/ Stop(p) \/ StopTimeout(p) \/ CancelRest(p) \/ Exit(p) \/ Crash(p)
              \/ LoopFails(p)
       PROVE  FALSE
  BY <1>2, <1>11, QuietStep
<1>12. ASSUME NEW t \in tasks, Acknowledge(t) PROVE (pending \subseteq Held)'
  <2>1. pending' = pending \ {t.id} /\ tasks' = tasks \ {t} /\ batch' = batch
    BY <1>12 DEF Acknowledge, XAck, End, loopVars
  <2>2. ActiveIds \ {t.id} \subseteq ActiveIds'
    BY <2>1 DEF ActiveIds
  <2> QED
    BY <1>4, <2>1, <2>2 DEF Held
<1>13. ASSUME NEW t \in tasks, Mark(t) \/ Agent(t) \/ PublishResult(t) \/ PublishError(t)
       PROVE  (pending \subseteq Held)'
  <2>1. UNCHANGED <<pending, batch>>
    BY <1>13 DEF Mark, Agent, PublishResult, PublishError, redisVars, loopVars
  <2>2. \E label \in Steps : Move(t, label)
    <3>1. CASE Mark(t) \/ Agent(t)
      BY <3>1 DEF Mark, Agent, Steps
    <3>2. CASE PublishResult(t) \/ PublishError(t)
      BY <3>2 DEF PublishResult, PublishError, Steps
    <3> QED
      BY <1>13, <3>1, <3>2
  <2>3. Unique
    BY DEF OneHolder, Unique
  <2>4. ActiveIds' = ActiveIds
    BY <2>2, <2>3, MoveFine
  <2> QED
    BY <1>5, <2>1, <2>4
<1>14. ASSUME NEW t \in tasks, TaskFails(t) PROVE FALSE
  BY <1>2, <1>14, QuietStep
<1> QED
  BY <1>6, <1>7, <1>8, <1>9, <1>10, <1>11, <1>12, <1>13, <1>14
  DEF Next, EventLoop, Stopping, Process

(* The entry that took a key is a request for that key.                    *)
MarksOwned == \A k \in Keys : marks[k] # 0 => stream[marks[k]].key = k

LEMMA InitMarksOwned == Init => MarksOwned /\ TakenIsAnswered
BY DEF Init, MarksOwned, TakenIsAnswered

(* Only SET NX takes a key, for the entry of its task.                     *)
LEMMA MarksChange ==
    ASSUME TypeOK, Requested, [Next]_vars, NEW k \in Keys, marks'[k] # marks[k]
    PROVE  \E t \in tasks : /\ t.step = "mark" /\ k = Key(t)
                            /\ marks[k] = 0 /\ marks'[k] = t.id
                            /\ Mark(t) \/ TaskFails(t)
<1>1. ~UNCHANGED marks
  OBVIOUS
<1>2. \E t \in tasks : SetNX(t) /\ t.step = "mark" /\ (Mark(t) \/ TaskFails(t))
  <2>1. CASE Publish \/ UNCHANGED vars
    BY <1>1, <2>1 DEF Publish, vars, redisVars
  <2>2. ASSUME NEW p \in Pools,
               \/ Start(p) \/ EventLoop(p) \/ Stop(p) \/ Stopping(p) \/ Crash(p) \/ LoopFails(p)
        PROVE  FALSE
    BY <1>1, <2>2 DEF Start, EventLoop, Read, ReadNothing, Sift, Spawn, Backoff, Stop, Stopping,
                      StopReturns, StopTimeout, CancelRest, Exit, Crash, LoopFails, redisVars
  <2>3. ASSUME NEW t \in tasks, Process(t) \/ Agent(t) \/ TaskFails(t)
        PROVE  SetNX(t) /\ t.step = "mark" /\ (Mark(t) \/ TaskFails(t))
    BY <1>1, <2>3 DEF Process, Mark, PublishResult, PublishError, Acknowledge, Agent, TaskFails,
                      redisVars
  <2> QED
    BY <2>1, <2>2, <2>3 DEF Next
<1>3. PICK t \in tasks : SetNX(t) /\ t.step = "mark" /\ (Mark(t) \/ TaskFails(t))
  BY <1>2
<1>4. k = Key(t) /\ marks[k] = 0 /\ marks'[k] = t.id
  BY <1>3, TaskFacts DEF SetNX, TypeOK
<1> QED
  BY <1>3, <1>4

LEMMA StepMarksOwned == TypeOK /\ Requested /\ MarksOwned /\ [Next]_vars => MarksOwned'
<1> SUFFICES ASSUME TypeOK, Requested, MarksOwned, [Next]_vars,
                    NEW k \in Keys, marks'[k] # 0
             PROVE  stream'[marks'[k]].key = k
  BY DEF MarksOwned
<1>1. \A i \in 1..cursor : stream'[i] = stream[i]
  BY StepGrows DEF Grows, TypeOK, Ids
<1>2. CASE marks'[k] = marks[k]
  <2>1. marks[k] \in 1..cursor
    BY <1>2 DEF TypeOK
  <2>2. stream[marks[k]].key = k
    BY <1>2 DEF MarksOwned
  <2> QED
    BY <1>1, <1>2, <2>1, <2>2
<1>3. CASE marks'[k] # marks[k]
  <2>1. PICK t \in tasks : k = Key(t) /\ marks'[k] = t.id
    BY <1>3, MarksChange
  <2> QED
    BY <1>1, <2>1, TaskFacts DEF Key
<1> QED
  BY <1>2, <1>3

LEMMA StepTaken ==
    /\ TypeOK /\ OneHolder /\ Balanced /\ Requested /\ TasksKnown /\ LoopsFine /\ MarksOwned
    /\ TakenIsAnswered /\ [Next]_vars
    => TakenIsAnswered'
<1> SUFFICES ASSUME TypeOK, OneHolder, Balanced, Requested, TasksKnown, LoopsFine, MarksOwned,
                    TakenIsAnswered, [Next]_vars,
                    NEW k \in Keys, marks'[k] # 0, ~(crashes + faults + stops > 0)'
             PROVE  marks'[k] \in ActiveIds' \cup Answered'
  BY DEF TakenIsAnswered
<1>1. Grows
  BY StepGrows
<1>2. Quiet'
  <2>1. crashes' \in Nat /\ faults' \in Nat /\ stops' \in Nat
    BY <1>1 DEF Grows
  <2>2. ~(crashes' + faults' + stops' > 0)
    OBVIOUS
  <2>3. crashes' + faults' + stops' = 0
    BY <2>1, <2>2, NoneIsZero
  <2> QED
    BY <2>3 DEF Quiet
<1>3. Quiet
  BY <1>2, QuietStep
<1>4. Unique
  BY DEF OneHolder, Unique
<1>5. CASE marks'[k] # marks[k]
  <2>1. PICK t \in tasks : marks'[k] = t.id /\ (Mark(t) \/ TaskFails(t))
    BY <1>5, MarksChange
  <2>2. Mark(t)
    BY <1>2, <2>1, QuietStep
  <2>3. \E label \in Steps : Move(t, label)
    BY <2>2 DEF Mark, Steps
  <2>4. ActiveIds' = ActiveIds
    BY <1>4, <2>3, MoveFine
  <2> QED
    BY <2>1, <2>4 DEF ActiveIds
<1>6. CASE marks'[k] = marks[k]
  <2>1. marks[k] \in ActiveIds \cup Answered
    BY <1>3, <1>6 DEF TakenIsAnswered, Quiet
  <2>2. CASE marks[k] \in Answered
    BY <1>1, <1>6, <2>2 DEF Grows, Answered
  <2>3. ASSUME ActiveIds \subseteq ActiveIds' PROVE marks'[k] \in ActiveIds' \cup Answered'
    BY <1>6, <2>1, <2>2, <2>3
  <2>4. CASE Publish \/ UNCHANGED vars
    BY <2>3, <2>4 DEF Publish, vars, taskVars, ActiveIds
  <2>5. ASSUME NEW p \in Pools,
               \/ Start(p) \/ Read(p) \/ ReadNothing(p) \/ Sift(p) \/ Backoff(p)
               \/ StopReturns(p)
        PROVE  marks'[k] \in ActiveIds' \cup Answered'
    BY <2>3, <2>5 DEF Start, Read, ReadNothing, Sift, Backoff, StopReturns, taskVars, ActiveIds
  <2>6. ASSUME NEW p \in Pools, Spawn(p) PROVE marks'[k] \in ActiveIds' \cup Answered'
    BY <2>3, <2>6, SpawnStepFine
  <2>7. ASSUME NEW t \in tasks, Acknowledge(t) PROVE marks'[k] \in ActiveIds' \cup Answered'
    <3>1. ActiveIds \ {t.id} \subseteq ActiveIds'
      BY <2>7 DEF Acknowledge, End, ActiveIds
    <3>2. CASE marks[k] # t.id
      BY <1>6, <2>1, <2>2, <3>1, <3>2
    <3>3. CASE marks[k] = t.id
      <4>1. k = Key(t) /\ t.id # 0
        BY <1>6, <3>3, TaskFacts DEF MarksOwned, Key, TypeOK
      <4>2. ~Requests!Duplicate(t.id)
        BY <3>3, <4>1 DEF Requests!Duplicate, Key
      <4>3. t.id \in Answered
        BY <2>7, <4>2 DEF Acknowledge, TasksKnown, Known
      <4> QED
        BY <2>2, <3>3, <4>3
    <3> QED
      BY <3>2, <3>3
  <2>8. ASSUME NEW t \in tasks, Mark(t) \/ Agent(t) \/ PublishResult(t) \/ PublishError(t)
        PROVE  marks'[k] \in ActiveIds' \cup Answered'
    <3>1. \E label \in Steps : Move(t, label)
      <4>1. CASE Mark(t) \/ Agent(t)
        BY <4>1 DEF Mark, Agent, Steps
      <4>2. CASE PublishResult(t) \/ PublishError(t)
        BY <4>2 DEF PublishResult, PublishError, Steps
      <4> QED
        BY <2>8, <4>1, <4>2
    <3>2. ActiveIds' = ActiveIds
      BY <1>4, <3>1, MoveFine
    <3> QED
      BY <2>3, <3>2
  <2>9. /\ \A p \in Pools : /\ ~StopTimeout(p) /\ ~CancelRest(p) /\ ~Exit(p)
                            /\ ~Crash(p) /\ ~LoopFails(p) /\ ~Stop(p)
        /\ \A t \in tasks : ~TaskFails(t)
    BY <1>2, QuietStep
  <2> QED
    BY <2>4, <2>5, <2>6, <2>7, <2>8, <2>9 DEF Next, EventLoop, Stopping, Process
<1> QED
  BY <1>5, <1>6

-----------------------------------------------------------------------------
(* Wrong answers are paid for by failed commands.                          *)

(* Only requests are answered, and an event is not answered, nor does its  *)
(* agent succeed, before its task has come that far.                       *)
Unanswered ==
    /\ \A i \in Answered : CanHandle(stream[i])
    /\ \A p \in Pools : batch[p] \cap (Answered \cup succeeded) = {}
    /\ \A t \in tasks :
           /\ t.step \in {"mark", "agent", "completed", "failed"} => t.id \notin Answered
           /\ t.step \in {"mark", "agent", "failed"} => t.id \notin succeeded

LEMMA InitUnanswered == Init => Unanswered
BY DEF Init, Unanswered, Answered

(* The tasks after one of them is moved: the others, and it, at that step. *)
LEMMA MoveTasks ==
    ASSUME TypeOK, OneHolder, NEW t \in tasks, NEW label, Move(t, label)
    PROVE  \A u \in tasks' : \/ u \in tasks /\ u.id # t.id
                             \/ u.id = t.id /\ u.step = label
<1>1. t \in [pool : Pools, id : 1..cursor, step : Steps]
  BY DEF TypeOK
<1>2. [t EXCEPT !.step = label].id = t.id /\ [t EXCEPT !.step = label].step = label
  BY <1>1
<1>3. tasks' = (tasks \ {t}) \cup {[t EXCEPT !.step = label]}
  BY DEF Move
<1>4. \A u \in tasks \ {t} : u.id # t.id
  BY DEF OneHolder
<1> QED
  BY <1>2, <1>3, <1>4

(* What a step of a task adds to the records is about its event.           *)
LEMMA TaskRecords ==
    ASSUME TypeOK, Requested, NEW t \in tasks, Process(t) \/ Agent(t) \/ TaskFails(t)
    PROVE  /\ UNCHANGED <<loop, batch>>
           /\ completed' \subseteq completed \cup {t.id}
           /\ errored' \subseteq errored \cup {t.id}
           /\ succeeded' \subseteq succeeded \cup {t.id}
           /\ \A i \in 1..cursor : stream'[i] = stream[i]
           /\ End(t.pool, {t}) \/ \E label \in Steps : Move(t, label)
<1>1. UNCHANGED <<loop, batch>>
  BY DEF Process, Mark, PublishResult, PublishError, Acknowledge, Agent, TaskFails, loopVars
<1>2. /\ completed' \subseteq completed \cup {t.id}
      /\ errored' \subseteq errored \cup {t.id}
      /\ succeeded' \subseteq succeeded \cup {t.id}
  BY DEF Process, Mark, PublishResult, PublishError, Acknowledge, Agent, TaskFails, AddResult
<1>3. End(t.pool, {t}) \/ \E label \in Steps : Move(t, label)
  <2>1. CASE Mark(t) \/ Agent(t)
    BY <2>1 DEF Mark, Agent, Steps
  <2>2. CASE PublishResult(t) \/ PublishError(t)
    BY <2>2 DEF PublishResult, PublishError, Steps
  <2>3. CASE Acknowledge(t) \/ TaskFails(t)
    BY <2>3 DEF Acknowledge, TaskFails, Steps
  <2> QED
    BY <2>1, <2>2, <2>3 DEF Process
<1>4. [Next]_vars
  BY DEF Next
<1>5. \A i \in 1..cursor : stream'[i] = stream[i]
  BY <1>4, StepGrows DEF Grows, TypeOK, Ids
<1> QED
  BY <1>1, <1>2, <1>3, <1>5

(* Everything else leaves the records alone, and the tasks it makes are at *)
(* their first step.                                                       *)
PoolStep(p) == Start(p) \/ EventLoop(p) \/ Stop(p) \/ Stopping(p) \/ Crash(p) \/ LoopFails(p)

LEMMA PoolRecords ==
    ASSUME TypeOK, OneHolder, Balanced,
           Publish \/ UNCHANGED vars \/ \E p \in Pools : PoolStep(p)
    PROVE  /\ UNCHANGED <<marks, completed, errored, succeeded>>
           /\ \A u \in tasks' \ tasks : u.step = "mark" /\ \E p \in Pools : u.id \in batch[p]
           /\ \A p \in Pools : batch'[p] \subseteq batch[p] \cup (Nat \ (0..cursor))
<1>1. CASE Publish \/ UNCHANGED vars
  BY <1>1 DEF Publish, vars, redisVars, loopVars, taskVars, histVars
<1>2. ASSUME NEW p \in Pools, PoolStep(p)
      PROVE  /\ UNCHANGED <<marks, completed, errored, succeeded>>
             /\ \A u \in tasks' \ tasks : u.step = "mark" /\ u.id \in batch[p]
             /\ \A q \in Pools : batch'[q] \subseteq batch[q] \cup (Nat \ (0..cursor))
  <2>1. UNCHANGED <<marks, completed, errored, succeeded>>
    BY <1>2 DEF PoolStep, Start, EventLoop, Read, ReadNothing, Sift, Spawn, Backoff, Stop,
                Stopping, StopReturns, StopTimeout, CancelRest, Exit, Crash, LoopFails,
                redisVars, histVars
  <2>2. CASE Spawn(p)
    <3>1. Chosen(p) \in SUBSET batch[p]
      BY <2>2, SpawnStepFine
    <3>2. tasks' = tasks \cup {[pool |-> p, id |-> i, step |-> "mark"] : i \in Chosen(p)}
      BY <2>2 DEF Spawn, SpawnAll
    <3>3. \A u \in tasks' \ tasks : u.step = "mark" /\ u.id \in batch[p]
      BY <3>1, <3>2
    <3>4. \A q \in Pools : batch'[q] \subseteq batch[q]
      BY <2>2 DEF Spawn, TypeOK
    <3> QED
      BY <2>1, <3>3, <3>4
  <2>3. CASE ~Spawn(p)
    <3>1. tasks' \subseteq tasks
      BY <1>2, <2>3 DEF PoolStep, Start, EventLoop, Read, ReadNothing, Sift, Backoff, Stop,
                Stopping, StopReturns, StopTimeout, CancelRest, Exit, Crash, Down, LoopFails,
                End, taskVars
    <3>2. CASE Read(p)
      <4>1. Fresh \subseteq Nat \ (0..cursor)
        BY <3>2, DeliverBounds DEF Read, TypeOK
      <4> QED
        BY <2>1, <3>1, <3>2, <4>1 DEF Read, TypeOK
    <3>3. CASE ~Read(p)
      <4>1. \/ batch' = batch
            \/ batch' = [batch EXCEPT ![p] = {}]
            \/ \E i \in Odd(p) : batch' = [batch EXCEPT ![p] = @ \ {i}]
        BY <1>2, <2>3, <3>3 DEF PoolStep, Start, EventLoop, ReadNothing, Sift, Backoff, Stop,
                Stopping, StopReturns, StopTimeout, CancelRest, Exit, Crash, Down, LoopFails,
                loopVars
      <4>2. \A q \in Pools : batch'[q] \subseteq batch[q]
        BY <4>1 DEF TypeOK
      <4> QED
        BY <2>1, <3>1, <4>2
    <3> QED
      BY <3>2, <3>3
  <2> QED
    BY <2>2, <2>3
<1> QED
  BY <1>1, <1>2

LEMMA StepUnanswered ==
    /\ TypeOK /\ OneHolder /\ Balanced /\ Requested /\ Unanswered
    /\ [Next]_vars
    => Unanswered'
<1> SUFFICES ASSUME TypeOK, OneHolder, Balanced, Requested, Unanswered, [Next]_vars
             PROVE  Unanswered'
  OBVIOUS
<1>1. \A i \in 1..cursor : stream'[i] = stream[i]
  BY StepGrows DEF Grows, TypeOK, Ids
<1>2. Answered \subseteq 1..cursor /\ succeeded \subseteq 1..cursor
  BY DEF Answered, TypeOK
<1>3. CASE Publish \/ UNCHANGED vars \/ \E p \in Pools : PoolStep(p)
  <2>1. Answered' = Answered /\ succeeded' = succeeded
    BY <1>3, PoolRecords DEF Answered
  <2>2. \A i \in Answered' : CanHandle(stream'[i])
    BY <1>1, <1>2, <2>1 DEF Unanswered
  <2>3. \A p \in Pools : batch'[p] \cap (Answered' \cup succeeded') = {}
    <3>1. \A p \in Pools : batch'[p] \subseteq batch[p] \cup (Nat \ (0..cursor))
      BY <1>3, PoolRecords
    <3>2. (Nat \ (0..cursor)) \cap (1..cursor) = {}
      BY DEF TypeOK
    <3> QED
      BY <1>2, <2>1, <3>1, <3>2 DEF Unanswered
  <2>4. \A u \in tasks' : u \in tasks \/ u.id \notin Answered \cup succeeded
    BY <1>3, PoolRecords DEF Unanswered
  <2> QED
    BY <2>1, <2>2, <2>3, <2>4 DEF Unanswered
<1>4. ASSUME NEW t \in tasks, Process(t) \/ Agent(t) \/ TaskFails(t) PROVE Unanswered'
  <2>1. /\ UNCHANGED batch
        /\ Answered' \subseteq Answered \cup {t.id}
        /\ succeeded' \subseteq succeeded \cup {t.id}
    BY <1>4, TaskRecords DEF Answered
  <2>2. \A i \in Answered' : CanHandle(stream'[i])
    <3>1. CanHandle(stream'[t.id])
      BY <1>1, TaskFacts
    <3> QED
      BY <1>1, <1>2, <2>1, <3>1 DEF Unanswered
  <2>3. \A p \in Pools : batch'[p] \cap (Answered' \cup succeeded') = {}
    BY <2>1 DEF Unanswered, OneHolder, ActiveIds
  <2>4. ASSUME NEW label, Move(t, label),
               label \in {"mark", "agent", "completed", "failed"} => t.id \notin Answered',
               label \in {"mark", "agent", "failed"} => t.id \notin succeeded'
        PROVE  Unanswered'
    <3>1. \A u \in tasks' : \/ u \in tasks /\ u.id # t.id
                            \/ u.id = t.id /\ u.step = label
      BY <2>4, MoveTasks
    <3> QED
      BY <2>1, <2>2, <2>3, <2>4, <3>1 DEF Unanswered
  <2>5. CASE End(t.pool, {t})
    <3>1. tasks' = tasks \ {t} /\ \A u \in tasks \ {t} : u.id # t.id
      BY <2>5 DEF End, OneHolder
    <3> QED
      BY <2>1, <2>2, <2>3, <3>1 DEF Unanswered
  <2>6. CASE Mark(t)
    <3>1. t.id \notin Answered' \cup succeeded'
      BY <2>6 DEF Mark, Unanswered, Answered
    <3> QED
      BY <2>4, <2>6, <3>1 DEF Mark
  <2>7. CASE Agent(t)
    <3>1. t.id \notin Answered' \cup succeeded
      BY <2>7 DEF Agent, Unanswered, Answered
    <3>2. CASE Move(t, "completed")
      BY <2>4, <3>1, <3>2
    <3>3. CASE Move(t, "failed") /\ UNCHANGED succeeded
      BY <2>4, <3>1, <3>3
    <3>4. CASE Move(t, "giveup")
      BY <2>4, <3>4
    <3> QED
      BY <2>7, <3>2, <3>3, <3>4 DEF Agent
  <2>8. CASE PublishResult(t) \/ PublishError(t)
    BY <2>4, <2>8 DEF PublishResult, PublishError
  <2>9. CASE Acknowledge(t)
    BY <2>5, <2>9 DEF Acknowledge
  <2>10. CASE TaskFails(t)
    BY <2>4, <2>5, <2>10 DEF TaskFails
  <2> QED
    BY <1>4, <2>6, <2>7, <2>8, <2>9, <2>10 DEF Process
<1> QED
  BY <1>3, <1>4 DEF Next, PoolStep

(* The events for which a wrong answer was published, and those whose task *)
(* is about to publish one.                                                *)
GivenUp == {t.id : t \in {u \in tasks : u.step = "giveup"}}
Charged == {i \in Answered \cup GivenUp :
                \/ marks[stream[i].key] # i
                \/ i \in succeeded /\ i \in errored \cup GivenUp}
Paid == Cardinality(Charged) <= faults

LEMMA InitPaid == Init => Paid
<1> SUFFICES ASSUME Init PROVE Paid
  OBVIOUS
<1>1. Charged = {}
  BY DEF Init, Charged, Answered, GivenUp
<1> QED
  BY <1>1, FS_EmptySet DEF Init, Paid

(* Marks that are set only make answers right.                             *)
LEMMA ChargedStays ==
    ASSUME TypeOK, Requested, Unanswered, [Next]_vars,
           NEW i \in Charged', i \in Answered \cup GivenUp,
           i \in succeeded' /\ i \in errored' \cup GivenUp' =>
               i \in succeeded /\ i \in errored \cup GivenUp
    PROVE  i \in Charged
<1>1. i \in 1..cursor /\ i \in Ids /\ CanHandle(stream[i])
  <2>1. CASE i \in Answered
    BY <2>1 DEF Answered, Unanswered, TypeOK, Ids
  <2>2. CASE i \in GivenUp
    BY <2>2, TaskFacts DEF GivenUp
  <2> QED
    BY <2>1, <2>2
<1>2. stream[i].key \in Keys /\ stream'[i] = stream[i] /\ i # 0
  BY <1>1, StepGrows DEF Requested, Grows, TypeOK
<1>3. marks'[stream[i].key] # i => marks[stream[i].key] # i
  BY <1>2, StepGrows DEF Grows
<1> QED
  BY <1>2, <1>3 DEF Charged

LEMMA ChargedStep ==
    ASSUME TypeOK, OneHolder, Balanced, Requested, TasksKnown, Unanswered, [Next]_vars
    PROVE  \/ Charged' \subseteq Charged
           \/ /\ faults' = faults + 1
              /\ \E t \in tasks : Charged' \subseteq Charged \cup {t.id}
<1>1. CASE Publish \/ UNCHANGED vars \/ \E p \in Pools : PoolStep(p)
  <2>1. Answered' = Answered /\ UNCHANGED <<succeeded, errored>>
    BY <1>1, PoolRecords DEF Answered
  <2>2. GivenUp' \subseteq GivenUp
    <3>1. \A u \in tasks' : u.step = "giveup" => u \in tasks
      BY <1>1, PoolRecords
    <3> QED
      BY <3>1 DEF GivenUp
  <2>3. ASSUME NEW i \in Charged' PROVE i \in Charged
    <3>1. i \in Answered' \cup GivenUp'
      BY <2>3 DEF Charged
    <3> QED
      BY <2>1, <2>2, <3>1, ChargedStays
  <2> QED
    BY <2>3
<1>2. ASSUME NEW t \in tasks, Process(t) \/ Agent(t) \/ TaskFails(t)
      PROVE  /\ Charged' \subseteq Charged \cup {t.id}
             /\ ~TaskFails(t) => (t.id \in Charged' => t.id \in Charged)
  <2>1. /\ Answered' \subseteq Answered \cup {t.id}
        /\ errored' \subseteq errored \cup {t.id}
        /\ succeeded' \subseteq succeeded \cup {t.id}
    BY <1>2, TaskRecords DEF Answered
  <2>2. \A u \in tasks' : u.id # t.id => u \in tasks
    <3>1. CASE End(t.pool, {t})
      BY <3>1 DEF End
    <3>2. ASSUME NEW label \in Steps, Move(t, label)
          PROVE  \A u \in tasks' : u.id # t.id => u \in tasks
      BY <3>2, MoveTasks
    <3> QED
      BY <1>2, <3>1, <3>2, TaskRecords
  <2>3. GivenUp' \subseteq GivenUp \cup {t.id}
    BY <2>2 DEF GivenUp
  <2>4. ASSUME NEW i \in Charged', i # t.id PROVE i \in Charged
    <3>1. i \in Answered' \cup GivenUp'
      BY <2>4 DEF Charged
    <3> QED
      BY <2>1, <2>3, <2>4, <3>1, ChargedStays
  <2>5. ASSUME NEW label, label # "giveup", Move(t, label) PROVE t.id \notin GivenUp'
    BY <2>5, MoveTasks DEF GivenUp
  <2>6. Known(t) /\ t.id \in 1..cursor /\ t.id # 0 /\ Key(t) \in Keys
        /\ stream'[t.id] = stream[t.id]
    <3>1. t.id \in 1..cursor /\ Key(t) \in Keys /\ Known(t)
      BY TaskFacts DEF TasksKnown
    <3>2. stream'[t.id] = stream[t.id]
      BY <1>2, <3>1, TaskRecords
    <3>3. t.id # 0
      BY <3>1 DEF TypeOK
    <3> QED
      BY <3>1, <3>2, <3>3
  <2>7. CASE Mark(t)
    <3>1. t.id \notin GivenUp'
      BY <2>5, <2>7 DEF Mark
    <3>2. t.id \notin Answered'
      BY <2>7 DEF Mark, Unanswered, Answered
    <3> QED
      BY <2>4, <3>1, <3>2 DEF Charged
  <2>8. CASE Agent(t)
    <3>1. t.id \notin Answered' /\ t.id \notin succeeded /\ marks'[Key(t)] = t.id
      BY <2>6, <2>8 DEF Agent, Unanswered, Answered, Known, redisVars
    <3>2. CASE Move(t, "completed") \/ Move(t, "failed")
      <4>1. t.id \notin GivenUp'
        BY <2>5, <3>2
      <4> QED
        BY <2>4, <3>1, <4>1 DEF Charged
    <3>3. CASE UNCHANGED succeeded
      <4>1. t.id \notin Charged'
        BY <2>6, <3>1, <3>3 DEF Charged, Key
      <4> QED
        BY <2>4, <4>1
    <3> QED
      BY <2>8, <3>2, <3>3 DEF Agent
  <2>9. CASE PublishResult(t)
    <3>1. t.id \notin GivenUp' /\ marks'[Key(t)] = t.id /\ t.id \notin Answered
      BY <2>5, <2>6, <2>9 DEF PublishResult, Known, Unanswered
    <3>2. t.id \notin succeeded' \/ t.id \notin errored'
      BY <2>9, <3>1 DEF PublishResult, AddResult, Unanswered, Answered
    <3>3. t.id \notin Charged'
      BY <2>6, <3>1, <3>2 DEF Charged, Key
    <3> QED
      BY <2>4, <3>3
  <2>10. CASE PublishError(t)
    <3>1. t.id \in GivenUp /\ UNCHANGED succeeded
      BY <2>10 DEF PublishError, GivenUp
    <3>2. t.id \in Charged' => t.id \in Charged
      BY <3>1, ChargedStays
    <3> QED
      BY <2>4, <3>2
  <2>11. CASE Acknowledge(t)
    <3>1. tasks' = tasks \ {t} /\ UNCHANGED <<completed, errored, succeeded>>
      BY <2>11 DEF Acknowledge, End
    <3>2. Answered' = Answered /\ GivenUp' \subseteq GivenUp
      BY <3>1 DEF Answered, GivenUp
    <3>3. t.id \in Charged' => t.id \in Answered' \cup GivenUp'
      BY DEF Charged
    <3>4. t.id \in Charged' => t.id \in Charged
      BY <3>1, <3>2, <3>3, ChargedStays
    <3> QED
      BY <2>4, <3>4
  <2> QED
    BY <1>2, <2>4, <2>7, <2>8, <2>9, <2>10, <2>11 DEF Process
<1>3. \A t \in tasks : TaskFails(t) => faults' = faults + 1
  BY DEF TaskFails
<1> QED
  BY <1>1, <1>2, <1>3 DEF Next, PoolStep

LEMMA AddOne ==
    ASSUME NEW S, IsFiniteSet(S), NEW x
    PROVE  /\ IsFiniteSet(S \cup {x})
           /\ Cardinality(S \cup {x}) \in Nat
           /\ Cardinality(S \cup {x}) <= Cardinality(S) + 1
<1>1. Cardinality(S) \in Nat
  BY FS_CardinalityType
<1>2. CASE x \in S
  <2>1. S \cup {x} = S
    BY <1>2
  <2>2. Cardinality(S) <= Cardinality(S) + 1
    BY <1>1
  <2> QED
    BY <1>1, <2>1, <2>2
<1>3. CASE x \notin S
  <2>1. IsFiniteSet(S \cup {x}) /\ Cardinality(S \cup {x}) = Cardinality(S) + 1
    BY <1>3, FS_AddElement
  <2> QED
    BY <1>1, <2>1
<1> QED
  BY <1>2, <1>3

LEMMA ChargedFinite ==
    ASSUME TypeOK
    PROVE  IsFiniteSet(Charged) /\ Cardinality(Charged) \in Nat
<1>1. Charged \in SUBSET (1..cursor) /\ cursor \in Nat
  <2>1. Answered \subseteq 1..cursor /\ GivenUp \subseteq 1..cursor
    BY DEF TypeOK, Answered, GivenUp
  <2>2. Charged \subseteq Answered \cup GivenUp
    BY DEF Charged
  <2> QED
    BY <2>1, <2>2 DEF TypeOK
<1>2. IsFiniteSet(1..cursor)
  BY <1>1, FS_Interval
<1> QED
  BY <1>1, <1>2, FS_Subset, FS_CardinalityType

LEMMA StepPaid ==
    /\ TypeOK /\ OneHolder /\ Balanced /\ Requested /\ TasksKnown /\ Unanswered /\ Paid
    /\ [Next]_vars
    => Paid'
<1> SUFFICES ASSUME TypeOK, OneHolder, Balanced, Requested, TasksKnown, Unanswered, Paid,
                    [Next]_vars
             PROVE  Paid'
  OBVIOUS
<1>1. /\ IsFiniteSet(Charged) /\ Cardinality(Charged) \in Nat /\ Cardinality(Charged) <= faults
      /\ faults \in Nat /\ faults' \in Nat /\ faults <= faults'
  BY ChargedFinite, StepGrows DEF Paid, Grows, TypeOK
<1>2. CASE Charged' \subseteq Charged
  <2>1. Charged' \in SUBSET Charged
    BY <1>2
  <2>2. Cardinality(Charged') \in Nat /\ Cardinality(Charged') <= Cardinality(Charged)
    BY <1>1, <2>1, FS_Subset, FS_CardinalityType
  <2> QED
    BY <1>1, <2>2 DEF Paid
<1>3. ASSUME faults' = faults + 1, NEW t \in tasks, Charged' \subseteq Charged \cup {t.id}
      PROVE  Paid'
  <2>1. /\ IsFiniteSet(Charged \cup {t.id})
        /\ Cardinality(Charged \cup {t.id}) \in Nat
        /\ Cardinality(Charged \cup {t.id}) <= Cardinality(Charged) + 1
    BY <1>1, AddOne
  <2>2. Charged' \in SUBSET (Charged \cup {t.id})
    BY <1>3
  <2>3. Cardinality(Charged') \in Nat
        /\ Cardinality(Charged') <= Cardinality(Charged \cup {t.id})
    BY <2>1, <2>2, FS_Subset, FS_CardinalityType
  <2> QED
    BY <1>1, <1>3, <2>1, <2>3 DEF Paid
<1> QED
  BY <1>2, <1>3, ChargedStep

LEMMA PaidForWrongAnswers == TypeOK /\ Paid => OneAnswer
<1> SUFFICES ASSUME TypeOK, Paid PROVE OneAnswer
  OBVIOUS
<1>1. WrongAnswers \in SUBSET Charged
  BY DEF WrongAnswers, Charged
<1>2. /\ Cardinality(WrongAnswers) \in Nat
      /\ Cardinality(WrongAnswers) <= Cardinality(Charged)
  BY <1>1, ChargedFinite, FS_Subset, FS_CardinalityType
<1> QED
  BY <1>2, ChargedFinite DEF Paid, OneAnswer, TypeOK

-----------------------------------------------------------------------------
(* The last agent that stop() lets start.                                  *)

LEMMA StepLastStart ==
    ASSUME TypeOK, OneHolder, Balanced, [Next]_vars,
           NEW p \in Pools, state[p] = "shutting_down", Spawned(p) # {}
    PROVE  Cardinality(Spawned(p)) = 1 /\ loop'[p] = "ended"
<1>1. PICK u \in tasks' : u.pool = p /\ \A t \in tasks : t.pool = p => t.id # u.id
  BY DEF Spawned, Active
<1>2. Spawn(p)
  <2>1. ASSUME tasks' \subseteq tasks PROVE FALSE
    BY <1>1, <2>1
  <2>2. CASE Publish \/ UNCHANGED vars
    BY <2>1, <2>2 DEF Publish, vars, taskVars
  <2>3. ASSUME NEW q \in Pools, PoolStep(q), ~Spawn(q) PROVE FALSE
    BY <2>1, <2>3 DEF PoolStep, Start, EventLoop, Read, ReadNothing, Sift, Backoff, Stop,
                Stopping, StopReturns, StopTimeout, CancelRest, Exit, Crash, Down, LoopFails,
                End, taskVars
  <2>4. ASSUME NEW q \in Pools, Spawn(q) PROVE q = p
    <3>1. \A v \in tasks' \ tasks : v.pool = q
      BY <2>4 DEF Spawn, SpawnAll
    <3> QED
      BY <1>1, <3>1
  <2>5. ASSUME NEW t \in tasks, Process(t) \/ Agent(t) \/ TaskFails(t) PROVE FALSE
    <3>1. CASE End(t.pool, {t})
      BY <2>1, <3>1 DEF End
    <3>2. ASSUME NEW label \in Steps, Move(t, label) PROVE FALSE
      <4>1. t \in [pool : Pools, id : 1..cursor, step : Steps]
        BY DEF TypeOK
      <4>2. [t EXCEPT !.step = label].id = t.id /\ [t EXCEPT !.step = label].pool = t.pool
        BY <4>1
      <4> QED
        BY <1>1, <3>2, <4>2 DEF Move
    <3>3. End(t.pool, {t}) \/ \E label \in Steps : Move(t, label)
      <4>1. CASE Mark(t) \/ Agent(t)
        BY <4>1 DEF Mark, Agent, Steps
      <4>2. CASE PublishResult(t) \/ PublishError(t)
        BY <4>2 DEF PublishResult, PublishError, Steps
      <4>3. CASE Acknowledge(t) \/ TaskFails(t)
        BY <4>3 DEF Acknowledge, TaskFails, Steps
      <4> QED
        BY <2>5, <4>1, <4>2, <4>3 DEF Process
    <3> QED
      BY <3>1, <3>2, <3>3
  <2> QED
    BY <2>2, <2>3, <2>4, <2>5 DEF Next, PoolStep
<1>3. Spawned(p) \subseteq Chosen(p)
  <2>1. \A v \in tasks' : v \in tasks \/ v.id \in Chosen(p)
    BY <1>2 DEF Spawn, SpawnAll
  <2> QED
    BY <2>1 DEF Spawned, Active
<1>4. Chosen(p) = Firsts(batch[p])
  BY <1>3 DEF Chosen
<1>5. loop'[p] = "ended"
  BY <1>2 DEF Spawn, NextTurn, Goto, TypeOK
<1>6. /\ IsFiniteSet(Firsts(batch[p])) /\ Cardinality(Firsts(batch[p])) \in 0..1
      /\ Spawned(p) \in SUBSET Firsts(batch[p])
  <2>1. batch[p] \in SUBSET Nat
    BY DEF TypeOK
  <2> QED
    BY <1>3, <1>4, <2>1, FirstsBound
<1>7. /\ IsFiniteSet(Spawned(p)) /\ Cardinality(Spawned(p)) \in Nat
      /\ Cardinality(Spawned(p)) <= Cardinality(Firsts(batch[p]))
      /\ Cardinality(Spawned(p)) # 0
  BY <1>6, FS_Subset, FS_CardinalityType, FS_EmptySet
<1> QED
  BY <1>5, <1>6, <1>7

-----------------------------------------------------------------------------
(* The theorems.                                                           *)

IInv == /\ TypeOK /\ Balanced /\ Custody /\ RunsMarked
        /\ LoopsFine /\ OrphansHaveACause /\ MarksOwned /\ TakenIsAnswered
        /\ Unanswered /\ Paid

LEMMA Inductive == Spec => []IInv
<1>1. Init => IInv
  BY InitTypeOK, InitBalanced, InitRequested, InitUntaken, InitTasksKnown, InitRunsMarked,
     InitLoopsFine, InitOrphans, InitMarksOwned, InitUnanswered, InitPaid
  DEF IInv, Custody
<1>2. IInv /\ [Next]_vars => IInv'
  BY StepTypeOK, StepBalanced, StepOneHolder, StepRequested, StepUntaken, StepTasksKnown,
     StepRunsMarked, StepLoopsFine, StepOrphans, StepMarksOwned, StepTaken, StepUnanswered,
     StepPaid
  DEF IInv, Custody
<1> QED
  BY <1>1, <1>2, PTL DEF Spec

(* Every variable of WorkerPool keeps its type: permits stay between 0 and *)
(* pool_size, and only delivered ids are held, marked or answered.         *)
THEOREM TypeCorrect == Spec => []TypeOK
<1>1. IInv => TypeOK
  BY DEF IInv
<1> QED
  BY <1>1, Inductive, PTL

(* For every pool_size, the free permits and the active tasks of a pool    *)
(* make pool_size, so never more than pool_size agents run at once         *)
(* (_semaphore, _task_done, and what stop() cancels).                      *)
THEOREM ConcurrencyLimited == Spec => []PermitsBalanced
<1>1. IInv => PermitsBalanced
  BY DEF IInv, Balanced, PermitsBalanced
<1> QED
  BY <1>1, Inductive, PTL

(* Any number of replicas of the pool never hold an event twice, and a     *)
(* task only acts on what was really done for its event (_run_event_loop,  *)
(* _process_event).                                                        *)
THEOREM CustodyKept == Spec => []Custody
<1>1. IInv => Custody
  BY DEF IInv
<1> QED
  BY <1>1, Inductive, PTL

(* No request key ever has its agent dispatched twice, for any number of   *)
(* replicas, crashes, failed commands and shutdowns                        *)
(* (check_and_mark_if_new before dispatch).                                *)
THEOREM OneRunPerKey == Spec => []AtMostOneRun
<1>1. IInv => AtMostOneRun
  BY DEF IInv, RunsMarked, AtMostOneRun
<1> QED
  BY <1>1, Inductive, PTL

(* A pending entry that nobody holds was left behind by a crash, a failed  *)
(* command, a shutdown or an entry that does not parse, and by nothing     *)
(* else that _run_event_loop or _process_event does.                       *)
THEOREM OrphansExplained == Spec => []OrphansHaveACause
<1>1. IInv => OrphansHaveACause
  BY DEF IInv
<1> QED
  BY <1>1, Inductive, PTL

(* A key is never taken up for nothing: the entry that took it is in       *)
(* progress or answered, unless its pool was cut off (_process_event).     *)
THEOREM TakenAnswered == Spec => []TakenIsAnswered
<1>1. IInv => TakenIsAnswered
  BY DEF IInv
<1> QED
  BY <1>1, Inductive, PTL

(* There are at most as many wrong answers as failed commands, for any     *)
(* number of replicas, requests and crashes (_process_event publishes in   *)
(* three places).                                                          *)
THEOREM AnswersRight == Spec => []OneAnswer
<1>1. IInv => OneAnswer
  BY PaidForWrongAnswers DEF IInv
<1> QED
  BY <1>1, Inductive, PTL

(* Once stop() is called a pool starts at most one more agent, and its     *)
(* loop ends with it (_run_event_loop tests _state before each event).     *)
THEOREM StopLimitsStarts == Spec => LastStart
<1> DEFINE Limited == \A p \in Pools : state[p] = "shutting_down" /\ Spawned(p) # {} =>
                          Cardinality(Spawned(p)) = 1 /\ loop'[p] = "ended"
<1>1. IInv /\ [Next]_vars => Limited
  BY StepLastStart DEF IInv, Custody
<1>2. IInv /\ [Next]_vars => [Limited]_vars
  BY <1>1
<1> QED
  BY <1>2, Inductive, PTL DEF Spec, LastStart

(* The pools implement the at-most-once execution of AgentRequests.        *)
THEOREM RequestsImplemented == Spec => Implements
<1>1. Init => Requests!Init
  BY InitRefines
<1>2. IInv /\ [Next]_vars => [Requests!Next]_(Requests!vars)
  BY StepRefines DEF IInv, Custody
<1> QED
  BY <1>1, <1>2, Inductive, PTL DEF Implements, Spec, Requests!Spec
=============================================================================
