------------------------ MODULE EventConsumerProofs -------------------------
(***************************************************************************)
(* Theorems about EventConsumer, for every number of consumers, every set  *)
(* of keys and every value of the bounds.                                  *)
(***************************************************************************)
EXTENDS EventConsumer, FiniteSetTheorems, TLAPS

(* What Publish does to the sequence. *)
LEMMA PublishExtends ==
    ASSUME TypeOK, Publish
    PROVE  /\ stream' \in Seq(Entry)
           /\ Len(stream') = Len(stream) + 1
           /\ \A i \in Ids : stream'[i] = stream[i]
<1>1. PICK e \in Publishable : stream' = Append(stream, e)
  BY DEF Publish
<1>2. e \in Entry
  BY ConsumerAssumption
<1> QED
  BY <1>1, <1>2 DEF TypeOK, Ids

LEMMA ExceptTyping ==
    ASSUME NEW D, NEW R, NEW f \in [D -> R], NEW d \in D, NEW r \in R
    PROVE  [f EXCEPT ![d] = r] \in [D -> R]
OBVIOUS

(* XREADGROUP delivers entries of the stream past the cursor. *)
LEMMA DeliverBounds ==
    ASSUME TypeOK, Deliver
    PROVE  /\ cursor' \in cursor..Len(stream)
           /\ Fresh \subseteq (cursor + 1)..cursor'
           /\ pending' = pending \cup Fresh
<1>1. Fresh \subseteq {i \in Ids : i > cursor}
  BY DEF Fresh, Oldest
<1> QED
  BY <1>1 DEF TypeOK, Deliver, Ids

(* The bounds of TypeOK that depend on the cursor survive its growth. *)
LEMMA CursorGrows ==
    ASSUME TypeOK, cursor' \in Nat, cursor <= cursor'
    PROVE  1..cursor \subseteq 1..cursor' /\ 0..cursor \subseteq 0..cursor'
BY DEF TypeOK

LEMMA InitTypeOK == Init => TypeOK
<1> SUFFICES ASSUME Init PROVE TypeOK
  OBVIOUS
<1>1. stream \in Seq(Entry)
  <2>1. Placeholder \in Entry
    BY DEF Placeholder, Entry, Kinds
  <2>2. <<>> \in Seq(Entry) /\ <<Placeholder>> \in Seq(Entry)
    BY <2>1
  <2> QED
    BY <2>2 DEF Init
<1> QED
  BY <1>1 DEF Init, TypeOK, PCs

LEMMA StepTypeOK == TypeOK /\ InHand /\ [Next]_vars => TypeOK'
<1> SUFFICES ASSUME TypeOK, InHand, [Next]_vars PROVE TypeOK'
  OBVIOUS
<1>1. CASE Publish
  <2>1. trimmed' \in 0..Len(stream')
    BY <1>1, PublishExtends, ConsumerAssumption DEF Publish, TypeOK
  <2>2. cursor' \in 0..Len(stream')
    BY <1>1, PublishExtends DEF Publish, TypeOK
  <2> QED
    BY <1>1, <2>1, <2>2, PublishExtends
    DEF Publish, TypeOK, procVars, histVars, envVars
<1>2. CASE \E i \in pending : GoStale(i)
  BY <1>2 DEF GoStale, TypeOK, procVars, histVars, envVars
<1>3. ASSUME NEW c \in Consumers, ListPending(c) PROVE TypeOK'
  <2>1. Oldest(pending, PageSize) \cap stale \subseteq 1..cursor
    BY DEF TypeOK
  <2> QED
    BY <1>3, <2>1 DEF ListPending, At, Goto, TypeOK, PCs, redisVars, histVars, envVars
<1>4. ASSUME NEW c \in Consumers, Claim(c) PROVE TypeOK'
  BY <1>4 DEF Claim, At, Goto, TypeOK, PCs, histVars, envVars
<1>5. ASSUME NEW c \in Consumers, StartLoop(c) PROVE TypeOK'
  BY <1>5 DEF StartLoop, At, Goto, TypeOK, PCs, redisVars, histVars, envVars
<1>6. ASSUME Deliver, UNCHANGED <<stream, trimmed, stale, histVars, cur>>
      PROVE  /\ cursor' \in 0..Len(stream') /\ pending' \subseteq 1..cursor'
             /\ stale' \subseteq pending' /\ cur' \in [Consumers -> 0..cursor']
             /\ acked' \subseteq 1..cursor' /\ succeeded' \subseteq 1..cursor'
             /\ refused' \subseteq 1..cursor' /\ batch \in [Consumers -> SUBSET (1..cursor')]
             /\ Fresh \subseteq 1..cursor' /\ trimmed' \in 0..Len(stream')
  <2> USE <1>6
  <2>1. cursor' \in Nat /\ cursor <= cursor' /\ cursor' <= Len(stream)
    BY DeliverBounds DEF TypeOK
  <2>2. 1..cursor \subseteq 1..cursor' /\ 0..cursor \subseteq 0..cursor'
    BY <2>1, CursorGrows
  <2>3. Fresh \subseteq 1..cursor'
    BY DeliverBounds DEF TypeOK
  <2>4. pending' = pending \cup Fresh
    BY DeliverBounds
  <2>5. batch \in [Consumers -> SUBSET (1..cursor')] /\ cur' \in [Consumers -> 0..cursor']
    BY <2>2 DEF TypeOK
  <2> QED
    BY <2>1, <2>2, <2>3, <2>4, <2>5 DEF TypeOK, histVars
<1>7. ASSUME NEW c \in Consumers, Read(c) PROVE TypeOK'
  <2>1. batch' \in [Consumers -> SUBSET (1..cursor')]
    BY <1>6, <1>7 DEF Read, histVars
  <2> QED
    BY <1>6, <1>7, <2>1 DEF Read, TypeOK, histVars, envVars
<1>8. ASSUME NEW c \in Consumers, Examine(c) PROVE TypeOK'
  <2>1. PICK i \in Firsts(batch[c]) :
            \/ /\ cur' = [cur EXCEPT ![c] = i]
               /\ batch' = [batch EXCEPT ![c] = @ \ {i}]
               /\ \/ pc' = [pc EXCEPT ![c] = "handle"]
                  \/ pc' = [pc EXCEPT ![c] = "skip"]
            \/ /\ batch' = [batch EXCEPT ![c] = {}]
               /\ pc' = [pc EXCEPT ![c] = "down"]
               /\ cur' = cur
    <3>1. PICK i \in Firsts(batch[c]) :
            \/ /\ cur' = [cur EXCEPT ![c] = i]
               /\ batch' = [batch EXCEPT ![c] = @ \ {i}]
               /\ Goto(c, IF CanHandle(stream[i]) /\ stream[i].key \notin processed
                          THEN "handle" ELSE "skip")
            \/ /\ batch' = [batch EXCEPT ![c] = {}]
               /\ Goto(c, "down")
               /\ cur' = cur
      BY <1>8 DEF Examine
    <3> QED
      BY <3>1 DEF Goto
  <2>2. i \in 1..cursor
    BY DEF Firsts, TypeOK
  <2>3. batch[c] \ {i} \in SUBSET (1..cursor) /\ {} \in SUBSET (1..cursor)
    BY DEF TypeOK
  <2>4. batch' \in [Consumers -> SUBSET (1..cursor)]
    <3>1. batch \in [Consumers -> SUBSET (1..cursor)]
      BY DEF TypeOK
    <3>2. batch' = [batch EXCEPT ![c] = batch[c] \ {i}] \/ batch' = [batch EXCEPT ![c] = {}]
      BY <2>1, <3>1
    <3> QED
      BY <2>3, <3>1, <3>2, ExceptTyping
  <2>5. cur' \in [Consumers -> 0..cursor]
    <3>1. cur \in [Consumers -> 0..cursor] /\ i \in 0..cursor
      BY <2>2 DEF TypeOK
    <3> QED
      BY <2>1, <3>1, ExceptTyping
  <2>6. pc' \in [Consumers -> PCs]
    BY <2>1 DEF TypeOK, PCs
  <2> QED
    BY <1>8, <2>4, <2>5, <2>6 DEF Examine, TypeOK, redisVars, histVars, envVars
<1>9. ASSUME NEW c \in Consumers, Exit(c) PROVE TypeOK'
  BY <1>9 DEF Exit, Goto, TypeOK, PCs, redisVars, histVars, envVars
<1>10. ASSUME NEW c \in Consumers, At(c, "mark") PROVE Key(c) \in Keys
  <2>1. cur[c] \in 1..Len(stream) /\ Key(c) # NoKey
    BY <1>10 DEF InHand, Known, Busy, At, TypeOK
  <2>2. stream[cur[c]] \in Entry
    BY <2>1 DEF TypeOK
  <2> QED
    BY <2>1, <2>2 DEF Key, Entry
<1>11. ASSUME NEW c \in Consumers, Mark(c) PROVE TypeOK'
  <2>1. Key(c) \in Keys
    BY <1>10, <1>11 DEF Mark
  <2> QED
    BY <1>11, <2>1 DEF Mark, SetProcessed, Goto, TypeOK, PCs, histVars, envVars
<1>12. ASSUME NEW c \in Consumers, At(c, "handle") \/ At(c, "ack") \/ At(c, "skip")
      PROVE  cur[c] \in 1..cursor
  BY <1>12 DEF InHand, Known, Busy, At
<1>13. ASSUME NEW c \in Consumers, Ack(c) PROVE TypeOK'
  BY <1>12, <1>13 DEF Ack, XAck, Goto, TypeOK, PCs, envVars
<1>14. ASSUME NEW c \in Consumers, Succeed(c) PROVE TypeOK'
  <2>1. runs' \in [Keys -> Nat]
    BY <1>14 DEF Succeed, TypeOK
  <2>2. pc' \in [Consumers -> PCs]
    BY <1>14 DEF Succeed, Goto, TypeOK, PCs
  <2> QED
    BY <1>12, <1>14, <2>1, <2>2 DEF Succeed, TypeOK, redisVars, envVars
<1>15. ASSUME NEW c \in Consumers, Refuse(c) PROVE TypeOK'
  BY <1>12, <1>15 DEF Refuse, Goto, TypeOK, PCs, redisVars, envVars
<1>16. ASSUME NEW c \in Consumers, Retry(c) PROVE TypeOK'
  BY <1>16 DEF Retry, Goto, TypeOK, PCs, redisVars, histVars
<1>17. ASSUME NEW c \in Consumers, Stop(c) PROVE TypeOK'
  BY <1>17 DEF Stop, TypeOK, redisVars, histVars
<1>18. ASSUME NEW c \in Consumers, Crash(c) PROVE TypeOK'
  BY <1>18 DEF Crash, Goto, TypeOK, PCs, redisVars, histVars
<1>19. ASSUME NEW c \in Consumers, Fail(c) PROVE TypeOK'
  <2>1. pc' \in [Consumers -> PCs] /\ faults' \in Nat
    <3>1. pc' = pc \/ pc' = [pc EXCEPT ![c] = "next"] \/ pc' = [pc EXCEPT ![c] = "down"]
      BY <1>19 DEF Fail, Goto
    <3>2. pc \in [Consumers -> PCs] /\ "next" \in PCs /\ "down" \in PCs
      BY DEF TypeOK, PCs
    <3>3. pc' \in [Consumers -> PCs]
      BY <3>1, <3>2, ExceptTyping
    <3>4. faults \in Nat /\ faults' = faults + 1
      BY <1>19 DEF Fail, TypeOK
    <3> QED
      BY <3>3, <3>4
  <2>2. CASE At(c, "claim")
    BY <1>19, <2>1, <2>2 DEF Fail, At, Idle, TypeOK
  <2>3. CASE Deliver /\ UNCHANGED <<batch, stale, processed, acked>>
    BY <1>6, <1>19, <2>1, <2>3 DEF Fail, TypeOK, histVars
  <2>4. CASE At(c, "next") /\ UNCHANGED <<cursor, pending, stale, processed, acked>>
    <3>1. batch' \in [Consumers -> SUBSET (1..cursor)]
      BY <1>19, <2>4 DEF Fail, At, Idle, TypeOK
    <3> QED
      BY <1>19, <2>1, <2>4, <3>1 DEF Fail, TypeOK
  <2>5. CASE At(c, "mark")
    BY <1>10, <1>19, <2>1, <2>5 DEF Fail, At, Idle, SetProcessed, TypeOK
  <2>6. CASE At(c, "ack") \/ At(c, "skip")
    BY <1>12, <1>19, <2>1, <2>6 DEF Fail, At, Idle, XAck, TypeOK
  <2> QED
    BY <1>19, <2>2, <2>3, <2>4, <2>5, <2>6 DEF Fail, Idle
<1>20. CASE UNCHANGED vars
  BY <1>20 DEF vars, TypeOK, redisVars, procVars, histVars, envVars
<1> QED
  BY <1>1, <1>2, <1>3, <1>4, <1>5, <1>7, <1>8, <1>9, <1>11, <1>13, <1>14, <1>15,
     <1>16, <1>17, <1>18, <1>19, <1>20 DEF Next, Loop, Handle

-----------------------------------------------------------------------------
(* What the invariants rest on: nothing recorded is ever taken back.       *)

Grows == /\ cursor' \in Nat /\ cursor <= cursor' /\ cursor' <= Len(stream')
         /\ Len(stream) <= Len(stream')
         /\ \A i \in Ids : stream'[i] = stream[i]
         /\ processed \subseteq processed' /\ succeeded \subseteq succeeded'
         /\ refused \subseteq refused' /\ acked \subseteq acked'
         /\ crashes' \in Nat /\ crashes <= crashes'
         /\ faults' \in Nat /\ faults <= faults'
         /\ retries' \in Nat /\ retries <= retries'

LEMMA StepGrows == TypeOK /\ [Next]_vars => Grows
<1> SUFFICES ASSUME TypeOK, [Next]_vars PROVE Grows
  OBVIOUS
<1>1. CASE Publish
  <2>1. UNCHANGED <<cursor, processed, succeeded, refused, acked, crashes, faults, retries>>
    BY <1>1 DEF Publish, histVars, envVars
  <2>2. Len(stream) \in Nat /\ cursor \in 0..Len(stream)
    BY DEF TypeOK
  <2> QED
    BY <1>1, <2>1, <2>2, PublishExtends DEF TypeOK, Grows
<1>2. CASE \E i \in pending : GoStale(i)
  BY <1>2 DEF GoStale, TypeOK, Grows, procVars, histVars, envVars
<1>3. ASSUME NEW c \in Consumers, ListPending(c) \/ Loop(c) \/ Handle(c) \/ Stop(c) \/ Crash(c)
      PROVE  Grows
  <2>1. CASE Read(c)
    BY <2>1, DeliverBounds DEF Read, TypeOK, Grows, histVars, envVars
  <2>2. CASE Examine(c) \/ Ack(c) \/ Mark(c) \/ Exit(c)
    BY <2>2 DEF Examine, Ack, XAck, Mark, SetProcessed, Exit, TypeOK, Grows,
                redisVars, histVars, envVars
  <2>3. CASE ListPending(c) \/ Claim(c) \/ StartLoop(c)
    BY <2>3 DEF ListPending, Claim, StartLoop, TypeOK, Grows, redisVars, histVars, envVars
  <2>4. CASE Handle(c)
    BY <2>4 DEF Handle, Succeed, Refuse, Retry, TypeOK, Grows, redisVars, histVars, envVars
  <2>5. CASE Stop(c)
    BY <2>5 DEF Stop, TypeOK, Grows, redisVars, histVars
  <2>6. CASE Crash(c)
    <3>1. /\ UNCHANGED <<redisVars, histVars, faults, retries, stops>>
          /\ crashes' = crashes + 1
      BY <2>6 DEF Crash
    <3> QED
      BY <3>1 DEF TypeOK, Grows, redisVars, histVars
  <2> QED
    BY <1>3, <2>1, <2>2, <2>3, <2>4, <2>5, <2>6 DEF Loop
<1>4. ASSUME NEW c \in Consumers, Fail(c) PROVE Grows
  <2>1. /\ cursor' \in Nat /\ cursor <= cursor' /\ cursor' <= Len(stream)
    BY <1>4, DeliverBounds DEF Fail, TypeOK
  <2>2. processed \subseteq processed' /\ acked \subseteq acked'
    BY <1>4 DEF Fail, SetProcessed, XAck
  <2> QED
    BY <1>4, <2>1, <2>2 DEF Fail, TypeOK, Grows
<1>5. CASE UNCHANGED vars
  BY <1>5 DEF vars, TypeOK, Grows, redisVars, procVars, histVars, envVars
<1> QED
  BY <1>1, <1>2, <1>3, <1>4, <1>5 DEF Next

(* A reason to settle an entry stays one. *)
LEMMA CauseStays ==
    ASSUME Grows, NEW i \in Ids, Delivery!Cause(i)
    PROVE  Delivery!Cause(i)'
BY DEF Delivery!Cause, Grows

(* A consumer that does not move keeps what it knows. *)
LEMMA KnownStays ==
    ASSUME TypeOK, Grows, NEW d \in Consumers, Known(d),
           pc'[d] = pc[d], batch'[d] = batch[d], cur'[d] = cur[d]
    PROVE  Known(d)'
<1>1. CASE ~Busy(d)
  BY <1>1 DEF Known, Busy, At
<1>2. CASE Busy(d)
  <2>1. cur[d] \in 1..cursor /\ cur[d] \in Ids
    BY <1>2 DEF Known, TypeOK, Ids
  <2>2. stream'[cur[d]] = stream[cur[d]] /\ 1..cursor \subseteq 1..cursor'
    BY <2>1 DEF Grows, TypeOK
  <2>3. Delivery!Cause(cur[d]) => Delivery!Cause(cur[d])'
    BY <2>1, CauseStays
  <2> QED
    BY <1>2, <2>1, <2>2, <2>3 DEF Known, Busy, At, Key, Grows
<1> QED
  BY <1>1, <1>2

LEMMA InitInHand == Init => InHand
BY DEF Init, InHand, Known, At, Busy

(* A step of one consumer keeps InHand if that consumer's part is kept. *)
LEMMA KnownByOne ==
    ASSUME TypeOK, Grows, InHand, NEW c \in Consumers, Known(c)',
           \A d \in Consumers \ {c} :
               pc'[d] = pc[d] /\ batch'[d] = batch[d] /\ cur'[d] = cur[d]
    PROVE  InHand'
BY KnownStays DEF InHand

LEMMA StepInHand == TypeOK /\ InHand /\ [Next]_vars => InHand'
<1> SUFFICES ASSUME TypeOK, InHand, [Next]_vars PROVE InHand'
  OBVIOUS
<1>0. Grows
  BY StepGrows
<1>1. CASE Publish \/ \E i \in pending : GoStale(i)
  BY <1>0, <1>1, KnownStays DEF Publish, GoStale, procVars, InHand
<1>2. ASSUME NEW c \in Consumers, ListPending(c) PROVE InHand'
  <2>1. Known(c)'
    BY <1>2 DEF ListPending, Goto, Known, At, Busy, TypeOK
  <2> QED
    BY <1>0, <1>2, <2>1, KnownByOne DEF ListPending, Goto, TypeOK
<1>3. ASSUME NEW c \in Consumers, Claim(c) PROVE InHand'
  <2>1. Known(c)'
    BY <1>3 DEF Claim, Goto, Known, At, Busy, TypeOK
  <2> QED
    BY <1>0, <1>3, <2>1, KnownByOne DEF Claim, Goto, TypeOK
<1>4. ASSUME NEW c \in Consumers, StartLoop(c) PROVE InHand'
  BY <1>0, <1>4, KnownStays DEF StartLoop, InHand
<1>5. ASSUME NEW c \in Consumers, Read(c) PROVE InHand'
  <2>1. Known(c)'
    BY <1>5 DEF Read, Idle, Known, At, Busy, TypeOK
  <2> QED
    BY <1>0, <1>5, <2>1, KnownByOne DEF Read, TypeOK
<1>6. ASSUME NEW c \in Consumers, Examine(c) PROVE InHand'
  <2>1. PICK i \in Firsts(batch[c]) :
        \/ /\ Parses(stream[i])
           /\ cur' = [cur EXCEPT ![c] = i]
           /\ batch' = [batch EXCEPT ![c] = @ \ {i}]
           /\ Goto(c, IF CanHandle(stream[i]) /\ stream[i].key \notin processed
                      THEN "handle" ELSE "skip")
        \/ /\ ~Parses(stream[i])
           /\ batch' = [batch EXCEPT ![c] = {}]
           /\ Goto(c, "down")
           /\ UNCHANGED cur
    BY <1>6 DEF Examine
  <2>2. i \in 1..cursor /\ i \in Ids
    BY DEF Firsts, TypeOK, Ids
  <2>3. stream[i] \in Entry
    BY <2>2 DEF TypeOK, Ids
  <2>4. UNCHANGED <<stream, processed, succeeded, refused, cursor>>
    BY <1>6 DEF Examine, redisVars, histVars
  <2>5. CASE ~Parses(stream[i])
    <3>1. Known(c)'
      BY <2>1, <2>5 DEF Goto, Known, At, Busy, TypeOK
    <3> QED
      BY <1>0, <2>1, <2>5, <3>1, KnownByOne DEF Goto, TypeOK
  <2>6. CASE Parses(stream[i]) /\ CanHandle(stream[i]) /\ stream[i].key \notin processed
    <3>1. pc'[c] = "handle" /\ cur'[c] = i
      BY <2>1, <2>6 DEF Goto, TypeOK
    <3>2. Known(c)'
      BY <2>2, <2>4, <2>6, <3>1 DEF Known, At, Busy
    <3> QED
      BY <1>0, <2>1, <2>6, <3>2, KnownByOne DEF Goto, TypeOK
  <2>7. CASE Parses(stream[i]) /\ ~(CanHandle(stream[i]) /\ stream[i].key \notin processed)
    <3>1. pc'[c] = "skip" /\ cur'[c] = i
      BY <2>1, <2>7 DEF Goto, TypeOK
    <3>2. Delivery!Cause(i)
      BY <2>3, <2>7 DEF Delivery!Cause, Parses, CanHandle, Entry, Kinds
    <3>3. Known(c)'
      BY <2>2, <2>4, <3>1, <3>2 DEF Known, At, Busy, Delivery!Cause
    <3> QED
      BY <1>0, <2>1, <2>7, <3>3, KnownByOne DEF Goto, TypeOK
  <2> QED
    BY <2>5, <2>6, <2>7
<1>7. ASSUME NEW c \in Consumers, Busy(c) PROVE cur[c] \in 1..cursor /\ stream[cur[c]] \in Entry
  <2>1. cur[c] \in 1..cursor /\ cur[c] \in 1..Len(stream)
    BY <1>7 DEF InHand, Known, TypeOK
  <2> QED
    BY <2>1 DEF TypeOK
<1>8. ASSUME NEW c \in Consumers, Succeed(c) PROVE InHand'
  <2>1. Known(c)'
    BY <1>7, <1>8 DEF Succeed, Goto, Known, At, Busy, Key, TypeOK, Delivery!Cause, redisVars
  <2> QED
    BY <1>0, <1>8, <2>1, KnownByOne DEF Succeed, Goto, TypeOK
<1>9. ASSUME NEW c \in Consumers, Refuse(c) PROVE InHand'
  <2>1. Known(c)'
    BY <1>7, <1>9 DEF Refuse, Goto, Known, At, Busy, TypeOK, Delivery!Cause, redisVars
  <2> QED
    BY <1>0, <1>9, <2>1, KnownByOne DEF Refuse, Goto, TypeOK
<1>10. ASSUME NEW c \in Consumers, Retry(c) \/ Ack(c) PROVE InHand'
  <2>1. Known(c)'
    BY <1>10 DEF Retry, Ack, Goto, Known, At, Busy, TypeOK
  <2> QED
    BY <1>0, <1>10, <2>1, KnownByOne DEF Retry, Ack, Goto, TypeOK
<1>11. ASSUME NEW c \in Consumers, Mark(c) PROVE InHand'
  <2>1. Known(c)'
    BY <1>7, <1>11 DEF Mark, SetProcessed, Key, Goto, Known, At, Busy, TypeOK, Delivery!Cause
  <2> QED
    BY <1>0, <1>11, <2>1, KnownByOne DEF Mark, Goto, TypeOK
<1>12. ASSUME NEW c \in Consumers, Stop(c) PROVE InHand'
  BY <1>0, <1>12, KnownStays DEF Stop, InHand
<1>13. ASSUME NEW c \in Consumers, Exit(c) \/ Crash(c) PROVE InHand'
  <2>1. Known(c)'
    BY <1>13 DEF Exit, Idle, Crash, Goto, Known, At, Busy, TypeOK
  <2> QED
    BY <1>0, <1>13, <2>1, KnownByOne DEF Exit, Crash, Goto, TypeOK
<1>14. ASSUME NEW c \in Consumers, Fail(c) PROVE InHand'
  <2>1. \/ pc'[c] = "next"
        \/ pc'[c] = "down" /\ batch'[c] = {}
    BY <1>14 DEF Fail, Idle, Goto, At, TypeOK
  <2>2. Known(c)'
    BY <2>1 DEF Known, At, Busy
  <2> QED
    BY <1>0, <1>14, <2>2, KnownByOne DEF Fail, Goto, TypeOK
<1>15. CASE UNCHANGED vars
  BY <1>0, <1>15, KnownStays DEF vars, procVars, InHand
<1> QED
  BY <1>1, <1>2, <1>3, <1>4, <1>5, <1>6, <1>8, <1>9, <1>10, <1>11, <1>12, <1>13,
     <1>14, <1>15 DEF Next, Loop, Handle

(* Every variable of EventConsumer keeps its type, and a consumer's program  *)
(* counter says what is true of its event: the handler runs on events it can *)
(* handle, marking follows a success, acknowledging has a cause.             *)
THEOREM TypeCorrect == Spec => [](TypeOK /\ InHand)
<1>1. Init => TypeOK /\ InHand
  BY InitTypeOK, InitInHand
<1>2. TypeOK /\ InHand /\ [Next]_vars => (TypeOK /\ InHand)'
  BY StepTypeOK, StepInHand
<1> QED
  BY <1>1, <1>2, PTL DEF Spec

-----------------------------------------------------------------------------
(* No entry is dropped.                                                    *)

(* XREADGROUP skips no entry that is still in the stream. *)
LEMMA FreshIsPrefix ==
    ASSUME TypeOK, Deliver, NEW i \in (cursor + 1)..cursor'
    PROVE  i \in Fresh \/ Evicted(i)
<1> DEFINE S == {j \in Ids : j > cursor /\ ~Evicted(j)}
           Below(n) == {j \in S : j < n}
<1> SUFFICES ASSUME ~Evicted(i) PROVE i \in Fresh
  OBVIOUS
<1>1. cursor' \in Fresh /\ cursor' \in Ids
  BY DEF Deliver, Fresh, Oldest
<1>2. i \in S /\ i <= cursor'
  BY <1>1 DEF TypeOK, Ids
<1>3. IsFiniteSet(Below(cursor')) /\ IsFiniteSet(Below(i))
  <2>1. IsFiniteSet(Ids)
    BY FS_Interval DEF Ids, TypeOK
  <2>2. Below(cursor') \subseteq Ids /\ Below(i) \subseteq Ids
    OBVIOUS
  <2> QED
    BY <2>1, <2>2, FS_Subset
<1>4. Cardinality(Below(i)) <= Cardinality(Below(cursor'))
  <2>1. Below(i) \subseteq Below(cursor')
    BY <1>1, <1>2 DEF Ids, TypeOK
  <2> QED
    BY <1>3, <2>1, FS_Subset
<1>5. Cardinality(Below(cursor')) < BatchSize
  BY <1>1 DEF Fresh, Oldest
<1>6. Cardinality(Below(i)) \in Nat /\ Cardinality(Below(cursor')) \in Nat
  BY <1>3, FS_CardinalityType
<1>7. Cardinality(Below(i)) < BatchSize
  BY <1>4, <1>5, <1>6, ConsumerAssumption
<1> QED
  BY <1>2, <1>7 DEF Fresh, Oldest

LEMMA StepNeverDropped == TypeOK /\ NeverDropped /\ [Next]_vars => NeverDropped'
<1> SUFFICES ASSUME TypeOK, NeverDropped, [Next]_vars, NEW i \in 1..cursor'
             PROVE  i \in pending' \/ i \in acked' \/ i <= trimmed'
  BY DEF NeverDropped, Evicted
<1>1. ASSUME Deliver, UNCHANGED <<trimmed, acked>>
      PROVE  i \in pending' \/ i \in acked' \/ i <= trimmed'
  <2>1. i \in 1..cursor \/ i \in (cursor + 1)..cursor'
    BY <1>1, DeliverBounds DEF TypeOK
  <2> QED
    BY <1>1, <2>1, DeliverBounds, FreshIsPrefix DEF NeverDropped, Evicted
<1>2. CASE UNCHANGED cursor /\ (i <= trimmed => i <= trimmed') /\ acked \subseteq acked'
           /\ \A j \in pending \ pending' : j \in acked' \/ j <= trimmed'
  BY <1>2 DEF NeverDropped, Evicted, TypeOK
<1>3. CASE Publish
  <2>1. i <= trimmed => i <= trimmed'
    BY <1>3 DEF Publish, TypeOK
  <2> QED
    BY <1>2, <1>3, <2>1 DEF Publish, histVars
<1>4. CASE \E j \in pending : GoStale(j)
  BY <1>2, <1>4 DEF GoStale, histVars, TypeOK
<1>5. ASSUME NEW c \in Consumers, Loop(c)
      PROVE  i \in pending' \/ i \in acked' \/ i <= trimmed'
  <2>1. CASE Claim(c)
    BY <1>2, <2>1 DEF Claim, Evicted, histVars, TypeOK
  <2>2. CASE Read(c)
    BY <1>1, <2>2 DEF Read, histVars
  <2>3. CASE Ack(c)
    BY <1>2, <2>3 DEF Ack, XAck, TypeOK
  <2>4. CASE StartLoop(c) \/ Examine(c) \/ Exit(c) \/ Mark(c)
    BY <1>2, <2>4 DEF StartLoop, Examine, Exit, Mark, redisVars, histVars, TypeOK
  <2> QED
    BY <1>5, <2>1, <2>2, <2>3, <2>4 DEF Loop
<1>6. ASSUME NEW c \in Consumers, ListPending(c) \/ Handle(c) \/ Stop(c) \/ Crash(c)
      PROVE  i \in pending' \/ i \in acked' \/ i <= trimmed'
  BY <1>2, <1>6 DEF ListPending, Handle, Succeed, Refuse, Retry, Stop, Crash, redisVars,
                    histVars, TypeOK
<1>7. ASSUME NEW c \in Consumers, Fail(c)
      PROVE  i \in pending' \/ i \in acked' \/ i <= trimmed'
  <2>1. CASE Deliver /\ UNCHANGED acked
    BY <1>1, <1>7, <2>1 DEF Fail
  <2>2. CASE UNCHANGED <<cursor, pending, acked>>
    BY <1>2, <1>7, <2>2 DEF Fail, TypeOK
  <2>3. CASE XAck(c) /\ UNCHANGED cursor
    BY <1>2, <1>7, <2>3 DEF Fail, XAck, TypeOK
  <2> QED
    BY <1>7, <2>1, <2>2, <2>3 DEF Fail
<1>8. CASE UNCHANGED vars
  BY <1>2, <1>8 DEF vars, redisVars, histVars, TypeOK
<1> QED
  BY <1>3, <1>4, <1>5, <1>6, <1>7, <1>8 DEF Next

(* An entry delivered to the group stays in its pending list until it is     *)
(* acknowledged or evicted, whatever crashes, claims and failed commands of  *)
(* EventConsumer come in between: delivery is at least once.                 *)
THEOREM NothingDropped == Spec => []NeverDropped
<1>1. Init => NeverDropped
  BY DEF Init, NeverDropped
<1>2. TypeOK /\ NeverDropped /\ [Next]_vars => NeverDropped'
  BY StepNeverDropped
<1> QED
  BY <1>1, <1>2, TypeCorrect, PTL DEF Spec

-----------------------------------------------------------------------------
(* EventConsumer implements EventDelivery.                                 *)

LEMMA InitDelivery == Init => Delivery!Init
BY DEF Init, Delivery!Init, Placeholder, Delivery!Placeholder

LEMMA StepDelivery == TypeOK /\ InHand /\ [Next]_vars => [Delivery!Next]_(Delivery!vars)
<1> SUFFICES ASSUME TypeOK, InHand, [Next]_vars PROVE [Delivery!Next]_(Delivery!vars)
  OBVIOUS
<1>1. CASE UNCHANGED <<stream, succeeded, refused, processed, acked>>
  BY <1>1 DEF Delivery!vars
<1>2. ASSUME NEW c \in Consumers, Busy(c)
      PROVE  cur[c] \in Delivery!Ids
  BY <1>2 DEF InHand, Known, TypeOK, Delivery!Ids
<1>3. CASE Publish
  <2>1. \E e \in Entry : stream' = Append(stream, e)
    BY <1>3, ConsumerAssumption DEF Publish
  <2> QED
    BY <1>3, <2>1 DEF Publish, histVars, Delivery!Next, Delivery!Publish,
                      Entry, Delivery!Entry, Kinds, Delivery!Kinds
<1>4. ASSUME NEW c \in Consumers, Succeed(c) PROVE Delivery!Next
  <2>1. Delivery!Complete(cur[c])
    BY <1>4 DEF Succeed, InHand, Known, redisVars, Delivery!Complete,
                      CanHandle, Delivery!CanHandle
  <2> QED
    BY <1>2, <1>4, <2>1 DEF Succeed, At, Busy, Delivery!Next
<1>5. ASSUME NEW c \in Consumers, Refuse(c) PROVE Delivery!Next
  <2>1. Delivery!Refuse(cur[c])
    BY <1>5 DEF Refuse, InHand, Known, redisVars, Delivery!Refuse,
                      CanHandle, Delivery!CanHandle
  <2> QED
    BY <1>2, <1>5, <2>1 DEF Refuse, At, Busy, Delivery!Next
<1>6. ASSUME NEW c \in Consumers, At(c, "mark"), SetProcessed(c),
             UNCHANGED <<stream, succeeded, refused, acked>>
      PROVE  Delivery!Next
  <2>1. Delivery!Record(cur[c])
    BY <1>6 DEF SetProcessed, Key, InHand, Known, Delivery!Record
  <2> QED
    BY <1>2, <1>6, <2>1 DEF At, Busy, Delivery!Next
<1>7. ASSUME NEW c \in Consumers, At(c, "ack") \/ At(c, "skip"), XAck(c),
             UNCHANGED <<stream, succeeded, refused, processed>>
      PROVE  Delivery!Next
  <2>1. Delivery!Settle(cur[c])
    BY <1>7 DEF XAck, InHand, Known, Delivery!Settle
  <2> QED
    BY <1>2, <1>7, <2>1 DEF At, Busy, Delivery!Next
<1>8. ASSUME NEW c \in Consumers, Loop(c) PROVE [Delivery!Next]_(Delivery!vars)
  <2>1. CASE Mark(c)
    BY <1>6, <2>1 DEF Mark, histVars
  <2>2. CASE Ack(c)
    BY <1>7, <2>2 DEF Ack
  <2>3. CASE Claim(c) \/ StartLoop(c) \/ Read(c) \/ Examine(c) \/ Exit(c)
    BY <1>1, <2>3 DEF Claim, StartLoop, Read, Examine, Exit, redisVars, histVars
  <2> QED
    BY <1>8, <2>1, <2>2, <2>3 DEF Loop
<1>9. ASSUME NEW c \in Consumers, Fail(c) PROVE [Delivery!Next]_(Delivery!vars)
  <2>1. UNCHANGED <<stream, succeeded, refused>>
    BY <1>9 DEF Fail
  <2>2. \/ UNCHANGED <<processed, acked>>
        \/ At(c, "mark") /\ SetProcessed(c) /\ UNCHANGED acked
        \/ (At(c, "ack") \/ At(c, "skip")) /\ XAck(c) /\ UNCHANGED processed
    BY <1>9 DEF Fail
  <2> QED
    BY <1>1, <1>6, <1>7, <2>1, <2>2
<1>10. ASSUME NEW c \in Consumers, ListPending(c) \/ Retry(c) \/ Stop(c) \/ Crash(c)
       PROVE  [Delivery!Next]_(Delivery!vars)
  BY <1>1, <1>10 DEF ListPending, Retry, Stop, Crash, redisVars, histVars
<1>11. CASE \E j \in pending : GoStale(j)
  BY <1>1, <1>11 DEF GoStale, histVars
<1>12. CASE UNCHANGED vars
  BY <1>1, <1>12 DEF vars, redisVars, histVars
<1> QED
  BY <1>3, <1>4, <1>5, <1>8, <1>9, <1>10, <1>11, <1>12 DEF Next, Handle

(* EventConsumer settles entries only for the reasons EventDelivery names,   *)
(* and records a key only after a successful run of the handler.             *)
THEOREM DeliveryImplemented == Spec => Implements
<1>1. TypeOK /\ InHand /\ [Next]_vars => [Delivery!Next]_(Delivery!vars)
  BY StepDelivery
<1> QED
  BY <1>1, InitDelivery, TypeCorrect, PTL DEF Spec, Implements, Delivery!Spec

-----------------------------------------------------------------------------
(* Who left an entry behind.                                               *)

LEMMA SumZero ==
    ASSUME NEW a \in Nat, NEW b \in Nat, NEW c \in Nat, ~(a + b + c > 0)
    PROVE  a = 0 /\ b = 0 /\ c = 0
OBVIOUS

LEMMA StepOrphans ==
    TypeOK /\ InHand /\ OrphansHaveACause /\ [Next]_vars => OrphansHaveACause'
<1> SUFFICES ASSUME TypeOK, InHand, OrphansHaveACause, [Next]_vars,
                    ~(crashes' + faults' + retries' > 0),
                    \A j \in 1..cursor' : Parses(stream'[j]),
                    NEW i \in pending'
             PROVE  \E d \in Consumers : i \in Held(d)'
  BY DEF OrphansHaveACause
<1>1. Grows
  BY StepGrows
<1>2. crashes' = 0 /\ faults' = 0 /\ retries' = 0 /\ crashes = 0 /\ faults = 0 /\ retries = 0
  <2>1. /\ crashes' \in Nat /\ faults' \in Nat /\ retries' \in Nat
        /\ crashes <= crashes' /\ faults <= faults' /\ retries <= retries'
    BY <1>1 DEF Grows
  <2>2. crashes \in Nat /\ faults \in Nat /\ retries \in Nat
    BY DEF TypeOK
  <2>3. ~(crashes' + faults' + retries' > 0)
    OBVIOUS
  <2>4. crashes' = 0 /\ faults' = 0 /\ retries' = 0
    BY <2>1, <2>3, SumZero
  <2> QED
    BY <2>1, <2>2, <2>4
<1>3. \A j \in 1..cursor : Parses(stream[j]) /\ stream'[j] = stream[j]
  BY <1>1 DEF Grows, TypeOK, Ids
<1>4. ASSUME i \in pending PROVE \E d \in Consumers : i \in Held(d)
  BY <1>2, <1>3, <1>4 DEF OrphansHaveACause
<1>5. CASE i \in pending /\ UNCHANGED <<pc, batch, cur>>
  BY <1>4, <1>5 DEF Held, At, Busy
<1>6. CASE Publish \/ (\E j \in pending : GoStale(j)) \/ UNCHANGED vars
  BY <1>5, <1>6 DEF Publish, GoStale, vars, redisVars, procVars
<1>7. ASSUME NEW c \in Consumers, i \in pending, Held(c) \ {i} = Held(c) \/ i \in Held(c)',
             \A d \in Consumers \ {c} :
                 pc'[d] = pc[d] /\ batch'[d] = batch[d] /\ cur'[d] = cur[d]
      PROVE  \E d \in Consumers : i \in Held(d)'
  <2>1. PICK d \in Consumers : i \in Held(d)
    BY <1>4, <1>7
  <2> QED
    BY <1>7, <2>1 DEF Held, At, Busy
<1>8. ASSUME NEW c \in Consumers, ListPending(c) PROVE \E d \in Consumers : i \in Held(d)'
  <2>1. Held(c) = {}
    BY <1>8 DEF ListPending, Held, InHand, Known, At, Busy
  <2> QED
    BY <1>7, <1>8, <2>1 DEF ListPending, Goto, TypeOK, redisVars
<1>9. ASSUME NEW c \in Consumers, Claim(c) PROVE \E d \in Consumers : i \in Held(d)'
  <2>1. Held(c) = {}
    BY <1>9 DEF Claim, Held, At, Busy
  <2> QED
    BY <1>7, <1>9, <2>1 DEF Claim, Goto, TypeOK
<1>10. ASSUME NEW c \in Consumers, StartLoop(c) \/ Stop(c) \/ Exit(c)
       PROVE  \E d \in Consumers : i \in Held(d)'
  <2>1. CASE Exit(c)
    <3>1. Held(c) = {}
      BY <2>1 DEF Exit, Idle, Held, At, Busy
    <3> QED
      BY <1>7, <2>1, <3>1 DEF Exit, Goto, TypeOK, redisVars
  <2> QED
    BY <1>5, <1>10, <2>1 DEF StartLoop, Stop, redisVars
<1>11. ASSUME NEW c \in Consumers, Read(c) PROVE \E d \in Consumers : i \in Held(d)'
  <2>1. Held(c) = {}
    BY <1>11 DEF Read, Idle, Held, At, Busy
  <2>2. CASE i \in pending
    BY <1>7, <1>11, <2>1, <2>2 DEF Read, TypeOK
  <2>3. CASE i \in Fresh
    <3>1. \A j \in Fresh : Parses(stream[j])
      BY <1>11, DeliverBounds DEF Read, TypeOK
    <3>2. i \in batch'[c] /\ pc'[c] = "next"
      BY <1>11, <2>3, <3>1 DEF Read, Idle, At, TypeOK
    <3> QED
      BY <3>2 DEF Held, At
  <2> QED
    BY <1>11, <2>2, <2>3, DeliverBounds DEF Read
<1>12. ASSUME NEW c \in Consumers, Examine(c) PROVE \E d \in Consumers : i \in Held(d)'
  <2>1. PICK j \in Firsts(batch[c]) :
           /\ cur' = [cur EXCEPT ![c] = j]
           /\ batch' = [batch EXCEPT ![c] = @ \ {j}]
           /\ Goto(c, IF CanHandle(stream[j]) /\ stream[j].key \notin processed
                      THEN "handle" ELSE "skip")
    BY <1>3, <1>12 DEF Examine, Firsts, TypeOK
  <2>2. Held(c) \subseteq Held(c)'
    BY <1>12, <2>1 DEF Examine, Held, Goto, At, Busy, TypeOK
  <2>3. \A d \in Consumers \ {c} :
            pc'[d] = pc[d] /\ batch'[d] = batch[d] /\ cur'[d] = cur[d]
    BY <2>1 DEF Goto, TypeOK
  <2>4. i \in pending
    BY <1>12 DEF Examine, redisVars
  <2> QED
    BY <1>4, <1>7, <2>2, <2>3, <2>4
<1>13. ASSUME NEW c \in Consumers, Succeed(c) \/ Refuse(c) \/ Mark(c)
       PROVE  \E d \in Consumers : i \in Held(d)'
  <2>1. Held(c) \subseteq Held(c)'
    BY <1>13 DEF Succeed, Refuse, Mark, Held, Goto, At, Busy, TypeOK
  <2> QED
    BY <1>7, <1>13, <2>1 DEF Succeed, Refuse, Mark, Goto, TypeOK, redisVars
<1>14. ASSUME NEW c \in Consumers, Ack(c) PROVE \E d \in Consumers : i \in Held(d)'
  <2>1. i \in pending /\ i # cur[c]
    BY <1>14 DEF Ack, XAck
  <2>2. Held(c) \ {cur[c]} \subseteq Held(c)'
    BY <1>14 DEF Ack, Held, Goto, At, Busy, TypeOK
  <2>3. \A d \in Consumers \ {c} :
            pc'[d] = pc[d] /\ batch'[d] = batch[d] /\ cur'[d] = cur[d]
    BY <1>14 DEF Ack, Goto, TypeOK
  <2>4. Held(c) \ {i} = Held(c) \/ i \in Held(c)'
    BY <2>1, <2>2
  <2> QED
    BY <1>7, <2>1, <2>3, <2>4
<1>15. ASSUME NEW c \in Consumers, Retry(c) \/ Crash(c) \/ Fail(c) PROVE FALSE
  BY <1>2, <1>15 DEF Retry, Crash, Fail
<1> QED
  BY <1>6, <1>8, <1>9, <1>10, <1>11, <1>12, <1>13, <1>14, <1>15 DEF Next, Loop, Handle

(* A pending entry that no consumer will look at was left by a crash, a      *)
(* failed Redis command, a retry or an entry that does not parse; never by   *)
(* stop(), by claiming, or by the order of the steps.                        *)
THEOREM OrphansExplained == Spec => []OrphansHaveACause
<1>1. Init => OrphansHaveACause
  BY DEF Init, OrphansHaveACause
<1>2. TypeOK /\ InHand /\ OrphansHaveACause /\ [Next]_vars => OrphansHaveACause'
  BY StepOrphans
<1> QED
  BY <1>1, <1>2, TypeCorrect, PTL DEF Spec

-----------------------------------------------------------------------------
(* How often a key is handled.                                             *)

(* The consumers about to mark a key and those handling it are disjoint. *)
LEMMA AtKeyCount ==
    ASSUME NEW k
    PROVE  /\ IsFiniteSet(AtKey("mark", k)) /\ IsFiniteSet(AtKey("handle", k))
           /\ Cardinality(AtKey("mark", k)) \in Nat
           /\ Cardinality(AtKey("handle", k)) \in Nat
           /\ Cardinality(Consumers) \in Nat
           /\ Cardinality(AtKey("mark", k)) + Cardinality(AtKey("handle", k))
                 <= Cardinality(Consumers)
<1> DEFINE M == AtKey("mark", k)
           H == AtKey("handle", k)
<1>1. M \subseteq Consumers /\ H \subseteq Consumers /\ M \cap H = {}
  BY DEF AtKey, At
<1>2. IsFiniteSet(Consumers) /\ IsFiniteSet(M) /\ IsFiniteSet(H)
  BY <1>1, FS_Subset, ConsumerAssumption
<1>3. Cardinality(M) \in Nat /\ Cardinality(H) \in Nat /\ Cardinality(Consumers) \in Nat
  BY <1>2, FS_CardinalityType
<1>4. Cardinality(M \cup H) = Cardinality(M) + Cardinality(H)
  <2>1. Cardinality(M \cup H) = Cardinality(M) + Cardinality(H) - Cardinality(M \cap H)
    BY <1>2, FS_Union
  <2>2. Cardinality(M \cap H) = 0
    BY <1>1, FS_EmptySet
  <2> QED
    BY <1>3, <2>1, <2>2
<1>5. Cardinality(M \cup H) <= Cardinality(Consumers)
  BY <1>1, <1>2, FS_Subset
<1> QED
  BY <1>2, <1>3, <1>4, <1>5

LEMMA SubsetCount ==
    ASSUME NEW S, NEW T, S \subseteq T, IsFiniteSet(T)
    PROVE  Cardinality(S) \in Nat /\ Cardinality(S) <= Cardinality(T)
BY FS_Subset, FS_CardinalityType

(* One consumer fewer about to mark k lowers the count by at most one. *)
LEMMA LoseOne ==
    ASSUME NEW S, NEW T, NEW c, S \ {c} \subseteq T, IsFiniteSet(S), IsFiniteSet(T)
    PROVE  Cardinality(S) <= Cardinality(T) + 1
<1>1. S \subseteq T \cup {c}
  OBVIOUS
<1>2. IsFiniteSet(T \cup {c}) /\ Cardinality(T \cup {c}) \in Nat /\ Cardinality(S) \in Nat
      /\ Cardinality(T) \in Nat
  BY FS_AddElement, FS_CardinalityType
<1>3. Cardinality(T \cup {c}) <= Cardinality(T) + 1
  BY <1>2, FS_AddElement
<1>4. Cardinality(S) <= Cardinality(T \cup {c})
  BY <1>1, <1>2, FS_Subset
<1> QED
  BY <1>2, <1>3, <1>4

LEMMA SumNat == ASSUME NEW a \in Nat, NEW b \in Nat PROVE a + b \in Nat
OBVIOUS

LEMMA LossArith ==
    ASSUME NEW r \in Nat, NEW m \in Nat, NEW n \in Nat, NEW b \in Nat, NEW d \in Nat,
           r <= m + b, m <= n + 1, d >= b + 1
    PROVE  r <= n + d
OBVIOUS

LEMMA StepAccounted == TypeOK /\ InHand /\ RunsAccounted /\ [Next]_vars => RunsAccounted'
<1> SUFFICES ASSUME TypeOK, InHand, RunsAccounted, [Next]_vars, NEW k \in Keys
             PROVE  Accounted(k)'
  BY DEF RunsAccounted
<1> DEFINE M == AtKey("mark", k)
           H == AtKey("handle", k)
           N == Cardinality(Consumers)
<1>0. Grows /\ TypeOK'
  BY StepGrows, StepTypeOK
<1>1. Accounted(k)
  BY DEF RunsAccounted
<1>2. /\ IsFiniteSet(M) /\ IsFiniteSet(H) /\ Cardinality(M) \in Nat /\ Cardinality(H) \in Nat
      /\ N \in Nat /\ Cardinality(M) + Cardinality(H) <= N
  BY AtKeyCount
<1>3. /\ IsFiniteSet(M') /\ IsFiniteSet(H') /\ Cardinality(M') \in Nat
      /\ Cardinality(H') \in Nat
  <2>1. M' \subseteq Consumers /\ H' \subseteq Consumers
    BY DEF AtKey
  <2> QED
    BY <2>1, FS_Subset, FS_CardinalityType, ConsumerAssumption
<1>4. /\ runs[k] \in Nat /\ crashes \in Nat /\ faults \in Nat
      /\ crashes' \in Nat /\ crashes <= crashes' /\ faults' \in Nat /\ faults <= faults'
  BY <1>0 DEF TypeOK, Grows
\* Nobody begins or ends a run of k.
<1>5. ASSUME runs'[k] = runs[k], k \in processed' <=> k \in processed,
             k \in processed => H' \subseteq H, M \subseteq M'
      PROVE  Accounted(k)'
  <2>1. Cardinality(M) <= Cardinality(M')
    BY <1>3, <1>5, SubsetCount
  <2>2. k \in processed => Cardinality(H') <= Cardinality(H)
    BY <1>2, <1>5, SubsetCount
  <2> QED
    BY <1>1, <1>2, <1>3, <1>4, <1>5, <2>1, <2>2 DEF Accounted
\* One consumer about to mark k gives up.
<1>6. ASSUME NEW c, runs'[k] = runs[k], k \in processed' <=> k \in processed,
             H' \subseteq H, M \ {c} \subseteq M', crashes' + faults' >= crashes + faults + 1
      PROVE  Accounted(k)'
  <2>1. Cardinality(M) <= Cardinality(M') + 1
    BY <1>2, <1>3, <1>6, LoseOne
  <2>2. Cardinality(H') <= Cardinality(H)
    BY <1>2, <1>6, SubsetCount
  <2>3. CASE k \in processed
    BY <1>1, <1>2, <1>3, <1>4, <1>6, <2>2, <2>3 DEF Accounted
  <2>4. CASE k \notin processed
    <3>1. runs[k] <= Cardinality(M) + (crashes + faults)
      BY <1>1, <1>2, <1>4, <2>4 DEF Accounted
    <3>2. runs[k] <= Cardinality(M') + (crashes' + faults')
      <4>1. crashes + faults \in Nat /\ crashes' + faults' \in Nat
        BY <1>4, SumNat
      <4>2. crashes' + faults' >= (crashes + faults) + 1
        BY <1>6
      <4> QED
        BY <1>2, <1>3, <1>4, <2>1, <3>1, <4>1, <4>2, LossArith
    <3> QED
      BY <1>3, <1>4, <1>6, <2>4, <3>2 DEF Accounted
  <2> QED
    BY <2>3, <2>4
\* k is marked.
<1>7. ASSUME runs'[k] = runs[k], k \in processed', H' \subseteq H
      PROVE  Accounted(k)'
  <2>1. Cardinality(H') <= Cardinality(H)
    BY <1>2, <1>7, SubsetCount
  <2> QED
    BY <1>1, <1>2, <1>3, <1>4, <1>7, <2>1 DEF Accounted
<1>8. ASSUME UNCHANGED <<pc, cur, runs, processed>> PROVE Accounted(k)'
  <2>1. \A c \in Consumers : pc[c] = "mark" \/ pc[c] = "handle" => Key(c)' = Key(c)
    <3>1. ASSUME NEW c \in Consumers, Busy(c) PROVE stream'[cur[c]] = stream[cur[c]]
      <4>1. cur[c] \in Ids
        BY <3>1 DEF InHand, Known, Ids, TypeOK
      <4> QED
        BY <1>0, <4>1 DEF Grows
    <3> QED
      BY <1>8, <3>1 DEF Busy, Key
  <2>2. M' = M /\ H' = H
    BY <1>8, <2>1 DEF AtKey, At
  <2> QED
    BY <1>5, <1>8, <2>2
\* Consumer c moves: which consumers are where, and with which key.
<1>9. ASSUME NEW c \in Consumers, stream' = stream,
             \A d \in Consumers \ {c} : pc'[d] = pc[d] /\ cur'[d] = cur[d]
      PROVE  /\ M \ {c} \subseteq M' /\ M' \ {c} \subseteq M
             /\ H \ {c} \subseteq H' /\ H' \ {c} \subseteq H
             /\ (pc'[c] # "mark" => c \notin M') /\ (pc'[c] # "handle" => c \notin H')
             /\ (pc[c] # "mark" => c \notin M) /\ (pc[c] # "handle" => c \notin H)
  BY <1>9 DEF AtKey, At, Key
<1>10. ASSUME NEW c \in Consumers, ListPending(c) \/ Claim(c) \/ StartLoop(c) \/ Exit(c)
                                     \/ Ack(c) \/ Refuse(c) \/ Retry(c)
       PROVE  Accounted(k)'
  <2>1. /\ stream' = stream /\ pc[c] # "mark" /\ pc'[c] # "handle"
        /\ runs' = runs /\ processed' = processed
        /\ \A d \in Consumers \ {c} : pc'[d] = pc[d] /\ cur'[d] = cur[d]
    BY <1>10 DEF ListPending, Claim, StartLoop, Exit, Idle, Ack, Refuse, Retry, Goto, At,
                 redisVars, histVars, TypeOK
  <2>2. H' \subseteq H /\ M \subseteq M'
    BY <1>9, <2>1 DEF AtKey, At
  <2> QED
    BY <1>5, <2>1, <2>2
<1>11. ASSUME NEW c \in Consumers, Examine(c) PROVE Accounted(k)'
  <2>1. /\ stream' = stream /\ pc[c] = "next" /\ runs' = runs /\ processed' = processed
        /\ pc'[c] = "handle" => Key(c)' \notin processed
        /\ \A d \in Consumers \ {c} : pc'[d] = pc[d] /\ cur'[d] = cur[d]
    BY <1>11 DEF Examine, Goto, At, Key, redisVars, histVars, TypeOK
  <2>2. M \subseteq M'
    BY <1>9, <2>1 DEF AtKey, At
  <2>3. k \in processed => H' \subseteq H
    BY <1>9, <2>1 DEF AtKey, At
  <2> QED
    BY <1>5, <2>1, <2>2, <2>3
<1>12. ASSUME NEW c \in Consumers, Succeed(c) PROVE Accounted(k)'
  <2>1. /\ stream' = stream /\ cur' = cur /\ processed' = processed /\ pc[c] = "handle"
        /\ pc'[c] = IF Key(c) = NoKey THEN "ack" ELSE "mark"
        /\ runs'[k] = runs[k] + (IF k = Key(c) THEN 1 ELSE 0)
        /\ crashes' = crashes /\ faults' = faults
        /\ \A d \in Consumers \ {c} : pc'[d] = pc[d] /\ cur'[d] = cur[d]
    BY <1>12 DEF Succeed, Goto, At, redisVars, envVars, TypeOK
  <2>2. CASE Key(c) # k
    <3>1. H' \subseteq H /\ M \subseteq M'
      BY <1>9, <2>1, <2>2 DEF AtKey, At, Key
    <3> QED
      BY <1>4, <1>5, <2>1, <2>2, <3>1
  <2>3. CASE Key(c) = k
    <3>1. c \in H /\ H' = H \ {c} /\ c \notin M /\ M' = M \cup {c}
      BY <1>9, <2>1, <2>3, KeyAssumption DEF AtKey, At, Key
    <3>2. Cardinality(H') = Cardinality(H) - 1
      BY <1>2, <3>1, FS_RemoveElement
    <3>3. Cardinality(M') = Cardinality(M) + 1
      BY <1>2, <3>1, FS_AddElement
    <3> QED
      BY <1>1, <1>2, <1>3, <1>4, <2>1, <2>3, <3>2, <3>3 DEF Accounted
  <2> QED
    BY <2>2, <2>3
<1>13. ASSUME NEW c \in Consumers, At(c, "mark"), SetProcessed(c),
              pc'[c] # "handle", UNCHANGED <<stream, cur, runs>>,
              \A d \in Consumers \ {c} : pc'[d] = pc[d]
       PROVE  Accounted(k)'
  <2>1. H' \subseteq H
    BY <1>9, <1>13 DEF AtKey, At
  <2>2. CASE Key(c) = k
    BY <1>7, <1>13, <2>1, <2>2 DEF SetProcessed
  <2>3. CASE Key(c) # k
    <3>1. M \subseteq M' /\ (k \in processed' <=> k \in processed)
      BY <1>9, <1>13, <2>3 DEF SetProcessed, AtKey, At
    <3> QED
      BY <1>5, <1>13, <2>1, <3>1
  <2> QED
    BY <2>2, <2>3
<1>14. ASSUME NEW c \in Consumers, Mark(c) PROVE Accounted(k)'
  BY <1>13, <1>14 DEF Mark, Goto, histVars, TypeOK
<1>15. ASSUME NEW c \in Consumers, Crash(c) PROVE Accounted(k)'
  <2>1. /\ stream' = stream /\ pc'[c] = "down" /\ runs' = runs /\ processed' = processed
        /\ \A d \in Consumers \ {c} : pc'[d] = pc[d] /\ cur'[d] = cur[d]
    BY <1>15 DEF Crash, Goto, redisVars, histVars, TypeOK
  <2>0. crashes' + faults' >= crashes + faults + 1
    <3>1. crashes' = crashes + 1 /\ faults' = faults
      BY <1>15 DEF Crash
    <3> QED
      BY <1>4, <3>1
  <2>2. H' \subseteq H /\ M \ {c} \subseteq M'
    BY <1>9, <2>1 DEF AtKey, At
  <2> QED
    BY <1>6, <2>0, <2>1, <2>2
<1>16. ASSUME NEW c \in Consumers, Fail(c) PROVE Accounted(k)'
  <2>1. /\ stream' = stream /\ cur' = cur /\ runs' = runs
        /\ \A d \in Consumers \ {c} : pc'[d] = pc[d] /\ cur'[d] = cur[d]
    BY <1>16 DEF Fail, Goto, TypeOK
  <2>0. crashes' + faults' >= crashes + faults + 1
    <3>1. faults' = faults + 1 /\ crashes' = crashes
      BY <1>16 DEF Fail
    <3> QED
      BY <1>4, <3>1
  <2>2. pc'[c] # "handle"
    BY <1>16 DEF Fail, Idle, Goto, At, TypeOK
  <2>3. \/ At(c, "mark") /\ SetProcessed(c)
        \/ processed' = processed
    BY <1>16 DEF Fail
  <2>4. H' \subseteq H /\ M \ {c} \subseteq M'
    BY <1>9, <2>1, <2>2 DEF AtKey, At
  <2> QED
    BY <1>6, <1>13, <2>0, <2>1, <2>2, <2>3, <2>4
<1>17. ASSUME NEW c \in Consumers, Read(c) \/ Stop(c) PROVE Accounted(k)'
  BY <1>8, <1>17 DEF Read, Stop, redisVars, histVars
<1>18. CASE Publish \/ (\E i \in pending : GoStale(i)) \/ UNCHANGED vars
  BY <1>8, <1>18 DEF Publish, GoStale, vars, redisVars, procVars, histVars
<1> QED
  BY <1>10, <1>11, <1>12, <1>14, <1>15, <1>16, <1>17, <1>18 DEF Next, Loop, Handle

LEMMA InitAccounted == Init => RunsAccounted
<1> SUFFICES ASSUME Init, NEW k \in Keys PROVE Accounted(k)
  BY DEF RunsAccounted
<1> QED
  BY AtKeyCount DEF Init, Accounted

LEMMA AccountedBound == TypeOK /\ RunsAccounted => OverlapBound
<1> SUFFICES ASSUME TypeOK, NEW k \in Keys, Accounted(k)
             PROVE  runs[k] <= Cardinality(Consumers) + crashes + faults
  BY DEF RunsAccounted, OverlapBound
<1> QED
  BY AtKeyCount DEF Accounted, TypeOK

(* EventConsumer's check, handle, mark sequence is not atomic, yet a key is  *)
(* handled successfully at most once per consumer, plus once for every crash *)
(* or failed Redis command.                                                  *)
THEOREM OverlapBounded == Spec => []OverlapBound
<1>1. TypeOK /\ InHand /\ RunsAccounted /\ [Next]_vars => RunsAccounted'
  BY StepAccounted
<1> QED
  BY <1>1, InitAccounted, AccountedBound, TypeCorrect, PTL DEF Spec
=============================================================================
