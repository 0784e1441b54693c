------------------------ MODULE ContextPipelineProofs ------------------------
(* Theorems about ContextPipeline, for every set of rooms and every bound.   *)
EXTENDS ContextPipeline, SequenceTheorems, FiniteSetTheorems, TLAPS

\* Keeping the last n entries of a sequence drops some number k of entries at
\* its front and no other (the slices [-n:] of the Python code).
LEMMA LastNDropsFront ==
    ASSUME NEW S, NEW seq \in Seq(S), NEW n \in Nat
    PROVE  /\ LastN(seq, n) \in Seq(S)
           /\ \E k \in Nat :
                 /\ Len(seq) = Len(LastN(seq, n)) + k
                 /\ \A i \in 1..Len(LastN(seq, n)) : LastN(seq, n)[i] = seq[i + k]
<1>1. CASE Len(seq) <= n
  <2>1. LastN(seq, n) = seq
    BY <1>1 DEF LastN
  <2>2. \A i \in 1..Len(seq) : seq[i] = seq[i + 0]
    OBVIOUS
  <2> QED
    BY <2>1, <2>2
<1>2. CASE ~(Len(seq) <= n)
  <2> DEFINE k == Len(seq) - n
             last == SubSeq(seq, k + 1, Len(seq))
  <2>1. k \in Nat /\ Len(seq) \in Nat /\ \A i \in (k + 1)..Len(seq) : seq[i] \in S
    BY <1>2
  <2>2. /\ last \in Seq(S)
        /\ Len(last) = IF k + 1 <= Len(seq) THEN Len(seq) - (k + 1) + 1 ELSE 0
        /\ \A i \in 1..(Len(seq) - (k + 1) + 1) : last[i] = seq[k + 1 + i - 1]
    <3> HIDE DEF k
    <3> QED BY <2>1, SubSeqProperties
  <2>3. LastN(seq, n) = last
    BY <1>2 DEF LastN
  <2>4. Len(last) = n /\ Len(seq) = Len(last) + k
    BY <2>1, <2>2
  <2>5. \A i \in 1..n : last[i] = seq[i + k]
    BY <2>1, <2>2
  <2> HIDE DEF k, last
  <2> QED
    BY <2>1, <2>2, <2>3, <2>4, <2>5
<1> QED
  BY <1>1, <1>2

\* Appending and truncating adds the new entry only, and keeps the order if
\* the new entry is above all the others.
LEMMA RememberAdds ==
    ASSUME NEW seq \in Seq(Positions), NEW x \in Positions, NEW n \in Nat
    PROVE  /\ Remember(seq, x, n) \in Seq(Positions)
           /\ \A i \in 1..Len(Remember(seq, x, n)) :
                 \/ Remember(seq, x, n)[i] = x
                 \/ \E j \in 1..Len(seq) : Remember(seq, x, n)[i] = seq[j]
           /\ (StrictlyIncreasing(seq) /\ \A i \in 1..Len(seq) : seq[i] < x)
                 => StrictlyIncreasing(Remember(seq, x, n))
<1> DEFINE app == Append(seq, x)
           last == LastN(app, n)
<1>1. /\ app \in Seq(Positions)
      /\ Len(seq) \in Nat
      /\ Len(app) = Len(seq) + 1
      /\ app[Len(seq) + 1] = x
      /\ \A j \in 1..Len(seq) : app[j] = seq[j] /\ seq[j] \in Nat
  BY DEF Positions
<1> HIDE DEF app
<1>2. /\ last \in Seq(Positions)
      /\ \E k \in Nat : /\ Len(app) = Len(last) + k
                        /\ \A i \in 1..Len(last) : last[i] = app[i + k]
  <2>1. app \in Seq(Positions)
    BY <1>1
  <2> QED
    BY <2>1, LastNDropsFront
<1>3. PICK k \in Nat : /\ Len(app) = Len(last) + k
                       /\ \A i \in 1..Len(last) : last[i] = app[i + k]
  BY <1>2
<1>4. Remember(seq, x, n) = last
  BY DEF Remember, app
<1> HIDE DEF last
<1>5. Len(last) \in Nat /\ \A i \in 1..Len(last) : i + k \in 1..(Len(seq) + 1)
  BY <1>1, <1>2, <1>3
<1>6. ASSUME NEW i \in 1..Len(last)
      PROVE  last[i] = x \/ \E j \in 1..Len(seq) : last[i] = seq[j]
  <2>1. CASE i + k = Len(seq) + 1
    BY <1>1, <1>3, <2>1
  <2>2. CASE i + k \in 1..Len(seq)
    BY <1>1, <1>3, <2>2
  <2> QED
    BY <1>1, <1>5, <2>1, <2>2
<1>7. ASSUME StrictlyIncreasing(seq), \A i \in 1..Len(seq) : seq[i] < x
      PROVE  StrictlyIncreasing(last)
  <2>1. ASSUME NEW i \in 1..(Len(seq) + 1), NEW j \in 1..(Len(seq) + 1), i < j
        PROVE  app[i] < app[j]
    <3>1. i \in 1..Len(seq) /\ app[i] = seq[i]
      BY <1>1, <2>1
    <3>2. CASE j = Len(seq) + 1
      BY <1>1, <1>7, <3>1, <3>2
    <3>3. CASE j \in 1..Len(seq)
      BY <1>1, <1>7, <2>1, <3>1, <3>3 DEF StrictlyIncreasing
    <3> QED
      BY <1>1, <3>2, <3>3
  <2>2. ASSUME NEW i \in 1..Len(last), NEW j \in 1..Len(last), i < j
        PROVE  last[i] < last[j]
    <3>1. last[i] = app[i + k] /\ last[j] = app[j + k]
      BY <1>3
    <3>2. i + k \in 1..(Len(seq) + 1) /\ j + k \in 1..(Len(seq) + 1)
      BY <1>5
    <3>3. i + k < j + k
      BY <1>5, <2>2
    <3> QED
      BY <2>1, <3>1, <3>2, <3>3
  <2> QED
    BY <2>2 DEF StrictlyIncreasing
<1> QED
  BY <1>2, <1>4, <1>6, <1>7

-----------------------------------------------------------------------------
\* How the topics and the services of the system relate.
LEMMA TopicFacts ==
    /\ Inputs \subseteq Topics
    /\ Outputs \subseteq Topics
    /\ Recorded \subseteq Topics
    /\ \A s \in Services : Subscribed[s] \subseteq Topics
    /\ Inputs \cap Outputs = {}
    /\ None \notin Recorded
BY DEF Inputs, Outputs, Recorded, Topics, Services, Subscribed, None

\* The message polled is one of the log.
LEMMA PolledType ==
    ASSUME Types, NEW s \in Services, NEW t \in Topics,
           done[s][t] < Len(log[t])
    PROVE  /\ Polled(s, t) \in Message
           /\ done[s][t] + 1 \in 1..Len(log[t])
           /\ Polled(s, t).room \in Rooms
           /\ Polled(s, t).src \in Positions
<1>1. log[t] \in Seq(Message) /\ done[s][t] \in Nat
  BY DEF Types
<1>2. done[s][t] + 1 \in 1..Len(log[t])
  BY <1>1
<1>3. Polled(s, t) \in Message
  BY <1>1, <1>2 DEF Polled
<1> QED
  BY <1>2, <1>3 DEF Message

\* A history limit is a natural number, the doubled one of the speech too.
LEMMA LimitType == ASSUME NEW t PROVE Limit(t) \in Nat
BY BoundsAssumption DEF Limit

\* The context of a room nothing was recorded for is a context.
LEMMA EmptyContextType == EmptyContext \in Context
BY DEF EmptyContext, Context

\* What a GET, a SET and a produce do to the types.
LEMMA LoadType ==
    ASSUME Types, NEW s \in Services, NEW room \in Rooms, Load(s, room)
    PROVE  mem' \in [Services -> Context] /\ redisFaults' \in Nat
<1>1. CASE mem' = [mem EXCEPT ![s] = ctx[room]] /\ UNCHANGED redisFaults
  BY <1>1 DEF Types
<1>2. CASE mem' = [mem EXCEPT ![s] = EmptyContext] /\ redisFaults' = redisFaults + 1
  BY <1>2, EmptyContextType DEF Types
<1> QED
  BY <1>1, <1>2 DEF Load

\* A SET, failed or not, leaves a context for every room.
LEMMA SaveType ==
    ASSUME Types, NEW room \in Rooms, NEW c \in Context, Save(room, c)
    PROVE  ctx' \in [Rooms -> Context] /\ redisFaults' \in Nat
<1>1. CASE ctx' = [ctx EXCEPT ![room] = c] /\ UNCHANGED redisFaults
  BY <1>1 DEF Types
<1>2. CASE UNCHANGED ctx /\ redisFaults' = redisFaults + 1
  BY <1>2 DEF Types
<1> QED
  BY <1>1, <1>2 DEF Save

\* A produced message joins a well-formed queue.
LEMMA ProduceType ==
    ASSUME Types, NEW t \in Outputs, NEW m \in Message, Produce(t, m)
    PROVE  outbox' \in [Outputs -> Seq(Message)]
BY DEF Produce, Types

\* Recording an entry in one field of a context gives a context.
LEMMA RecordType ==
    ASSUME NEW c \in Context, NEW t \in Recorded, NEW x \in Positions, NEW n \in Nat
    PROVE  [c EXCEPT ![t] = Remember(@, x, n)] \in Context
BY RememberAdds DEF Context

-----------------------------------------------------------------------------
(* Type correctness *)

\* Empty topics, queues and contexts are well-formed.
LEMMA InitType == Init => TypeOK
<1> SUFFICES ASSUME Init PROVE TypeOK
  OBVIOUS
<1>1. Types
  BY EmptyContextType DEF Init, Types
<1>2. OffsetsOrdered
  BY DEF Init, OffsetsOrdered
<1>3. HandlesNextMessage
  BY DEF Init, HandlesNextMessage
<1>4. InputsNumbered
  BY TopicFacts DEF Init, InputsNumbered
<1> QED
  BY <1>1, <1>2, <1>3, <1>4 DEF TypeOK

\* Appending a message to one topic keeps every offset within its topic.
LEMMA AppendKeepsType ==
    ASSUME TypeOK, NEW t \in Topics, NEW m \in Message,
           log' = [log EXCEPT ![t] = Append(@, m)],
           t \in Inputs => m.src = Len(log[t]) + 1,
           outbox' \in [Outputs -> Seq(Message)],
           sendFaults' \in Nat,
           UNCHANGED <<ctx, mem, cur, done, committed, crashes, redisFaults>>
    PROVE  TypeOK'
<1>1. Types'
  BY DEF TypeOK, Types
<1>2. \A u \in Topics :
         /\ Len(log[u]) \in Nat
         /\ Len(log'[u]) = IF u = t THEN Len(log[u]) + 1 ELSE Len(log[u])
         /\ \A i \in 1..Len(log[u]) : log'[u][i] = log[u][i]
  BY DEF TypeOK, Types
<1>3. OffsetsOrdered'
  BY <1>2 DEF TypeOK, Types, OffsetsOrdered
<1>4. HandlesNextMessage'
  <2> SUFFICES ASSUME NEW s \in Services, cur[s] # None
               PROVE  cur[s] \in Subscribed[s] /\ done[s][cur[s]] < Len(log'[cur[s]])
    BY DEF HandlesNextMessage
  <2>1. cur[s] \in Subscribed[s] /\ done[s][cur[s]] < Len(log[cur[s]]) /\ cur[s] \in Topics
    BY TopicFacts DEF TypeOK, HandlesNextMessage
  <2>2. done[s][cur[s]] \in Nat
    BY <2>1 DEF TypeOK, Types
  <2> QED
    BY <1>2, <2>1, <2>2
<1>5. InputsNumbered'
  <2> SUFFICES ASSUME NEW u \in Inputs, NEW i \in 1..Len(log'[u])
               PROVE  log'[u][i].src = i
    BY DEF InputsNumbered
  <2>1. u \in Topics /\ log[u] \in Seq(Message)
    BY TopicFacts DEF TypeOK, Types
  <2>2. CASE i \in 1..Len(log[u])
    BY <1>2, <2>1, <2>2 DEF TypeOK, InputsNumbered
  <2>3. CASE ~(i \in 1..Len(log[u]))
    <3>1. u = t /\ i = Len(log[u]) + 1
      BY <1>2, <2>1, <2>3
    <3>2. log'[u][i] = m
      BY <2>1, <3>1 DEF TypeOK, Types
    <3> QED
      BY <3>1, <3>2
  <2> QED
    BY <2>2, <2>3
<1> QED
  BY <1>1, <1>3, <1>4, <1>5 DEF TypeOK

\* Moving past a handled message keeps the offsets ordered.
LEMMA HandledKeepsOffsets ==
    ASSUME TypeOK, NEW s \in Services, NEW t \in Topics,
           done[s][t] < Len(log[t]), Handled(s, t),
           cur' = [cur EXCEPT ![s] = None],
           UNCHANGED <<log, committed>>
    PROVE  /\ done' \in [Services -> [Topics -> Nat]]
           /\ OffsetsOrdered' /\ HandlesNextMessage' /\ InputsNumbered'
<1>1. done' \in [Services -> [Topics -> Nat]]
  BY DEF TypeOK, Types, Handled
<1>2. \A p \in Services, u \in Topics :
         done'[p][u] = IF p = s /\ u = t THEN done[p][u] + 1 ELSE done[p][u]
  BY DEF TypeOK, Types, Handled
<1>3. OffsetsOrdered'
  BY <1>2 DEF TypeOK, Types, OffsetsOrdered
<1>4. HandlesNextMessage'
  <2> SUFFICES ASSUME NEW p \in Services, cur'[p] # None
               PROVE  cur'[p] \in Subscribed[p] /\ done'[p][cur'[p]] < Len(log[cur'[p]])
    BY DEF HandlesNextMessage
  <2>1. p # s /\ cur'[p] = cur[p]
    BY DEF TypeOK, Types
  <2>2. cur[p] \in Subscribed[p] /\ done[p][cur[p]] < Len(log[cur[p]]) /\ cur[p] \in Topics
    BY <2>1, TopicFacts DEF TypeOK, HandlesNextMessage
  <2> QED
    BY <1>2, <2>1, <2>2
<1>5. InputsNumbered'
  BY DEF TypeOK, InputsNumbered
<1> QED
  BY <1>1, <1>3, <1>4, <1>5

\* Every step keeps the types and the order of the offsets.
LEMMA TypeStep == TypeOK /\ [Next]_vars => TypeOK'
<1> SUFFICES ASSUME TypeOK, [Next]_vars
             PROVE  TypeOK'
  OBVIOUS
<1>0. Types
  BY DEF TypeOK
<1>1. ASSUME NEW t \in Inputs, NEW r \in Rooms, Publish(t, r)
      PROVE  TypeOK'
  <2>1. t \in Topics /\ Len(log[t]) + 1 \in Positions
    BY <1>0, TopicFacts DEF Types, Positions
  <2>2. [room |-> r, src |-> Len(log[t]) + 1] \in Message
    BY <2>1 DEF Message
  <2>3. outbox' \in [Outputs -> Seq(Message)] /\ sendFaults' \in Nat
    BY <1>0, <1>1 DEF Publish, Types
  <2> QED
    BY <1>1, <2>1, <2>2, <2>3, AppendKeepsType DEF Publish
<1>2. ASSUME NEW t \in Recorded, MLinLoad(t)
      PROVE  TypeOK'
  <2>1. /\ CanPoll("MLin", t)
        /\ Load("MLin", Polled("MLin", t).room)
        /\ cur' = [cur EXCEPT !["MLin"] = t]
        /\ UNCHANGED <<log, ctx, done, committed, crashes, sendFaults>>
    BY <1>2 DEF MLinLoad
  <2>2. /\ "MLin" \in Services /\ t \in Topics /\ t \in Subscribed["MLin"]
        /\ done["MLin"][t] < Len(log[t])
    BY <2>1, TopicFacts DEF CanPoll, Services
  <2>3. Polled("MLin", t) \in Message /\ Polled("MLin", t).room \in Rooms
    BY <1>0, <2>2, PolledType
  <2>4. mem' \in [Services -> Context] /\ redisFaults' \in Nat
    BY <1>0, <2>1, <2>2, <2>3, LoadType
  <2>5. outbox' \in [Outputs -> Seq(Message)]
    <3>1. CASE t = "voice"
      BY <1>0, <1>2, <2>3, <3>1, ProduceType DEF MLinLoad, Outputs
    <3>2. CASE t # "voice"
      BY <1>0, <1>2, <3>2 DEF MLinLoad, Types
    <3> QED
      BY <3>1, <3>2
  <2>6. Types'
    BY <1>0, <2>1, <2>2, <2>4, <2>5 DEF Types
  <2>7. HandlesNextMessage'
    BY <1>0, <2>1, <2>2 DEF TypeOK, Types, HandlesNextMessage
  <2> QED
    BY <2>1, <2>6, <2>7 DEF TypeOK, OffsetsOrdered, InputsNumbered
<1>3. ASSUME NEW t \in Recorded, MLinSave(t)
      PROVE  TypeOK'
  <2> DEFINE m == Polled("MLin", t)
             c == [mem["MLin"] EXCEPT ![t] = Remember(@, m.src, Limit(t))]
  <2>1. /\ t = cur["MLin"]
        /\ Save(m.room, c)
        /\ cur' = [cur EXCEPT !["MLin"] = None]
        /\ mem' = [mem EXCEPT !["MLin"] = EmptyContext]
        /\ Handled("MLin", t)
        /\ UNCHANGED <<log, outbox, committed, crashes, sendFaults>>
    BY <1>3 DEF MLinSave
  <2>2. "MLin" \in Services /\ t \in Topics /\ done["MLin"][t] < Len(log[t])
    BY <2>1, TopicFacts DEF TypeOK, HandlesNextMessage, Services
  <2>3. m.room \in Rooms /\ m.src \in Positions
    BY <1>0, <2>2, PolledType
  <2>4. mem["MLin"] \in Context
    BY <1>0, <2>2 DEF Types
  <2>5. c \in Context
    BY <2>3, <2>4, RecordType, LimitType
  <2>6. ctx' \in [Rooms -> Context] /\ redisFaults' \in Nat
    BY <1>0, <2>1, <2>3, <2>5, SaveType
  <2>7. /\ done' \in [Services -> [Topics -> Nat]]
        /\ OffsetsOrdered' /\ HandlesNextMessage' /\ InputsNumbered'
    BY <2>1, <2>2, HandledKeepsOffsets
  <2>8. Types'
    BY <1>0, <2>1, <2>2, <2>6, <2>7, EmptyContextType DEF Types
  <2> QED
    BY <2>7, <2>8 DEF TypeOK
<1>4. ASSUME MLinSkipFile
      PROVE  TypeOK'
  <2>1. /\ CanPoll("MLin", "file")
        /\ Handled("MLin", "file")
        /\ UNCHANGED <<log, outbox, ctx, mem, cur, committed,
                       crashes, redisFaults, sendFaults>>
    BY <1>4 DEF MLinSkipFile
  <2>2. /\ "MLin" \in Services /\ "file" \in Topics
        /\ done["MLin"]["file"] < Len(log["file"]) /\ cur["MLin"] = None
    BY <2>1 DEF CanPoll, Services, Topics, Inputs
  <2>3. cur' = [cur EXCEPT !["MLin"] = None]
    BY <1>0, <2>1, <2>2 DEF Types
  <2>4. /\ done' \in [Services -> [Topics -> Nat]]
        /\ OffsetsOrdered' /\ HandlesNextMessage' /\ InputsNumbered'
    BY <2>1, <2>2, <2>3, HandledKeepsOffsets
  <2>5. Types'
    BY <1>0, <2>1, <2>4 DEF Types
  <2> QED
    BY <2>4, <2>5 DEF TypeOK
<1>5. ASSUME MLoutAnswer
      PROVE  TypeOK'
  <2>1. /\ CanPoll("MLout", "aiReq")
        /\ Produce("aiResp", Polled("MLout", "aiReq"))
        /\ Load("MLout", Polled("MLout", "aiReq").room)
        /\ cur' = [cur EXCEPT !["MLout"] = "aiReq"]
        /\ UNCHANGED <<log, ctx, done, committed, crashes, sendFaults>>
    BY <1>5 DEF MLoutAnswer
  <2>2. /\ "MLout" \in Services /\ "aiReq" \in Topics /\ "aiReq" \in Recorded
        /\ "aiReq" \in Subscribed["MLout"] /\ "aiResp" \in Outputs
        /\ done["MLout"]["aiReq"] < Len(log["aiReq"])
    BY <2>1 DEF CanPoll, Services, Topics, Inputs, Outputs, Recorded
  <2>3. Polled("MLout", "aiReq") \in Message /\ Polled("MLout", "aiReq").room \in Rooms
    BY <1>0, <2>2, PolledType
  <2>4. mem' \in [Services -> Context] /\ redisFaults' \in Nat
    BY <1>0, <2>1, <2>2, <2>3, LoadType
  <2>5. outbox' \in [Outputs -> Seq(Message)]
    BY <1>0, <2>1, <2>2, <2>3, ProduceType
  <2>6. Types'
    BY <1>0, <2>1, <2>2, <2>4, <2>5 DEF Types
  <2>7. HandlesNextMessage'
    BY <1>0, <2>1, <2>2 DEF TypeOK, Types, HandlesNextMessage
  <2> QED
    BY <2>1, <2>6, <2>7 DEF TypeOK, OffsetsOrdered, InputsNumbered
<1>6. ASSUME MLoutSave
      PROVE  TypeOK'
  <2> DEFINE m == Polled("MLout", "aiReq")
             c == [mem["MLout"] EXCEPT !["aiReq"]  = Remember(@, m.src, MaxDialogue),
                                       !["aiResp"] = Remember(@, m.src, MaxDialogue)]
  <2>1. /\ cur["MLout"] = "aiReq"
        /\ Save(m.room, c)
        /\ cur' = [cur EXCEPT !["MLout"] = None]
        /\ mem' = [mem EXCEPT !["MLout"] = EmptyContext]
        /\ Handled("MLout", "aiReq")
        /\ UNCHANGED <<log, outbox, committed, crashes, sendFaults>>
    BY <1>6 DEF MLoutSave
  <2>2. /\ "MLout" \in Services /\ "aiReq" \in Topics /\ "aiReq" # None
        /\ "aiReq" \in Recorded /\ "aiResp" \in Recorded
    BY DEF Services, Topics, Inputs, Recorded, None
  <2>3. done["MLout"]["aiReq"] < Len(log["aiReq"])
    BY <2>1, <2>2 DEF TypeOK, HandlesNextMessage
  <2>4. m.room \in Rooms /\ m.src \in Positions
    BY <1>0, <2>2, <2>3, PolledType
  <2>5. mem["MLout"] \in Context
    BY <1>0, <2>2 DEF Types
  <2>6. c \in Context
    <3> DEFINE c1 == [mem["MLout"] EXCEPT !["aiReq"] = Remember(@, m.src, MaxDialogue)]
    <3>1. MaxDialogue \in Nat
      BY BoundsAssumption
    <3>2. c1 \in Context
      BY <2>2, <2>4, <2>5, <3>1, RecordType
    <3>3. [c1 EXCEPT !["aiResp"] = Remember(@, m.src, MaxDialogue)] \in Context
      <4> HIDE DEF c1
      <4> QED BY <2>2, <2>4, <3>1, <3>2, RecordType
    <3> QED
      BY <2>5, <3>3 DEF Context
  <2>7. ctx' \in [Rooms -> Context] /\ redisFaults' \in Nat
    BY <1>0, <2>1, <2>4, <2>6, SaveType
  <2>8. /\ done' \in [Services -> [Topics -> Nat]]
        /\ OffsetsOrdered' /\ HandlesNextMessage' /\ InputsNumbered'
    BY <2>1, <2>2, <2>3, HandledKeepsOffsets
  <2>9. Types'
    BY <1>0, <2>1, <2>2, <2>7, <2>8, EmptyContextType DEF Types
  <2> QED
    BY <2>8, <2>9 DEF TypeOK
<1>7. ASSUME MLoutSummarize
      PROVE  TypeOK'
  <2>1. /\ CanPoll("MLout", "sumReq")
        /\ Produce("sumResp", Polled("MLout", "sumReq"))
        /\ Handled("MLout", "sumReq")
        /\ UNCHANGED <<log, ctx, mem, cur, committed, crashes, redisFaults, sendFaults>>
    BY <1>7 DEF MLoutSummarize
  <2>2. /\ "MLout" \in Services /\ "sumReq" \in Topics /\ "sumResp" \in Outputs
        /\ done["MLout"]["sumReq"] < Len(log["sumReq"]) /\ cur["MLout"] = None
    BY <2>1 DEF CanPoll, Services, Topics, Inputs, Outputs
  <2>3. cur' = [cur EXCEPT !["MLout"] = None]
    BY <1>0, <2>1, <2>2 DEF Types
  <2>4. /\ done' \in [Services -> [Topics -> Nat]]
        /\ OffsetsOrdered' /\ HandlesNextMessage' /\ InputsNumbered'
    BY <2>1, <2>2, <2>3, HandledKeepsOffsets
  <2>5. outbox' \in [Outputs -> Seq(Message)]
    BY <1>0, <2>1, <2>2, PolledType, ProduceType
  <2>6. Types'
    BY <1>0, <2>1, <2>4, <2>5 DEF Types
  <2> QED
    BY <2>4, <2>6 DEF TypeOK
<1>8. ASSUME NEW t \in Outputs, outbox[t] # <<>>,
             log' = [log EXCEPT ![t] = Append(@, Head(outbox[t]))],
             outbox' = [outbox EXCEPT ![t] = Tail(@)] \/ outbox' = outbox,
             sendFaults' \in Nat,
             UNCHANGED <<ctx, mem, cur, done, committed, crashes, redisFaults>>
      PROVE  TypeOK'
  <2>1. t \in Topics /\ t \notin Inputs /\ outbox[t] \in Seq(Message)
    BY <1>0, TopicFacts DEF Types
  <2>2. Head(outbox[t]) \in Message /\ Tail(outbox[t]) \in Seq(Message)
    BY <1>8, <2>1
  <2>3. outbox' \in [Outputs -> Seq(Message)]
    BY <1>0, <1>8, <2>2 DEF Types
  <2> QED
    BY <1>8, <2>1, <2>2, <2>3, AppendKeepsType
<1>9. ASSUME NEW t \in Outputs, LoseProduced(t)
      PROVE  TypeOK'
  <2>1. Tail(outbox[t]) \in Seq(Message)
    BY <1>0, <1>9 DEF LoseProduced, Types
  <2>2. Types'
    BY <1>0, <1>9, <2>1 DEF LoseProduced, Types
  <2> QED
    BY <1>9, <2>2 DEF LoseProduced, TypeOK, OffsetsOrdered, HandlesNextMessage, InputsNumbered
<1>10. ASSUME NEW s \in Services, NEW t \in Topics, CommitArrives(s, t)
       PROVE  TypeOK'
  <2>1. \A p \in Services, u \in Topics :
           committed'[p][u] = IF p = s /\ u = t THEN committed[p][u] + 1 ELSE committed[p][u]
    BY <1>0, <1>10 DEF CommitArrives, Types
  <2>2. OffsetsOrdered'
    BY <1>0, <1>10, <2>1 DEF CommitArrives, TypeOK, Types, OffsetsOrdered
  <2>3. Types'
    BY <1>0, <1>10 DEF CommitArrives, Types
  <2> QED
    BY <1>10, <2>2, <2>3 DEF CommitArrives, TypeOK, HandlesNextMessage, InputsNumbered
<1>11. ASSUME NEW s \in Services, Crash(s)
       PROVE  TypeOK'
  <2>1. outbox' \in [Outputs -> Seq(Message)]
    BY <1>0, <1>11 DEF Crash, Types
  <2>2. Types'
    BY <1>0, <1>11, <2>1, EmptyContextType DEF Crash, Types
  <2>3. \A p \in Services, u \in Topics :
           done'[p][u] = IF p = s THEN committed[p][u] ELSE done[p][u]
    BY <1>0, <1>11 DEF Crash, Types
  <2>4. OffsetsOrdered'
    BY <1>0, <1>11, <2>3 DEF Crash, TypeOK, Types, OffsetsOrdered
  <2>5. HandlesNextMessage'
    BY <1>0, <1>11 DEF Crash, TypeOK, Types, HandlesNextMessage
  <2> QED
    BY <1>11, <2>2, <2>4, <2>5 DEF Crash, TypeOK, InputsNumbered
<1>12. CASE UNCHANGED vars
  BY <1>12 DEF vars, TypeOK, Types, OffsetsOrdered, HandlesNextMessage, InputsNumbered
<1>13. ASSUME NEW t \in Outputs, Deliver(t)
       PROVE  TypeOK'
  BY <1>0, <1>8, <1>13 DEF Deliver, Types
<1>14. ASSUME NEW t \in Outputs, DeliverUnacknowledged(t)
       PROVE  TypeOK'
  <2>1. sendFaults' \in Nat
    BY <1>0, <1>14 DEF DeliverUnacknowledged, Types
  <2> QED
    BY <1>8, <1>14, <2>1 DEF DeliverUnacknowledged
<1> QED
  BY <1>1, <1>2, <1>3, <1>4, <1>5, <1>6, <1>7, <1>9, <1>10, <1>11, <1>12, <1>13, <1>14
     DEF Next

\* The model's state always has its types, and offsets are ordered committed
\* <= handled <= written, whatever is lost, resent or redelivered.
THEOREM TypeCorrect == Spec => []TypeOK
<1>1. Init => TypeOK
  BY InitType
<1>2. TypeOK /\ [Next]_vars => TypeOK'
  BY TypeStep
<1> QED
  BY <1>1, <1>2, PTL DEF Spec

-----------------------------------------------------------------------------
(* The services implement RequestReply *)

\* Appending adds one element to the elements of a sequence.
LEMMA AppendToSet ==
    ASSUME NEW S, NEW seq \in Seq(S), NEW x \in S
    PROVE  ToSet(Append(seq, x)) = ToSet(seq) \cup {x}
<1>1. /\ Len(Append(seq, x)) = Len(seq) + 1
      /\ Append(seq, x)[Len(seq) + 1] = x
      /\ \A i \in 1..Len(seq) : Append(seq, x)[i] = seq[i]
      /\ Len(seq) \in Nat
      /\ DOMAIN Append(seq, x) = 1..(Len(seq) + 1)
      /\ DOMAIN seq = 1..Len(seq)
  OBVIOUS
<1> QED
  BY <1>1 DEF ToSet

\* A sequence holds its first member and those of the rest.
LEMMA HeadAndTail ==
    ASSUME NEW S, NEW seq \in Seq(S), seq # <<>>
    PROVE  Head(seq) \in S /\ ToSet(seq) = {Head(seq)} \cup ToSet(Tail(seq))
<1>1. /\ Len(seq) \in Nat \ {0} /\ Head(seq) = seq[1] /\ seq[1] \in S
      /\ DOMAIN seq = 1..Len(seq) /\ DOMAIN Tail(seq) = 1..(Len(seq) - 1)
      /\ \A i \in 1..(Len(seq) - 1) : Tail(seq)[i] = seq[i + 1]
  BY HeadTailProperties
<1>2. \A i \in 2..Len(seq) : i - 1 \in 1..(Len(seq) - 1) /\ seq[i] = Tail(seq)[i - 1]
  BY <1>1
<1>3. \A i \in 1..Len(seq) : i = 1 \/ i \in 2..Len(seq)
  BY <1>1
<1>4. \A i \in 1..(Len(seq) - 1) : i + 1 \in 1..Len(seq)
  BY <1>1
<1>5. 1 \in 1..Len(seq)
  BY <1>1
<1>6. ToSet(seq) = {seq[i] : i \in 1..Len(seq)} /\ ToSet(Tail(seq)) = {Tail(seq)[i] : i \in 1..(Len(seq) - 1)}
  BY <1>1 DEF ToSet
<1>7. ToSet(seq) \subseteq {seq[1]} \cup ToSet(Tail(seq))
  BY <1>2, <1>3, <1>6
<1>8. {seq[1]} \cup ToSet(Tail(seq)) \subseteq ToSet(seq)
  BY <1>1, <1>4, <1>5, <1>6
<1> QED
  BY <1>1, <1>7, <1>8

\* Service s replies to the messages of topic t on topic q.
IsEcho(s, t, q) ==
    \/ s = "MLout" /\ t = "aiReq" /\ q = "aiResp"
    \/ s = "MLout" /\ t = "sumReq" /\ q = "sumResp"
    \/ s = "MLin" /\ t = "voice" /\ q = "transcript"

\* The messages of t the service has replied to, or moved past.
Begun(s, t) == IF cur[s] = t THEN done[s][t] + 1 ELSE done[s][t]

\* What the three pairs of a topic and its replies have in common.
LEMMA EchoFacts ==
    ASSUME NEW s, NEW t, NEW q, IsEcho(s, t, q)
    PROVE  /\ s \in Services /\ t \in Topics /\ t \in Inputs /\ q \in Topics /\ q \in Outputs
           /\ t # q /\ q \in Produced[s] /\ \A p \in Services : q \in Produced[p] => p = s
           /\ t # None
BY DEF IsEcho, Services, Topics, Inputs, Outputs, Produced, None

\* What is begun is handled or is the message after it, and it was published.
LEMMA BegunType ==
    ASSUME TypeOK, NEW s \in Services, NEW t \in Topics
    PROVE  /\ Begun(s, t) \in Nat /\ done[s][t] \in Nat /\ Len(log[t]) \in Nat
           /\ done[s][t] <= Begun(s, t) /\ Begun(s, t) <= Len(log[t])
<1>1. done[s][t] \in Nat /\ done[s][t] <= Len(log[t]) /\ log[t] \in Seq(Message)
  BY DEF TypeOK, Types, OffsetsOrdered
<1>2. ASSUME cur[s] = t, t # None PROVE done[s][t] < Len(log[t])
  BY <1>2 DEF TypeOK, HandlesNextMessage
<1>3. t # None
  BY DEF Topics, Inputs, Outputs, None
<1> QED
  BY <1>1, <1>2, <1>3 DEF Begun

\* What a step can mean for a topic t, its replies q and the service s between:
\* a message joins t;
Comes(s, t, q) ==
    /\ \E m \in Message : m.src = Len(log[t]) + 1 /\ log'[t] = Append(log[t], m)
    /\ log'[q] = log[q] /\ outbox'[q] = outbox[q]
    /\ Begun(s, t)' = Begun(s, t)
    /\ crashes'[s] = crashes[s] /\ sendFaults' = sendFaults

\* the next message is replied to;
Replies(s, t, q) ==
    /\ log'[t] = log[t] /\ log'[q] = log[q]
    /\ Begun(s, t) < Len(log[t])
    /\ outbox'[q] = Append(outbox[q], log[t][Begun(s, t) + 1])
    /\ Begun(s, t)' = Begun(s, t) + 1
    /\ crashes'[s] = crashes[s] /\ sendFaults' = sendFaults

\* the broker accepts a reply, which leaves the queue or is sent again, or the
\* client loses it;
Sends(s, t, q) ==
    /\ outbox[q] # <<>> /\ log'[t] = log[t]
    /\ Begun(s, t)' = Begun(s, t) /\ crashes'[s] = crashes[s]
    /\ \/ /\ log'[q] = Append(log[q], Head(outbox[q]))
          /\ outbox'[q] = Tail(outbox[q]) /\ sendFaults' = sendFaults
       \/ /\ log'[q] = Append(log[q], Head(outbox[q]))
          /\ outbox'[q] = outbox[q] /\ sendFaults' = sendFaults + 1
       \/ /\ log'[q] = log[q]
          /\ outbox'[q] = Tail(outbox[q]) /\ sendFaults' = sendFaults + 1

\* the service restarts;
Restarts(s, t, q) ==
    /\ log'[t] = log[t] /\ log'[q] = log[q] /\ outbox'[q] = <<>>
    /\ Begun(s, t)' <= Begun(s, t)
    /\ crashes'[s] = crashes[s] + 1 /\ sendFaults' = sendFaults

\* or nothing, but that something may fail elsewhere.
Rests(s, t, q) ==
    /\ log'[t] = log[t] /\ log'[q] = log[q] /\ outbox'[q] = outbox[q]
    /\ Begun(s, t)' = Begun(s, t)
    /\ crashes'[s] = crashes[s] /\ sendFaults' \in Nat /\ sendFaults <= sendFaults'

Moves(s, t, q) ==
    Comes(s, t, q) \/ Replies(s, t, q) \/ Sends(s, t, q) \/ Restarts(s, t, q) \/ Rests(s, t, q)

\* Every step is one of these.
LEMMA EchoMoves ==
    ASSUME TypeOK, Next, NEW s, NEW t, NEW q, IsEcho(s, t, q)
    PROVE  Moves(s, t, q)
<1>0. /\ log \in [Topics -> Seq(Message)] /\ outbox \in [Outputs -> Seq(Message)]
      /\ mem \in [Services -> Context] /\ cur \in [Services -> Recorded \cup {None}]
      /\ done \in [Services -> [Topics -> Nat]] /\ crashes \in [Services -> Nat]
      /\ sendFaults \in Nat /\ "MLin" \in Services /\ "MLout" \in Services
  BY DEF TypeOK, Types, Services
<1> DEFINE Same == /\ log'[t] = log[t] /\ log'[q] = log[q] /\ outbox'[q] = outbox[q]
                   /\ crashes'[s] = crashes[s] /\ sendFaults' = sendFaults
<1>1. ASSUME Same, cur'[s] = cur[s] \/ (cur[s] # t /\ cur'[s] # t), done'[s][t] = done[s][t]
      PROVE  Rests(s, t, q)
  BY <1>0, <1>1 DEF Rests, Begun
<1>2. ASSUME NEW u \in Inputs, NEW r \in Rooms, Publish(u, r)
      PROVE  Moves(s, t, q)
  <2>1. /\ log' = [log EXCEPT ![u] = Append(log[u], [room |-> r, src |-> Len(log[u]) + 1])]
        /\ UNCHANGED <<outbox, cur, done, crashes, sendFaults>>
    BY <1>2 DEF Publish
  <2>2. log'[q] = log[q]
    BY <1>0, <2>1, EchoFacts, TopicFacts
  <2>3. CASE u = t
    <3>1. Len(log[t]) + 1 \in Positions
      BY <1>0, EchoFacts DEF Positions
    <3>2. [room |-> r, src |-> Len(log[t]) + 1] \in Message
      BY <3>1 DEF Message
    <3>3. log'[t] = Append(log[t], [room |-> r, src |-> Len(log[t]) + 1])
      BY <1>0, <2>1, <2>3, EchoFacts
    <3>4. \E m \in Message : m.src = Len(log[t]) + 1 /\ log'[t] = Append(log[t], m)
      BY <3>2, <3>3
    <3> QED
      BY <2>1, <2>2, <3>4 DEF Moves, Comes, Begun
  <2>4. CASE u # t
    <3>1. log'[t] = log[t]
      BY <1>0, <2>1, <2>4, EchoFacts, TopicFacts
    <3> QED
      BY <1>1, <2>1, <2>2, <3>1 DEF Moves
  <2> QED
    BY <2>3, <2>4
<1>3. ASSUME NEW u \in Recorded, MLinLoad(u) PROVE Moves(s, t, q)
  <2>1. /\ UNCHANGED <<log, done, crashes, sendFaults>>
        /\ cur["MLin"] = None /\ cur' = [cur EXCEPT !["MLin"] = u]
        /\ done["MLin"][u] < Len(log[u])
    BY <1>3 DEF MLinLoad, CanPoll
  <2>2. CASE s = "MLin" /\ u = "voice"
    <3>1. t = "voice" /\ q = "transcript"
      BY <2>2 DEF IsEcho
    <3>2. outbox'[q] = Append(outbox[q], Polled(s, t))
      BY <1>0, <1>3, <2>2, <3>1, EchoFacts DEF MLinLoad, Produce
    <3>3. cur[s] # t /\ cur'[s] = t
      BY <1>0, <2>1, <2>2, <3>1 DEF None
    <3>4. Begun(s, t) = done[s][t] /\ Begun(s, t)' = done[s][t] + 1
      BY <2>1, <3>3 DEF Begun
    <3> QED
      BY <2>1, <2>2, <3>1, <3>2, <3>4 DEF Moves, Replies, Polled
  <2>3. CASE ~(s = "MLin" /\ u = "voice")
    <3>1. s = "MLin" => t = "voice" /\ u # t
      BY <2>3 DEF IsEcho
    <3>2. outbox'[q] = outbox[q]
      <4>1. CASE u = "voice"
        <5>1. q # "transcript"
          BY <2>3, <4>1 DEF IsEcho
        <5> QED
          BY <1>0, <1>3, <4>1, <5>1, EchoFacts DEF MLinLoad, Produce
      <4>2. CASE u # "voice"
        BY <1>3, <4>2 DEF MLinLoad
      <4> QED
        BY <4>1, <4>2
    <3>3. cur'[s] = cur[s] \/ (cur[s] # t /\ cur'[s] # t)
      BY <1>0, <2>1, <3>1, EchoFacts
    <3> QED
      BY <1>1, <2>1, <3>2, <3>3 DEF Moves
  <2> QED
    BY <2>2, <2>3
<1>4. ASSUME NEW p \in Services, NEW u \in Recorded, cur[p] = u, Handled(p, u),
             cur' = [cur EXCEPT ![p] = None], UNCHANGED <<log, outbox, crashes, sendFaults>>
      PROVE  Moves(s, t, q)
  <2>1. done' = [done EXCEPT ![p][u] = done[p][u] + 1] /\ u \in Topics
    BY <1>4, TopicFacts DEF Handled
  <2>2. CASE p = s /\ u = t
    <3>1. done'[s][t] = done[s][t] + 1 /\ cur'[s] # t /\ cur[s] = t
      BY <1>0, <1>4, <2>1, <2>2, EchoFacts
    <3>2. Begun(s, t)' = Begun(s, t)
      BY <3>1 DEF Begun
    <3> QED
      BY <1>0, <1>4, <3>2 DEF Moves, Rests
  <2>3. CASE ~(p = s /\ u = t)
    <3>1. done'[s][t] = done[s][t]
      BY <1>0, <2>1, <2>3, EchoFacts
    <3>2. cur'[s] = cur[s] \/ (cur[s] # t /\ cur'[s] # t)
      BY <1>0, <1>4, <2>3, EchoFacts
    <3> QED
      BY <1>1, <1>4, <3>1, <3>2 DEF Moves
  <2> QED
    BY <2>2, <2>3
<1>5. ASSUME NEW u \in Recorded, MLinSave(u) PROVE Moves(s, t, q)
  BY <1>0, <1>4, <1>5 DEF MLinSave
<1>6. CASE MLoutSave
  BY <1>0, <1>4, <1>6 DEF MLoutSave, Recorded
<1>7. CASE MLinSkipFile
  <2>1. /\ done' = [done EXCEPT !["MLin"]["file"] = done["MLin"]["file"] + 1]
        /\ UNCHANGED <<log, outbox, cur, crashes, sendFaults>> /\ t # "file"
    BY <1>7 DEF MLinSkipFile, Handled, IsEcho
  <2>2. done'[s][t] = done[s][t]
    BY <1>0, <2>1, EchoFacts
  <2> QED
    BY <1>1, <2>1, <2>2 DEF Moves
<1>8. CASE MLoutAnswer
  <2>1. /\ UNCHANGED <<log, done, crashes, sendFaults>>
        /\ cur["MLout"] = None /\ cur' = [cur EXCEPT !["MLout"] = "aiReq"]
        /\ done["MLout"]["aiReq"] < Len(log["aiReq"])
        /\ outbox' = [outbox EXCEPT !["aiResp"] = Append(outbox["aiResp"], Polled("MLout", "aiReq"))]
    BY <1>8 DEF MLoutAnswer, CanPoll, Produce
  <2>2. CASE t = "aiReq"
    <3>1. s = "MLout" /\ q = "aiResp"
      BY <2>2 DEF IsEcho
    <3>2. outbox'[q] = Append(outbox[q], Polled(s, t))
      BY <1>0, <2>1, <2>2, <3>1, EchoFacts
    <3>3. cur[s] # t /\ cur'[s] = t
      BY <1>0, <2>1, <2>2, <3>1 DEF None
    <3>4. Begun(s, t) = done[s][t] /\ Begun(s, t)' = done[s][t] + 1
      BY <2>1, <3>3 DEF Begun
    <3> QED
      BY <2>1, <2>2, <3>1, <3>2, <3>4 DEF Moves, Replies, Polled
  <2>3. CASE t # "aiReq"
    <3>1. q # "aiResp"
      BY <2>3 DEF IsEcho
    <3>2. outbox'[q] = outbox[q]
      BY <1>0, <2>1, <3>1, EchoFacts
    <3>3. cur'[s] = cur[s] \/ (cur[s] # t /\ cur'[s] # t)
      BY <1>0, <2>1, <2>3, EchoFacts
    <3> QED
      BY <1>1, <2>1, <3>2, <3>3 DEF Moves
  <2> QED
    BY <2>2, <2>3
<1>9. CASE MLoutSummarize
  <2>1. /\ UNCHANGED <<log, cur, crashes, sendFaults>>
        /\ cur["MLout"] = None
        /\ done' = [done EXCEPT !["MLout"]["sumReq"] = done["MLout"]["sumReq"] + 1]
        /\ done["MLout"]["sumReq"] < Len(log["sumReq"])
        /\ outbox' = [outbox EXCEPT !["sumResp"] = Append(outbox["sumResp"], Polled("MLout", "sumReq"))]
    BY <1>9 DEF MLoutSummarize, CanPoll, Produce, Handled
  <2>2. CASE t = "sumReq"
    <3>1. s = "MLout" /\ q = "sumResp"
      BY <2>2 DEF IsEcho
    <3>2. outbox'[q] = Append(outbox[q], Polled(s, t))
      BY <1>0, <2>1, <2>2, <3>1, EchoFacts
    <3>3. cur[s] # t /\ cur'[s] # t
      BY <1>0, <2>1, <2>2, <3>1 DEF None
    <3>4. done'[s][t] = done[s][t] + 1
      BY <1>0, <2>1, <2>2, <3>1, EchoFacts
    <3>5. Begun(s, t) = done[s][t] /\ Begun(s, t)' = done[s][t] + 1
      BY <3>3, <3>4 DEF Begun
    <3> QED
      BY <2>1, <2>2, <3>1, <3>2, <3>5 DEF Moves, Replies, Polled
  <2>3. CASE t # "sumReq"
    <3>1. q # "sumResp"
      BY <2>3 DEF IsEcho
    <3>2. outbox'[q] = outbox[q] /\ done'[s][t] = done[s][t]
      BY <1>0, <2>1, <2>3, <3>1, EchoFacts
    <3> QED
      BY <1>1, <2>1, <3>2 DEF Moves
  <2> QED
    BY <2>2, <2>3
<1>10. ASSUME NEW u \in Outputs, Deliver(u) \/ DeliverUnacknowledged(u) \/ LoseProduced(u)
       PROVE  Moves(s, t, q)
  <2>1. /\ outbox[u] # <<>> /\ UNCHANGED <<cur, done, crashes>>
        /\ \/ log' = [log EXCEPT ![u] = Append(log[u], Head(outbox[u]))]
              /\ outbox' = [outbox EXCEPT ![u] = Tail(outbox[u])] /\ sendFaults' = sendFaults
           \/ log' = [log EXCEPT ![u] = Append(log[u], Head(outbox[u]))]
              /\ outbox' = outbox /\ sendFaults' = sendFaults + 1
           \/ log' = log
              /\ outbox' = [outbox EXCEPT ![u] = Tail(outbox[u])] /\ sendFaults' = sendFaults + 1
    BY <1>10 DEF Deliver, DeliverUnacknowledged, LoseProduced
  <2>2. log'[t] = log[t] /\ Begun(s, t)' = Begun(s, t)
    BY <1>0, <2>1, EchoFacts, TopicFacts DEF Begun
  <2>3. CASE u = q
    <3>1. \/ /\ log'[q] = Append(log[q], Head(outbox[q]))
             /\ outbox'[q] = Tail(outbox[q]) /\ sendFaults' = sendFaults
          \/ /\ log'[q] = Append(log[q], Head(outbox[q]))
             /\ outbox'[q] = outbox[q] /\ sendFaults' = sendFaults + 1
          \/ /\ log'[q] = log[q]
             /\ outbox'[q] = Tail(outbox[q]) /\ sendFaults' = sendFaults + 1
      BY <1>0, <2>1, <2>3, EchoFacts
    <3> QED
      BY <2>1, <2>2, <2>3, <3>1 DEF Moves, Sends
  <2>4. CASE u # q
    <3>1. log'[q] = log[q] /\ outbox'[q] = outbox[q]
      BY <1>0, <2>1, <2>4, EchoFacts, TopicFacts
    <3>2. sendFaults' \in Nat /\ sendFaults <= sendFaults'
      BY <1>0, <2>1
    <3> QED
      BY <2>1, <2>2, <3>1, <3>2 DEF Moves, Rests
  <2> QED
    BY <2>3, <2>4
<1>11. ASSUME NEW p \in Services, Crash(p) PROVE Moves(s, t, q)
  <2>1. /\ crashes' = [crashes EXCEPT ![p] = crashes[p] + 1]
        /\ outbox' = [u \in Outputs |-> IF u \in Produced[p] THEN <<>> ELSE outbox[u]]
        /\ cur' = [cur EXCEPT ![p] = None]
        /\ done' = [done EXCEPT ![p] = committed[p]]
        /\ UNCHANGED <<log, sendFaults>>
    BY <1>11 DEF Crash
  <2>2. CASE p = s
    <3>1. outbox'[q] = <<>> /\ crashes'[s] = crashes[s] + 1 /\ cur'[s] # t
      BY <1>0, <2>1, <2>2, EchoFacts
    <3>2. done'[s][t] <= done[s][t]
      BY <1>0, <2>1, <2>2, EchoFacts DEF TypeOK, OffsetsOrdered
    <3>3. done'[s][t] \in Nat
      BY <1>0, <2>1, <2>2, EchoFacts DEF TypeOK, Types
    <3>4. Begun(s, t)' <= Begun(s, t)
      BY <3>1, <3>2, <3>3, EchoFacts, BegunType DEF Begun
    <3> QED
      BY <2>1, <3>1, <3>4 DEF Moves, Restarts
  <2>3. CASE p # s
    <3>1. outbox'[q] = outbox[q] /\ crashes'[s] = crashes[s] /\ cur'[s] = cur[s] /\ done'[s][t] = done[s][t]
      BY <1>0, <2>1, <2>3, EchoFacts
    <3> QED
      BY <1>1, <2>1, <3>1 DEF Moves
  <2> QED
    BY <2>2, <2>3
<1>12. ASSUME NEW p \in Services, NEW u \in Topics, CommitArrives(p, u) PROVE Moves(s, t, q)
  BY <1>1, <1>12 DEF CommitArrives, Moves
<1> QED
  BY <1>2, <1>3, <1>5, <1>6, <1>7, <1>8, <1>9, <1>10, <1>11, <1>12 DEF Next

\* The three pairs of a topic and its replies.
LEMMA ThreeEchoes ==
    /\ IsEcho("MLout", "aiReq", "aiResp") /\ IsEcho("MLout", "sumReq", "sumResp")
    /\ IsEcho("MLin", "voice", "transcript")
BY DEF IsEcho

\* In the state of Init nothing is begun.
LEMMA NothingBegun ==
    ASSUME Init, NEW s, NEW t, NEW q, IsEcho(s, t, q)
    PROVE  Begun(s, t) = 0 /\ log[t] = <<>> /\ log[q] = <<>> /\ outbox[q] = <<>>
BY EchoFacts DEF Init, Begun

\* No step invents a reply.
LEMMA StemsStep ==
    ASSUME TypeOK, NEW s, NEW t, NEW q, IsEcho(s, t, q), Moves(s, t, q),
           Published(q) \subseteq ToSet(log[t])
    PROVE  (Published(q) \subseteq ToSet(log[t]))'
<1>0. /\ log[t] \in Seq(Message) /\ log[q] \in Seq(Message) /\ outbox[q] \in Seq(Message)
      /\ DOMAIN log[t] = 1..Len(log[t]) /\ Begun(s, t) \in Nat
  BY EchoFacts, BegunType DEF TypeOK, Types
<1>1. CASE Comes(s, t, q)
  <2>1. PICK m \in Message : log'[t] = Append(log[t], m)
    BY <1>1 DEF Comes
  <2>2. ToSet(log'[t]) = ToSet(log[t]) \cup {m}
    BY <1>0, <2>1, AppendToSet
  <2> QED
    BY <1>1, <2>2 DEF Comes, Published
<1>2. CASE Replies(s, t, q)
  <2>1. Begun(s, t) + 1 \in DOMAIN log[t]
    BY <1>0, <1>2 DEF Replies
  <2>2. log[t][Begun(s, t) + 1] \in ToSet(log[t]) /\ log[t][Begun(s, t) + 1] \in Message
    BY <1>0, <2>1 DEF ToSet
  <2>3. ToSet(outbox'[q]) = ToSet(outbox[q]) \cup {log[t][Begun(s, t) + 1]}
    BY <1>0, <1>2, <2>2, AppendToSet DEF Replies
  <2> QED
    BY <1>2, <2>2, <2>3 DEF Replies, Published
<1>3. CASE Sends(s, t, q)
  <2>1. outbox[q] # <<>> /\ log'[t] = log[t]
    BY <1>3 DEF Sends
  <2>2. Head(outbox[q]) \in Message /\ ToSet(outbox[q]) = {Head(outbox[q])} \cup ToSet(Tail(outbox[q]))
    BY <1>0, <2>1, HeadAndTail
  <2>3. ToSet(Append(log[q], Head(outbox[q]))) = ToSet(log[q]) \cup {Head(outbox[q])}
    BY <1>0, <2>2, AppendToSet
  <2> QED
    BY <1>3, <2>1, <2>2, <2>3 DEF Sends, Published
<1>4. CASE Restarts(s, t, q)
  <2>1. ToSet(<<>>) = {}
    BY DEF ToSet
  <2> QED
    BY <1>4, <2>1 DEF Restarts, Published
<1>5. CASE Rests(s, t, q)
  BY <1>5 DEF Rests, Published
<1> QED
  BY <1>1, <1>2, <1>3, <1>4, <1>5 DEF Moves

\* The replies on their way are to messages that were published, and those stay
\* within their bound.
Stems(t, q) ==
    /\ Len(log[t]) <= MaxLen[t]
    /\ Published(q) \subseteq ToSet(log[t])

\* A topic takes only the messages its bound leaves room for.
LEMMA BoundStep ==
    ASSUME TypeOK, Next, NEW t \in Inputs, Len(log[t]) <= MaxLen[t]
    PROVE  Len(log'[t]) <= MaxLen[t]
<1>0. /\ log \in [Topics -> Seq(Message)] /\ t \in Topics /\ t \notin Outputs
      /\ MaxLen[t] \in Nat
  BY BoundsAssumption DEF TypeOK, Types, Topics, Inputs, Outputs
<1>1. ASSUME NEW u \in Inputs, NEW r \in Rooms, Publish(u, r) PROVE Len(log'[t]) <= MaxLen[t]
  <2>1. /\ log' = [log EXCEPT ![u] = Append(log[u], [room |-> r, src |-> Len(log[u]) + 1])]
        /\ Len(log[u]) < MaxLen[u]
    BY <1>1 DEF Publish
  <2>2. CASE u = t
    <3> DEFINE m == [room |-> r, src |-> Len(log[t]) + 1]
    <3>1. Len(log[t]) + 1 \in Positions
      BY <1>0 DEF Positions
    <3>2. m \in Message
      BY <3>1 DEF Message
    <3>3. log'[t] = Append(log[t], m)
      BY <1>0, <2>1, <2>2
    <3> HIDE DEF m
    <3> QED
      BY <1>0, <2>1, <2>2, <3>2, <3>3
  <2>3. CASE u # t
    BY <1>0, <2>1, <2>3
  <2> QED
    BY <2>2, <2>3
<1>2. CASE log'[t] = log[t]
  BY <1>2
<1>3. ASSUME NEW u \in Outputs, Deliver(u) \/ DeliverUnacknowledged(u) PROVE log'[t] = log[t]
  BY <1>0, <1>3 DEF Deliver, DeliverUnacknowledged
<1>4. \/ log' = log
      \/ \E u \in Inputs, r \in Rooms : Publish(u, r)
      \/ \E u \in Outputs : Deliver(u) \/ DeliverUnacknowledged(u)
  BY DEF Next, MLinLoad, MLinSave, MLinSkipFile, MLoutAnswer, MLoutSave, MLoutSummarize,
         Crash, LoseProduced, CommitArrives
<1> QED
  BY <1>1, <1>2, <1>3, <1>4

\* A step of RequestReply with the messages of t as requests and those of q as
\* replies: a request joins, a request is answered, or neither changes.
Serves(t, q) ==
    \/ UNCHANGED <<ToSet(log[t]), ToSet(log[q])>>
    \/ \E m \in [room : Rooms, src : 1..MaxLen[t]] :
          \/ /\ m \notin ToSet(log[t])
             /\ ToSet(log[t])' = ToSet(log[t]) \cup {m} /\ UNCHANGED ToSet(log[q])
          \/ /\ m \in ToSet(log[t]) \ ToSet(log[q])
             /\ ToSet(log[q])' = ToSet(log[q]) \cup {m} /\ UNCHANGED ToSet(log[t])

\* Each of the five moves is such a step.
LEMMA ServiceStep ==
    ASSUME TypeOK, NEW s, NEW t, NEW q, IsEcho(s, t, q), Moves(s, t, q), Stems(t, q), Stems(t, q)'
    PROVE  Serves(t, q)
<1> DEFINE Asked == [room : Rooms, src : 1..MaxLen[t]]
<1>0. /\ log[t] \in Seq(Message) /\ log[q] \in Seq(Message) /\ outbox[q] \in Seq(Message)
      /\ DOMAIN log[t] = 1..Len(log[t]) /\ Len(log[t]) \in Nat
      /\ \A i \in 1..Len(log[t]) : log[t][i].src = i
      /\ Len(log[t]) <= MaxLen[t] /\ MaxLen[t] \in Nat
  BY EchoFacts, BoundsAssumption DEF TypeOK, Types, InputsNumbered, Stems
<1>1. CASE Comes(s, t, q)
  <2>1. PICK m \in Message : m.src = Len(log[t]) + 1 /\ log'[t] = Append(log[t], m)
    BY <1>1 DEF Comes
  <2>2. Len(log'[t]) = Len(log[t]) + 1 /\ Len(log'[t]) <= MaxLen[t]
    BY <1>0, <2>1 DEF Stems
  <2>3. m.src \in 1..MaxLen[t] /\ m.room \in Rooms /\ m = [room |-> m.room, src |-> m.src]
    BY <1>0, <2>1, <2>2 DEF Message
  <2>4. m \in Asked
    BY <2>3
  <2>5. m \notin ToSet(log[t])
    BY <1>0, <2>1 DEF ToSet
  <2>6. ToSet(log'[t]) = ToSet(log[t]) \cup {m} /\ log'[q] = log[q]
    BY <1>0, <1>1, <2>1, AppendToSet DEF Comes
  <2> QED
    BY <2>4, <2>5, <2>6 DEF Serves
<1>2. CASE Sends(s, t, q)
  <2> DEFINE x == Head(outbox[q])
  <2>1. /\ outbox[q] # <<>> /\ log'[t] = log[t]
        /\ log'[q] = log[q] \/ log'[q] = Append(log[q], x)
    BY <1>2 DEF Sends
  <2>2. x \in Message /\ x \in ToSet(outbox[q])
    BY <1>0, <2>1, HeadAndTail
  <2>3. x \in ToSet(log[t])
    BY <2>2 DEF Stems, Published
  <2>4. PICK i \in 1..Len(log[t]) : x = log[t][i]
    BY <1>0, <2>3 DEF ToSet
  <2> HIDE DEF x
  <2>5. x.src \in 1..MaxLen[t] /\ x.room \in Rooms /\ x = [room |-> x.room, src |-> x.src]
    BY <1>0, <2>2, <2>4 DEF Message
  <2>6. x \in Asked
    BY <2>5
  <2>7. ToSet(Append(log[q], x)) = ToSet(log[q]) \cup {x}
    BY <1>0, <2>2, AppendToSet
  <2> QED
    BY <2>1, <2>3, <2>6, <2>7 DEF Serves
<1>3. CASE Replies(s, t, q) \/ Restarts(s, t, q) \/ Rests(s, t, q)
  BY <1>3 DEF Replies, Restarts, Rests, Serves
<1> QED
  BY <1>1, <1>2, <1>3 DEF Moves

AllStem == Stems("aiReq", "aiResp") /\ Stems("sumReq", "sumResp") /\ Stems("voice", "transcript")

AllServe == Serves("aiReq", "aiResp") /\ Serves("sumReq", "sumResp") /\ Serves("voice", "transcript")

LEMMA NothingStems == Init => AllStem
<1>1. ASSUME Init, NEW s, NEW t, NEW q, IsEcho(s, t, q) PROVE Stems(t, q)
  <2>1. log[t] = <<>> /\ Published(q) = {} /\ MaxLen[t] \in Nat
    BY <1>1, NothingBegun, EchoFacts, BoundsAssumption DEF Published, ToSet
  <2> QED
    BY <2>1 DEF Stems
<1> QED
  BY <1>1, ThreeEchoes DEF AllStem

\* A step keeps every reply that of a message published, and is a step of the
\* three services.
LEMMA AllStemStep ==
    ASSUME TypeOK, AllStem, [Next]_vars
    PROVE  AllStem' /\ AllServe
<1>1. CASE UNCHANGED vars
  BY <1>1 DEF vars, AllStem, AllServe, Stems, Serves, Published
<1>2. CASE Next
  <2>1. ASSUME NEW s, NEW t, NEW q, IsEcho(s, t, q), Stems(t, q)
        PROVE  Stems(t, q)' /\ Serves(t, q)
    <3>1. Moves(s, t, q)
      BY <1>2, <2>1, EchoMoves
    <3>2. (Published(q) \subseteq ToSet(log[t]))'
      BY <2>1, <3>1, StemsStep DEF Stems
    <3>3. Len(log'[t]) <= MaxLen[t]
      BY <1>2, <2>1, EchoFacts, BoundStep DEF Stems
    <3>4. Stems(t, q)'
      BY <3>2, <3>3 DEF Stems
    <3> QED
      BY <2>1, <3>1, <3>4, ServiceStep
  <2> QED
    BY <2>1, ThreeEchoes DEF AllStem, AllServe
<1> QED
  BY <1>1, <1>2

\* The two services, their queues, crashes and redeliveries implement the three
\* services of RequestReply: only what was asked or said is replied to, in its
\* room, and no reply is withdrawn.
THEOREM ImplementsTheServices == Spec => ImplementsServicesSafety
<1>1. Init => Assistant!Init /\ Summaries!Init /\ Scribe!Init
  BY DEF Init, Assistant!Init, Summaries!Init, Scribe!Init, ToSet, Topics, Inputs, Outputs
<1>2. TypeOK /\ AllStem /\ [Next]_vars => AllStem' /\ AllServe
  BY AllStemStep
<1>3. AllServe => /\ [Assistant!Next]_(Assistant!vars)
                  /\ [Summaries!Next]_(Summaries!vars)
                  /\ [Scribe!Next]_(Scribe!vars)
  <2>1. Serves("aiReq", "aiResp") => [Assistant!Next]_(Assistant!vars)
    BY DEF Serves, Assistant!Next, Assistant!Ask, Assistant!Answer, Assistant!vars
  <2>2. Serves("sumReq", "sumResp") => [Summaries!Next]_(Summaries!vars)
    BY DEF Serves, Summaries!Next, Summaries!Ask, Summaries!Answer, Summaries!vars
  <2>3. Serves("voice", "transcript") => [Scribe!Next]_(Scribe!vars)
    BY DEF Serves, Scribe!Next, Scribe!Ask, Scribe!Answer, Scribe!vars
  <2> QED
    BY <2>1, <2>2, <2>3 DEF AllServe
<1> QED
  BY <1>1, <1>2, <1>3, NothingStems, TypeCorrect, PTL
     DEF Spec, ImplementsServicesSafety, Assistant!Safety, Summaries!Safety, Scribe!Safety

-----------------------------------------------------------------------------
(* The history both services overwrite *)

Spoken == {"chat", "board", "voice"}

\* A list in order, of positions up to n.
UpTo(seq, n) ==
    /\ StrictlyIncreasing(seq)
    /\ \A i \in 1..Len(seq) : seq[i] <= n

\* Until MLin restarts, each copy of the context, the one in Redis and those
\* the services have loaded, is in order and holds nothing MLin has yet to
\* handle.  MLout may put an old copy back, but an old copy of such a context
\* is such a context; HistoryInOrder alone says nothing of the copies.
CopiesOf(t) == {ctx[r][t] : r \in Rooms} \cup {mem[s][t] : s \in Services}

HistoryInv ==
    crashes["MLin"] = 0 =>
        \A t \in Spoken : \A seq \in CopiesOf(t) : UpTo(seq, done["MLin"][t])

\* The fields the theorem is about are recorded by MLin from input topics.
LEMMA SpokenFacts ==
    /\ Spoken \subseteq Recorded
    /\ Spoken \subseteq Inputs
    /\ Spoken \subseteq Topics
    /\ "aiReq" \notin Spoken /\ "aiResp" \notin Spoken
    /\ "MLin" \in Services /\ "MLout" \in Services
BY DEF Spoken, Recorded, Inputs, Topics, Services

\* The empty list is in order.
LEMMA EmptyUpTo == ASSUME NEW n PROVE UpTo(<<>>, n)
BY DEF UpTo, StrictlyIncreasing

\* A list up to n with n + 1 remembered is a list up to n + 1.
LEMMA RememberUpTo ==
    ASSUME NEW seq \in Seq(Positions), NEW n \in Nat, NEW k \in Nat, UpTo(seq, n)
    PROVE  UpTo(Remember(seq, n + 1, k), n + 1)
<1>1. n + 1 \in Positions /\ Len(seq) \in Nat /\ \A i \in 1..Len(seq) : seq[i] \in Nat
  BY DEF Positions
<1>2. \A i \in 1..Len(seq) : seq[i] < n + 1
  BY <1>1 DEF UpTo
<1> DEFINE new == Remember(seq, n + 1, k)
<1>3. /\ StrictlyIncreasing(new)
      /\ \A i \in 1..Len(new) : new[i] = n + 1 \/ \E j \in 1..Len(seq) : new[i] = seq[j]
  BY <1>1, <1>2, RememberAdds DEF UpTo
<1> HIDE DEF new
<1>4. \A i \in 1..Len(new) : new[i] <= n + 1
  BY <1>1, <1>2, <1>3
<1> QED
  BY <1>3, <1>4 DEF UpTo, new

\* A list in order up to m is in order up to any later n.
LEMMA UpToMonotone ==
    ASSUME NEW seq \in Seq(Positions), NEW n \in Nat, NEW m \in Nat, n <= m, UpTo(seq, n)
    PROVE  UpTo(seq, m)
BY DEF UpTo, Positions

\* No step makes a copy out of anything but a copy, the empty list, and, for
\* the message MLin has just handled, a copy with that message remembered.
LEMMA CopiesStep ==
    ASSUME TypeOK, [Next]_vars, crashes'["MLin"] = 0, NEW t \in Spoken
    PROVE  /\ crashes["MLin"] = 0
           /\ \/ /\ CopiesOf(t)' \subseteq CopiesOf(t) \cup {<<>>}
                 /\ done'["MLin"][t] \in {done["MLin"][t], done["MLin"][t] + 1}
              \/ /\ done'["MLin"][t] = done["MLin"][t] + 1
                 /\ CopiesOf(t)' \subseteq CopiesOf(t) \cup
                       {<<>>, Remember(mem["MLin"][t], done["MLin"][t] + 1, Limit(t))}
<1> USE SpokenFacts
<1>0. Types /\ crashes \in [Services -> Nat]
  BY DEF TypeOK, Types
<1>1. crashes["MLin"] = 0
  <2>1. CASE \E s \in Services : Crash(s)
    BY <1>0, <2>1 DEF Crash
  <2>2. CASE ~ \E s \in Services : Crash(s)
    BY <2>2 DEF Next, vars, Publish, MLinLoad, MLinSave, MLinSkipFile, MLoutAnswer, MLoutSave,
                MLoutSummarize, Deliver, DeliverUnacknowledged, LoseProduced, CommitArrives
  <2> QED
    BY <2>1, <2>2
<1> DEFINE Goal == \/ /\ CopiesOf(t)' \subseteq CopiesOf(t) \cup {<<>>}
                      /\ done'["MLin"][t] \in {done["MLin"][t], done["MLin"][t] + 1}
                   \/ /\ done'["MLin"][t] = done["MLin"][t] + 1
                      /\ CopiesOf(t)' \subseteq CopiesOf(t) \cup
                            {<<>>, Remember(mem["MLin"][t], done["MLin"][t] + 1, Limit(t))}
<1>2. ASSUME UNCHANGED <<ctx, mem>>,
             done'["MLin"][t] \in {done["MLin"][t], done["MLin"][t] + 1}
      PROVE  Goal
  BY <1>2 DEF CopiesOf
<1>3. ASSUME NEW s \in Services, NEW room \in Rooms, Load(s, room), UNCHANGED <<ctx, done>>
      PROVE  Goal
  <2>1. \A p \in Services : mem'[p] \in {mem[p], ctx[room], EmptyContext}
    BY <1>0, <1>3 DEF Load, Types
  <2>2. EmptyContext[t] = <<>>
    BY DEF EmptyContext
  <2> QED
    BY <1>3, <2>1, <2>2 DEF CopiesOf
<1>4. ASSUME NEW s \in Services, NEW room \in Rooms, NEW c, Save(room, c),
             mem' = [mem EXCEPT ![s] = EmptyContext]
      PROVE  CopiesOf(t)' \subseteq CopiesOf(t) \cup {<<>>, c[t]}
  <2>1. \A r \in Rooms : ctx'[r] = ctx[r] \/ ctx'[r] = c
    BY <1>0, <1>4 DEF Save, Types
  <2>2. \A p \in Services : mem'[p] \in {mem[p], EmptyContext}
    BY <1>0, <1>4 DEF Types
  <2>3. EmptyContext[t] = <<>>
    BY DEF EmptyContext
  <2> QED
    BY <2>1, <2>2, <2>3 DEF CopiesOf
<1>5. ASSUME NEW u \in Recorded, MLinLoad(u)
      PROVE  Goal
  <2>1. u \in Topics /\ done["MLin"][u] < Len(log[u])
    BY <1>5, TopicFacts DEF MLinLoad, CanPoll
  <2>2. Polled("MLin", u).room \in Rooms
    BY <1>0, <2>1, PolledType
  <2> QED
    BY <1>3, <1>5, <2>2 DEF MLinLoad
<1>6. ASSUME NEW u \in Recorded, MLinSave(u)
      PROVE  Goal
  <2> DEFINE m == Polled("MLin", u)
             c == [mem["MLin"] EXCEPT ![u] = Remember(@, m.src, Limit(u))]
  <2>1. /\ u \in Topics /\ done["MLin"][u] < Len(log[u]) /\ u = cur["MLin"]
    BY <1>6, TopicFacts DEF MLinSave, TypeOK, HandlesNextMessage
  <2>2. m.room \in Rooms /\ done["MLin"][u] + 1 \in 1..Len(log[u])
    BY <1>0, <2>1, PolledType
  <2>3. CopiesOf(t)' \subseteq CopiesOf(t) \cup {<<>>, c[t]}
    BY <1>4, <1>6, <2>2 DEF MLinSave
  <2>4. done' = [done EXCEPT !["MLin"][u] = @ + 1] /\ mem["MLin"] \in Context
    BY <1>0, <1>6 DEF MLinSave, Handled, Types
  <2>5. CASE u # t
    <3>1. c[t] = mem["MLin"][t]
      BY <2>4, <2>5 DEF Context
    <3>2. c[t] \in CopiesOf(t)
      BY <3>1 DEF CopiesOf
    <3>3. done'["MLin"][t] = done["MLin"][t]
      BY <1>0, <2>4, <2>5 DEF Types
    <3> QED
      BY <2>3, <3>2, <3>3
  <2>6. CASE u = t
    <3>1. m.src = done["MLin"][t] + 1
      BY <2>2, <2>6 DEF TypeOK, InputsNumbered, Polled
    <3>2. c[t] = Remember(mem["MLin"][t], done["MLin"][t] + 1, Limit(t))
      BY <2>4, <2>6, <3>1 DEF Context
    <3>3. done'["MLin"][t] = done["MLin"][t] + 1
      BY <1>0, <2>4, <2>6 DEF Types
    <3> QED
      BY <2>3, <3>2, <3>3
  <2> QED
    BY <2>5, <2>6
<1>7. ASSUME MLoutAnswer
      PROVE  Goal
  <2>1. "aiReq" \in Topics /\ done["MLout"]["aiReq"] < Len(log["aiReq"])
    BY <1>7 DEF MLoutAnswer, CanPoll, Topics, Inputs
  <2>2. Polled("MLout", "aiReq").room \in Rooms
    BY <1>0, <2>1, PolledType
  <2> QED
    BY <1>3, <1>7, <2>2 DEF MLoutAnswer
<1>8. ASSUME MLoutSave
      PROVE  Goal
  <2> DEFINE m == Polled("MLout", "aiReq")
             c == [mem["MLout"] EXCEPT !["aiReq"]  = Remember(@, m.src, MaxDialogue),
                                       !["aiResp"] = Remember(@, m.src, MaxDialogue)]
  <2>1. /\ "aiReq" \in Topics /\ "aiReq" # None
    BY DEF Topics, Inputs, None
  <2>2. done["MLout"]["aiReq"] < Len(log["aiReq"])
    BY <1>8, <2>1 DEF MLoutSave, TypeOK, HandlesNextMessage
  <2>3. m.room \in Rooms
    BY <1>0, <2>1, <2>2, PolledType
  <2>4. CopiesOf(t)' \subseteq CopiesOf(t) \cup {<<>>, c[t]}
    BY <1>4, <1>8, <2>3 DEF MLoutSave
  <2>5. mem["MLout"] \in Context
    BY <1>0 DEF Types
  <2>6. c[t] = mem["MLout"][t]
    BY <2>5 DEF Context
  <2>7. c[t] \in CopiesOf(t)
    BY <2>6 DEF CopiesOf
  <2>8. done'["MLin"][t] = done["MLin"][t]
    BY <1>0, <1>8 DEF MLoutSave, Handled, Types
  <2> QED
    BY <2>4, <2>7, <2>8
<1>9. ASSUME MLinSkipFile \/ MLoutSummarize
      PROVE  Goal
  <2>1. UNCHANGED <<ctx, mem>>
    BY <1>9 DEF MLinSkipFile, MLoutSummarize
  <2>2. done'["MLin"][t] = done["MLin"][t]
    <3>1. CASE MLinSkipFile
      BY <1>0, <3>1 DEF MLinSkipFile, Handled, Types, Spoken
    <3>2. CASE MLoutSummarize
      BY <1>0, <3>2 DEF MLoutSummarize, Handled, Types
    <3> QED
      BY <1>9, <3>1, <3>2
  <2> QED
    BY <1>2, <2>1, <2>2
<1>10. ASSUME NEW s \in Services, Crash(s)
       PROVE  Goal
  <2>1. s # "MLin"
    BY <1>0, <1>10 DEF Crash
  <2>2. UNCHANGED ctx /\ done'["MLin"] = done["MLin"]
    BY <1>0, <1>10, <2>1 DEF Crash, Types
  <2>3. \A p \in Services : mem'[p] \in {mem[p], EmptyContext}
    BY <1>0, <1>10 DEF Crash, Types
  <2>4. EmptyContext[t] = <<>>
    BY DEF EmptyContext
  <2> QED
    BY <2>2, <2>3, <2>4 DEF CopiesOf
<1>11. ASSUME \/ \E u \in Inputs, r \in Rooms : Publish(u, r)
              \/ \E u \in Outputs : Deliver(u) \/ DeliverUnacknowledged(u) \/ LoseProduced(u)
              \/ \E s \in Services, u \in Topics : CommitArrives(s, u)
              \/ UNCHANGED vars
       PROVE  Goal
  <2>1. UNCHANGED <<ctx, mem, done>>
    BY <1>11 DEF Publish, Deliver, DeliverUnacknowledged, LoseProduced, CommitArrives, vars
  <2> QED
    BY <1>2, <2>1
<1> HIDE DEF Goal
<1>12. Goal
  BY <1>5, <1>6, <1>7, <1>8, <1>9, <1>10, <1>11 DEF Next
<1> QED
  BY <1>1, <1>12 DEF Goal

\* Every step keeps every copy in order and not ahead of MLin.
LEMMA HistoryStep == TypeOK /\ HistoryInv /\ [Next]_vars => HistoryInv'
<1> SUFFICES ASSUME TypeOK, HistoryInv, [Next]_vars, crashes'["MLin"] = 0,
                    NEW t \in Spoken, NEW seq \in CopiesOf(t)'
             PROVE  UpTo(seq, done'["MLin"][t])
  BY DEF HistoryInv
<1> DEFINE n == done["MLin"][t]
           old == mem["MLin"][t]
<1>1. /\ n \in Nat
      /\ \A s \in CopiesOf(t) : s \in Seq(Positions)
      /\ old \in CopiesOf(t)
  BY SpokenFacts DEF TypeOK, Types, CopiesOf, Context
<1>2. /\ crashes["MLin"] = 0
      /\ \/ /\ seq \in CopiesOf(t) \cup {<<>>}
            /\ done'["MLin"][t] \in {n, n + 1}
         \/ /\ done'["MLin"][t] = n + 1
            /\ seq \in CopiesOf(t) \cup {<<>>, Remember(old, n + 1, Limit(t))}
  BY CopiesStep
<1>3. \A s \in CopiesOf(t) : UpTo(s, n)
  BY <1>2 DEF HistoryInv
<1>4. \A s \in CopiesOf(t) : UpTo(s, n + 1)
  BY <1>1, <1>3, UpToMonotone
<1>5. UpTo(Remember(old, n + 1, Limit(t)), n + 1)
  BY <1>1, <1>3, LimitType, RememberUpTo
<1> HIDE DEF n, old
<1> QED
  BY <1>2, <1>3, <1>4, <1>5, EmptyUpTo

\* The chat, the drawings and the speech that a prompt sees are in order and
\* without repetition until MLin restarts, however MLout's overwriting and
\* failing Redis calls interleave with MLin's.
THEOREM HistoryStaysInOrder == Spec => []HistoryInOrder
<1>1. Init => HistoryInv
  BY EmptyUpTo, SpokenFacts DEF Init, HistoryInv, CopiesOf, EmptyContext
<1>2. TypeOK /\ HistoryInv /\ [Next]_vars => HistoryInv'
  BY HistoryStep
<1>3. HistoryInv => HistoryInOrder
  BY DEF HistoryInv, HistoryInOrder, CopiesOf, UpTo, Spoken
<1> QED
  BY <1>1, <1>2, <1>3, TypeCorrect, PTL DEF Spec

-----------------------------------------------------------------------------
(* Rooms stay apart *)

\* Every entry of seq, a list of field t, stems from a message of room r in l.
OfRoom(seq, t, r, l) ==
    \A i \in 1..Len(seq) :
        seq[i] \in 1..Len(l[Origin(t)]) /\ l[Origin(t)][seq[i]].room = r

\* The copy a service has loaded is one of the room of its message.
LoadedOwnRoom(s) ==
    cur[s] # None => \A t \in Recorded : OfRoom(mem[s][t], t, Polled(s, cur[s]).room, log)

\* RoomsIsolated, said with OfRoom.
LEMMA IsolatedMeans ==
    RoomsIsolated <=> /\ \A r \in Rooms, t \in Recorded : OfRoom(ctx[r][t], t, r, log)
                      /\ \A s \in Services : LoadedOwnRoom(s)
BY DEF RoomsIsolated, OfRoom, LoadedOwnRoom

\* Fields and the topics they stem from are topics.
LEMMA OriginFacts ==
    ASSUME NEW t \in Recorded
    PROVE  t \in Topics /\ Origin(t) \in Topics /\ (t # "aiResp" => t \in Inputs)
BY DEF Recorded, Topics, Inputs, Outputs, Origin

\* What a topic holds stays where it is.
LEMMA LogGrows ==
    ASSUME TypeOK, Next, NEW t \in Topics
    PROVE  /\ Len(log[t]) \in Nat /\ Len(log'[t]) \in Nat /\ Len(log[t]) <= Len(log'[t])
           /\ \A i \in 1..Len(log[t]) : log'[t][i] = log[t][i]
<1>0. log \in [Topics -> Seq(Message)] /\ outbox \in [Outputs -> Seq(Message)]
  BY DEF TypeOK, Types
<1>1. CASE log'[t] = log[t]
  BY <1>0, <1>1
<1>2. ASSUME NEW m \in Message, log'[t] = Append(log[t], m)
      PROVE  /\ Len(log'[t]) = Len(log[t]) + 1
             /\ \A i \in 1..Len(log[t]) : log'[t][i] = log[t][i]
  BY <1>0, <1>2, AppendProperties
<1>3. ASSUME NEW u \in Inputs, NEW r \in Rooms, Publish(u, r)
      PROVE  log'[t] = log[t] \/ \E m \in Message : log'[t] = Append(log[t], m)
  <2> DEFINE m == [room |-> r, src |-> Len(log[u]) + 1]
  <2>1. u \in Topics /\ log' = [log EXCEPT ![u] = Append(log[u], m)]
    BY <1>3, TopicFacts DEF Publish
  <2>2. Len(log[u]) \in Nat
    BY <1>0, <2>1
  <2>3. m \in Message
    BY <2>2 DEF Message, Positions
  <2> HIDE DEF m
  <2> QED
    BY <1>0, <2>1, <2>3
<1>4. ASSUME NEW u \in Outputs, Deliver(u) \/ DeliverUnacknowledged(u)
      PROVE  log'[t] = log[t] \/ \E m \in Message : log'[t] = Append(log[t], m)
  <2>1. outbox[u] # <<>> /\ log' = [log EXCEPT ![u] = Append(log[u], Head(outbox[u]))]
    BY <1>4 DEF Deliver, DeliverUnacknowledged
  <2>2. Head(outbox[u]) \in Message
    BY <1>0, <2>1, HeadTailProperties
  <2> QED
    BY <1>0, <2>1, <2>2, TopicFacts
<1>5. \/ log' = log
      \/ \E u \in Inputs, r \in Rooms : Publish(u, r)
      \/ \E u \in Outputs : Deliver(u) \/ DeliverUnacknowledged(u)
  BY DEF Next, MLinLoad, MLinSave, MLinSkipFile, MLoutAnswer, MLoutSave, MLoutSummarize,
         LoseProduced, CommitArrives, Crash
<1>6. log'[t] = log[t] \/ \E m \in Message : log'[t] = Append(log[t], m)
  BY <1>3, <1>4, <1>5
<1>7. Len(log[t]) \in Nat
  BY <1>0
<1> QED
  BY <1>1, <1>2, <1>6, <1>7

\* So a list of a room stays one.
LEMMA OfRoomStays ==
    ASSUME TypeOK, Next, NEW seq, NEW t \in Recorded, NEW r, OfRoom(seq, t, r, log)
    PROVE  OfRoom(seq, t, r, log')
<1>1. /\ Len(log[Origin(t)]) \in Nat /\ Len(log'[Origin(t)]) \in Nat
      /\ Len(log[Origin(t)]) <= Len(log'[Origin(t)])
      /\ \A i \in 1..Len(log[Origin(t)]) : log'[Origin(t)][i] = log[Origin(t)][i]
  BY OriginFacts, LogGrows
<1> QED
  BY <1>1 DEF OfRoom

\* A message polled stems from one of its room: an answer equals its question.
LEMMA PolledStems ==
    ASSUME TypeOK, AllStem, NEW s \in Services, NEW t \in Recorded,
           done[s][t] < Len(log[t])
    PROVE  /\ Polled(s, t).src \in 1..Len(log[Origin(t)])
           /\ log[Origin(t)][Polled(s, t).src].room = Polled(s, t).room
<1>0. /\ t \in Topics /\ log \in [Topics -> Seq(Message)]
      /\ done[s][t] + 1 \in 1..Len(log[t])
  BY OriginFacts, PolledType DEF TypeOK, Types
<1>1. CASE t # "aiResp"
  <2>1. log[t][done[s][t] + 1].src = done[s][t] + 1
    BY <1>0, <1>1, OriginFacts DEF TypeOK, InputsNumbered
  <2> QED
    BY <1>0, <1>1, <2>1 DEF Polled, Origin
<1>2. CASE t = "aiResp"
  <2>1. Polled(s, t) \in ToSet(log["aiReq"])
    <3>1. DOMAIN log[t] = 1..Len(log[t])
      BY <1>0
    <3>2. Polled(s, t) \in ToSet(log[t])
      BY <1>0, <3>1 DEF Polled, ToSet
    <3> QED
      BY <1>2, <3>2 DEF AllStem, Stems, Published
  <2>2. PICK i \in 1..Len(log["aiReq"]) : Polled(s, t) = log["aiReq"][i]
    <3>1. "aiReq" \in Topics
      BY DEF Topics, Inputs
    <3>2. DOMAIN log["aiReq"] = 1..Len(log["aiReq"])
      BY <1>0, <3>1
    <3> QED
      BY <2>1, <3>2 DEF ToSet
  <2>3. log["aiReq"][i].src = i
    BY <2>2 DEF TypeOK, InputsNumbered, Inputs
  <2> QED
    BY <1>2, <2>2, <2>3 DEF Origin
<1> QED
  BY <1>1, <1>2

\* Remembering an entry of the room keeps a list of the room.
LEMMA RememberOfRoom ==
    ASSUME NEW seq \in Seq(Positions), NEW x \in Positions, NEW n \in Nat, NEW t, NEW r, NEW l,
           OfRoom(seq, t, r, l), x \in 1..Len(l[Origin(t)]), l[Origin(t)][x].room = r
    PROVE  OfRoom(Remember(seq, x, n), t, r, l)
<1> DEFINE new == Remember(seq, x, n)
<1>1. \A i \in 1..Len(new) : new[i] = x \/ \E j \in 1..Len(seq) : new[i] = seq[j]
  BY RememberAdds
<1> HIDE DEF new
<1>2. OfRoom(new, t, r, l)
  BY <1>1 DEF OfRoom
<1> QED
  BY <1>2 DEF new

\* An empty context is of every room.
LEMMA EmptyOfRoom == ASSUME NEW t \in Recorded, NEW r, NEW l
                     PROVE  OfRoom(EmptyContext[t], t, r, l)
BY DEF OfRoom, EmptyContext

\* A service that takes no part keeps its copy and its message.
LEMMA LoadedStays ==
    ASSUME TypeOK, Next, NEW p \in Services, LoadedOwnRoom(p),
           cur'[p] = cur[p], mem'[p] = mem[p], done'[p] = done[p]
    PROVE  LoadedOwnRoom(p)'
<1> SUFFICES ASSUME cur[p] # None, NEW t \in Recorded
             PROVE  OfRoom(mem[p][t], t, Polled(p, cur[p])'.room, log')
  BY DEF LoadedOwnRoom
<1>1. /\ cur[p] \in Topics
      /\ done[p][cur[p]] < Len(log[cur[p]])
  BY TopicFacts DEF TypeOK, HandlesNextMessage
<1>2. done[p][cur[p]] + 1 \in 1..Len(log[cur[p]])
  BY <1>1, PolledType DEF TypeOK
<1>3. Polled(p, cur[p])' = Polled(p, cur[p])
  BY <1>1, <1>2, LogGrows DEF Polled
<1> QED
  BY <1>3, OfRoomStays DEF LoadedOwnRoom

\* A GET loads the copy of the message's room, or nothing.
LEMMA LoadStep ==
    ASSUME TypeOK, RoomsIsolated, Next, NEW s \in Services, NEW t \in Recorded,
           done[s][t] < Len(log[t]), Load(s, Polled(s, t).room),
           cur' = [cur EXCEPT ![s] = t], UNCHANGED <<log, ctx, done>>
    PROVE  RoomsIsolated'
<1>0. /\ mem \in [Services -> Context] /\ cur \in [Services -> Recorded \cup {None}]
      /\ Polled(s, t).room \in Rooms
  BY OriginFacts, PolledType DEF TypeOK, Types
<1>1. \A r \in Rooms, u \in Recorded : OfRoom(ctx[r][u], u, r, log)
  BY IsolatedMeans
<1>2. \A r \in Rooms, u \in Recorded : OfRoom(ctx'[r][u], u, r, log')
  BY <1>1
<1>3. LoadedOwnRoom(s)'
  <2>1. cur'[s] = t
    BY <1>0
  <2>2. Polled(s, cur[s])' = Polled(s, t)
    BY <2>1 DEF Polled
  <2>3. mem'[s] = ctx[Polled(s, t).room] \/ mem'[s] = EmptyContext
    BY <1>0 DEF Load
  <2>4. \A u \in Recorded : OfRoom(mem'[s][u], u, Polled(s, t).room, log')
    BY <1>0, <1>1, <2>3, EmptyOfRoom
  <2> QED
    BY <2>2, <2>4 DEF LoadedOwnRoom
<1>4. ASSUME NEW p \in Services, p # s PROVE LoadedOwnRoom(p)'
  <2>1. cur'[p] = cur[p] /\ mem'[p] = mem[p] /\ done'[p] = done[p]
    BY <1>0, <1>4 DEF Load
  <2> QED
    BY <2>1, IsolatedMeans, LoadedStays
<1> QED
  BY <1>2, <1>3, <1>4 DEF RoomsIsolated, OfRoom, LoadedOwnRoom

\* A SET writes a copy of the message's room, with entries of that room added.
LEMMA SaveStep ==
    ASSUME TypeOK, RoomsIsolated, Next, NEW s \in Services, NEW room \in Rooms, NEW c,
           \A t \in Recorded : OfRoom(c[t], t, room, log), Save(room, c),
           cur' = [cur EXCEPT ![s] = None],
           mem' = [mem EXCEPT ![s] = EmptyContext],
           NEW u, Handled(s, u)
    PROVE  RoomsIsolated'
<1>0. /\ mem \in [Services -> Context] /\ cur \in [Services -> Recorded \cup {None}]
      /\ ctx \in [Rooms -> Context] /\ done \in [Services -> [Topics -> Nat]]
  BY DEF TypeOK, Types
<1>1. ASSUME NEW r \in Rooms, NEW t \in Recorded PROVE OfRoom(ctx'[r][t], t, r, log')
  <2>1. ctx'[r] = ctx[r] \/ (r = room /\ ctx'[r] = c)
    BY <1>0 DEF Save
  <2>2. OfRoom(ctx'[r][t], t, r, log)
    BY <2>1, IsolatedMeans
  <2> QED
    BY <2>2, OfRoomStays
<1>2. LoadedOwnRoom(s)'
  BY <1>0 DEF LoadedOwnRoom
<1>3. ASSUME NEW p \in Services, p # s PROVE LoadedOwnRoom(p)'
  <2>1. cur'[p] = cur[p] /\ mem'[p] = mem[p] /\ done'[p] = done[p]
    BY <1>0, <1>3 DEF Handled
  <2> QED
    BY <2>1, IsolatedMeans, LoadedStays
<1> QED
  BY <1>1, <1>2, <1>3 DEF RoomsIsolated, OfRoom, LoadedOwnRoom

\* A step that leaves the context and all services at work alone.
LEMMA OtherStep ==
    ASSUME TypeOK, RoomsIsolated, Next, UNCHANGED ctx,
           \A p \in Services :
              \/ cur'[p] = None
              \/ cur'[p] = cur[p] /\ mem'[p] = mem[p] /\ done'[p] = done[p]
    PROVE  RoomsIsolated'
<1>1. ASSUME NEW r \in Rooms, NEW t \in Recorded PROVE OfRoom(ctx'[r][t], t, r, log')
  <2>1. OfRoom(ctx[r][t], t, r, log)
    BY IsolatedMeans
  <2> QED
    BY <2>1, OfRoomStays
<1>2. ASSUME NEW p \in Services PROVE LoadedOwnRoom(p)'
  <2>1. CASE cur'[p] = None
    BY <2>1 DEF LoadedOwnRoom
  <2>2. CASE cur'[p] = cur[p] /\ mem'[p] = mem[p] /\ done'[p] = done[p]
    BY <2>2, IsolatedMeans, LoadedStays
  <2> QED
    BY <2>1, <2>2
<1> QED
  BY <1>1, <1>2 DEF RoomsIsolated, OfRoom, LoadedOwnRoom

\* Every step keeps the rooms apart.
LEMMA RoomsStep ==
    ASSUME TypeOK, AllStem, RoomsIsolated, Next
    PROVE  RoomsIsolated'
<1>0. /\ Types /\ "MLin" \in Services /\ "MLout" \in Services
      /\ "aiReq" \in Recorded /\ "aiResp" \in Recorded /\ "aiReq" \in Topics
      /\ mem \in [Services -> Context] /\ cur \in [Services -> Recorded \cup {None}]
      /\ done \in [Services -> [Topics -> Nat]]
  BY DEF TypeOK, Types, Services, Recorded, Topics, Inputs
<1>1. ASSUME NEW t \in Recorded, MLinLoad(t) PROVE RoomsIsolated'
  BY <1>0, <1>1, LoadStep DEF MLinLoad, CanPoll
<1>2. CASE MLoutAnswer
  BY <1>0, <1>2, LoadStep DEF MLoutAnswer, CanPoll
<1>3. ASSUME NEW t \in Recorded, MLinSave(t) PROVE RoomsIsolated'
  <2> DEFINE m == Polled("MLin", t)
             c == [mem["MLin"] EXCEPT ![t] = Remember(mem["MLin"][t], m.src, Limit(t))]
  <2>1. /\ t = cur["MLin"] /\ t # None /\ t \in Topics /\ done["MLin"][t] < Len(log[t])
    BY <1>0, <1>3, OriginFacts, TopicFacts DEF MLinSave, TypeOK, HandlesNextMessage
  <2>2. m.room \in Rooms /\ m.src \in Positions
    BY <1>0, <2>1, PolledType
  <2>3. /\ m.src \in 1..Len(log[Origin(t)]) /\ log[Origin(t)][m.src].room = m.room
    BY <1>0, <2>1, PolledStems
  <2>4. \A u \in Recorded : OfRoom(mem["MLin"][u], u, m.room, log)
    BY <1>0, <2>1, IsolatedMeans DEF LoadedOwnRoom
  <2>5. mem["MLin"] \in Context /\ mem["MLin"][t] \in Seq(Positions)
    BY <1>0 DEF Context
  <2>6. OfRoom(Remember(mem["MLin"][t], m.src, Limit(t)), t, m.room, log)
    BY <2>2, <2>3, <2>4, <2>5, LimitType, RememberOfRoom
  <2>7. \A u \in Recorded : c[u] = IF u = t THEN Remember(mem["MLin"][t], m.src, Limit(t))
                                          ELSE mem["MLin"][u]
    BY <2>5 DEF Context
  <2>8. Save(m.room, c) /\ cur' = [cur EXCEPT !["MLin"] = None]
        /\ mem' = [mem EXCEPT !["MLin"] = EmptyContext] /\ Handled("MLin", t)
    BY <1>3 DEF MLinSave
  <2> HIDE DEF m, c
  <2>9. \A u \in Recorded : OfRoom(c[u], u, m.room, log)
    BY <2>4, <2>6, <2>7
  <2> QED
    BY <1>0, <2>2, <2>8, <2>9, SaveStep
<1>4. CASE MLoutSave
  <2> DEFINE m == Polled("MLout", "aiReq")
             New(u) == Remember(mem["MLout"][u], m.src, MaxDialogue)
             c == [mem["MLout"] EXCEPT !["aiReq"] = New("aiReq"), !["aiResp"] = New("aiResp")]
  <2>1. cur["MLout"] = "aiReq" /\ "aiReq" # None /\ done["MLout"]["aiReq"] < Len(log["aiReq"])
    BY <1>0, <1>4, TopicFacts DEF MLoutSave, TypeOK, HandlesNextMessage
  <2>2. m.room \in Rooms /\ m.src \in Positions
    BY <1>0, <2>1, PolledType
  <2>3. Origin("aiReq") = "aiReq" /\ Origin("aiResp") = "aiReq"
    BY DEF Origin
  <2>4. m.src \in 1..Len(log["aiReq"]) /\ log["aiReq"][m.src].room = m.room
    BY <1>0, <2>1, <2>3, PolledStems
  <2>5. \A u \in Recorded : OfRoom(mem["MLout"][u], u, m.room, log)
    BY <1>0, <2>1, IsolatedMeans DEF LoadedOwnRoom
  <2>6. mem["MLout"] \in Context /\ \A u \in Recorded : mem["MLout"][u] \in Seq(Positions)
    BY <1>0 DEF Context
  <2>7. \A u \in {"aiReq", "aiResp"} : OfRoom(New(u), u, m.room, log)
    BY <1>0, <2>2, <2>3, <2>4, <2>5, <2>6, BoundsAssumption, RememberOfRoom
  <2>8. \A u \in Recorded : c[u] = IF u \in {"aiReq", "aiResp"} THEN New(u) ELSE mem["MLout"][u]
    BY <2>6 DEF Context
  <2>9. Save(m.room, c) /\ cur' = [cur EXCEPT !["MLout"] = None]
        /\ mem' = [mem EXCEPT !["MLout"] = EmptyContext] /\ Handled("MLout", "aiReq")
    BY <1>4 DEF MLoutSave
  <2> HIDE DEF m, c, New
  <2>10. \A u \in Recorded : OfRoom(c[u], u, m.room, log)
    BY <2>5, <2>7, <2>8
  <2> QED
    BY <1>0, <2>2, <2>9, <2>10, SaveStep
<1>5. CASE MLinSkipFile
  <2>1. /\ UNCHANGED <<ctx, mem, cur>> /\ cur["MLin"] = None
        /\ done' = [done EXCEPT !["MLin"]["file"] = done["MLin"]["file"] + 1]
    BY <1>5 DEF MLinSkipFile, CanPoll, Handled
  <2> QED
    BY <1>0, <2>1, OtherStep DEF Services
<1>6. CASE MLoutSummarize
  <2>1. /\ UNCHANGED <<ctx, mem, cur>> /\ cur["MLout"] = None
        /\ done' = [done EXCEPT !["MLout"]["sumReq"] = done["MLout"]["sumReq"] + 1]
    BY <1>6 DEF MLoutSummarize, CanPoll, Handled
  <2> QED
    BY <1>0, <2>1, OtherStep DEF Services
<1>7. ASSUME NEW s \in Services, Crash(s) PROVE RoomsIsolated'
  <2>1. /\ UNCHANGED ctx /\ cur'[s] = None
        /\ \A p \in Services : p # s => cur'[p] = cur[p] /\ mem'[p] = mem[p] /\ done'[p] = done[p]
    BY <1>0, <1>7 DEF Crash
  <2> QED
    BY <2>1, OtherStep
<1>8. CASE UNCHANGED <<ctx, mem, cur, done>>
  BY <1>8, OtherStep
<1>9. \/ UNCHANGED <<ctx, mem, cur, done>>
      \/ \E t \in Recorded : MLinLoad(t) \/ MLinSave(t)
      \/ MLoutAnswer \/ MLoutSave \/ MLinSkipFile \/ MLoutSummarize
      \/ \E s \in Services : Crash(s)
  BY DEF Next, Publish, Deliver, DeliverUnacknowledged, LoseProduced, CommitArrives
<1> QED
  BY <1>1, <1>2, <1>3, <1>4, <1>5, <1>6, <1>7, <1>8, <1>9

\* No entry of one room's messages gets into the context of another, in Redis or
\* in a copy about to be saved, whatever fails and restarts.
THEOREM RoomsStayApart == Spec => []RoomsIsolated
<1>1. Init => RoomsIsolated
  BY DEF Init, RoomsIsolated, EmptyContext
<1>2. Init => AllStem
  BY NothingStems
<1>3. TypeOK /\ AllStem /\ RoomsIsolated /\ [Next]_vars => (AllStem /\ RoomsIsolated)'
  <2>1. UNCHANGED vars /\ RoomsIsolated => RoomsIsolated'
    BY DEF vars, RoomsIsolated, Polled
  <2>2. TypeOK /\ AllStem /\ [Next]_vars => AllStem'
    BY AllStemStep
  <2> QED
    BY <2>1, <2>2, RoomsStep
<1> QED
  BY <1>1, <1>2, <1>3, TypeCorrect, PTL DEF Spec

-----------------------------------------------------------------------------
(* In a quiet room the context is exact *)

\* Remembering an entry above all of S lists the last n of S with that entry.
LEMMA RememberListsLast ==
    ASSUME NEW seq \in Seq(Positions), NEW x \in Positions, NEW n \in Nat \ {0}, NEW S,
           ListsLast(seq, S, n), \A i \in S : i < x
    PROVE  ListsLast(Remember(seq, x, n), S \cup {x}, n)
<1> DEFINE app == Append(seq, x)
           new == Remember(seq, x, n)
<1>1. /\ Len(seq) \in Nat /\ app \in Seq(Positions) /\ Len(app) = Len(seq) + 1
      /\ app[Len(seq) + 1] = x /\ \A j \in 1..Len(seq) : app[j] = seq[j]
  OBVIOUS
<1>2. new = LastN(app, n) /\ new \in Seq(Positions)
  BY RememberAdds DEF Remember
<1>3. \A j \in 1..Len(seq) : seq[j] \in S /\ seq[j] < x
  BY DEF ListsLast, ToSet
<1>4. StrictlyIncreasing(new)
  BY <1>3, RememberAdds DEF ListsLast
<1>5. CASE Len(app) <= n
  <2>1. new = app
    BY <1>2, <1>5 DEF LastN
  <2>2. ToSet(app) = ToSet(seq) \cup {x}
    BY AppendToSet
  <2>3. ToSet(seq) \subseteq S /\ S \subseteq ToSet(seq)
    BY <1>1, <1>5 DEF ListsLast
  <2> QED
    BY <1>4, <1>5, <2>1, <2>2, <2>3 DEF ListsLast
<1>6. CASE ~(Len(app) <= n)
  <2>1. Len(seq) = n /\ Len(app) = n + 1
    BY <1>1, <1>6 DEF ListsLast
  <2>2. new = SubSeq(app, 2, n + 1)
    BY <1>2, <1>6, <2>1 DEF LastN
  <2>3. Len(new) = n /\ \A j \in 1..n : new[j] = app[j + 1]
    BY <1>1, <2>1, <2>2
  <2>4. \A j \in 1..n : new[j] = IF j = n THEN x ELSE seq[j + 1]
    BY <1>1, <2>1, <2>3
  <2>5. ToSet(new) = {new[j] : j \in 1..n} /\ ToSet(seq) = {seq[j] : j \in 1..n}
    <3>1. DOMAIN new = 1..n /\ DOMAIN seq = 1..n
      BY <1>2, <2>1, <2>3
    <3> QED
      BY <3>1 DEF ToSet
  <2>6. ToSet(new) \subseteq S \cup {x}
    BY <1>3, <2>1, <2>4, <2>5
  <2>7. ASSUME NEW i \in (S \cup {x}) \ ToSet(new), NEW j \in 1..n PROVE i < new[j]
    <3>1. new[n] = x
      BY <2>4
    <3>2. i \in S
      BY <2>5, <3>1
    <3>3. CASE j = n
      BY <3>1, <3>2, <3>3
    <3>4. CASE j # n /\ i \notin ToSet(seq)
      BY <2>1, <2>4, <3>2, <3>4 DEF ListsLast
    <3>5. CASE j # n /\ i \in ToSet(seq)
      <4>1. PICK k \in 1..n : i = seq[k]
        BY <2>5, <3>5
      <4>2. k = 1
        <5>1. SUFFICES ASSUME k # 1 PROVE FALSE
          OBVIOUS
        <5>2. k - 1 \in 1..n /\ k - 1 # n /\ (k - 1) + 1 = k
          BY <5>1
        <5>3. new[k - 1] = i
          BY <2>4, <4>1, <5>2
        <5> QED
          BY <2>5, <5>2, <5>3
      <4>3. 1 \in 1..Len(seq) /\ j + 1 \in 1..Len(seq) /\ 1 < j + 1
        BY <2>1, <3>5
      <4>4. seq[1] < seq[j + 1]
        BY <4>3 DEF ListsLast, StrictlyIncreasing
      <4> QED
        BY <2>4, <3>5, <4>1, <4>2, <4>4
    <3> QED
      BY <3>3, <3>4, <3>5
  <2> HIDE DEF new, app
  <2>8. ListsLast(new, S \cup {x}, n)
    BY <1>4, <2>3, <2>6, <2>7 DEF ListsLast
  <2> QED
    BY <2>8 DEF new
<1> QED
  BY <1>1, <1>5, <1>6

\* Nobody but MLin writes the context of a quiet room, so a copy of it that MLin
\* holds is still what is in Redis.
ExactInv ==
    \A r \in Rooms : Quiet(r) =>
        /\ \A t \in Spoken : ListsLast(ctx[r][t], HandledIn(r, t), Limit(t))
        /\ cur["MLin"] # None /\ Polled("MLin", cur["MLin"]).room = r => mem["MLin"] = ctx[r]

\* A room that is quiet after a step was so before it.
LEMMA QuietBefore ==
    ASSUME TypeOK, Next, NEW r \in Rooms, Quiet(r)'
    PROVE  Quiet(r)
<1>0. "aiReq" \in Topics /\ "MLin" \in Services
  BY DEF Topics, Inputs, Services
<1>1. Len(log["aiReq"]) <= Len(log'["aiReq"]) /\ Len(log["aiReq"]) \in Nat
      /\ \A i \in 1..Len(log["aiReq"]) : log'["aiReq"][i] = log["aiReq"][i]
  BY <1>0, LogGrows
<1>2. \A i \in 1..Len(log["aiReq"]) : i \in 1..Len(log'["aiReq"])
  BY <1>0, <1>1, LogGrows
<1>3. \A i \in 1..Len(log["aiReq"]) : log["aiReq"][i].room # r
  BY <1>1, <1>2 DEF Quiet
<1>4. crashes' = crashes \/ \E s \in Services : crashes' = [crashes EXCEPT ![s] = crashes[s] + 1]
  BY DEF Next, Publish, MLinLoad, MLinSave, MLinSkipFile, MLoutAnswer, MLoutSave, MLoutSummarize,
         Deliver, DeliverUnacknowledged, LoseProduced, CommitArrives, Crash
<1>5. redisFaults' = redisFaults \/ redisFaults' = redisFaults + 1
  BY DEF Next, Publish, MLinLoad, MLinSave, MLinSkipFile, MLoutAnswer, MLoutSave, MLoutSummarize,
         Deliver, DeliverUnacknowledged, LoseProduced, CommitArrives, Crash, Load, Save
<1>6. crashes \in [Services -> Nat] /\ redisFaults \in Nat
  BY DEF TypeOK, Types
<1>7. crashes'["MLin"] = 0 /\ redisFaults' = 0
  BY DEF Quiet
<1>8. crashes["MLin"] = 0 /\ redisFaults = 0
  BY <1>0, <1>4, <1>5, <1>6, <1>7
<1> QED
  BY <1>3, <1>8 DEF Quiet

\* A step that leaves the context of a room alone and takes no part in what MLin
\* does keeps the room exact.
LEMMA ExactOther ==
    ASSUME TypeOK, ExactInv, Next, NEW r \in Rooms, Quiet(r), ctx'[r] = ctx[r],
           \A t \in Spoken : done'["MLin"][t] = done["MLin"][t],
           \/ cur'["MLin"] = None
           \/ cur'["MLin"] = cur["MLin"] /\ mem'["MLin"] = mem["MLin"] /\ done'["MLin"] = done["MLin"]
    PROVE  /\ \A t \in Spoken : ListsLast(ctx'[r][t], HandledIn(r, t)', Limit(t))
           /\ cur'["MLin"] # None /\ Polled("MLin", cur["MLin"])'.room = r => mem'["MLin"] = ctx'[r]
<1>0. "MLin" \in Services
  BY DEF Services
<1>1. ASSUME NEW t \in Spoken PROVE HandledIn(r, t)' = HandledIn(r, t)
  <2>1. t \in Topics
    BY DEF Spoken, Topics, Inputs
  <2>2. done["MLin"][t] \in Nat /\ done["MLin"][t] <= Len(log[t])
    BY <1>0, <2>1 DEF TypeOK, Types, OffsetsOrdered
  <2>3. \A i \in 1..done["MLin"][t] : i \in 1..Len(log[t]) /\ log'[t][i] = log[t][i]
    BY <2>1, <2>2, LogGrows
  <2> QED
    BY <2>3 DEF HandledIn
<1>2. \A t \in Spoken : ListsLast(ctx'[r][t], HandledIn(r, t)', Limit(t))
  BY <1>1 DEF ExactInv
<1>3. ASSUME cur'["MLin"] # None, Polled("MLin", cur["MLin"])'.room = r
      PROVE  mem'["MLin"] = ctx'[r]
  <2>1. cur'["MLin"] = cur["MLin"] /\ mem'["MLin"] = mem["MLin"] /\ done'["MLin"] = done["MLin"]
    BY <1>3
  <2>2. cur["MLin"] \in Topics /\ done["MLin"][cur["MLin"]] < Len(log[cur["MLin"]])
    BY <1>0, <1>3, <2>1, TopicFacts DEF TypeOK, HandlesNextMessage
  <2>3. done["MLin"][cur["MLin"]] + 1 \in 1..Len(log[cur["MLin"]])
    BY <1>0, <2>2, PolledType DEF TypeOK
  <2>4. Polled("MLin", cur["MLin"])' = Polled("MLin", cur["MLin"])
    BY <2>1, <2>2, <2>3, LogGrows DEF Polled
  <2> QED
    BY <1>3, <2>1, <2>4 DEF ExactInv
<1> QED
  BY <1>2, <1>3

\* MLin records the message it holds at the end of its list.
LEMMA ExactSave ==
    ASSUME TypeOK, ExactInv, NEW t \in Recorded, MLinSave(t), NEW r \in Rooms, Quiet(r), Quiet(r)'
    PROVE  /\ \A u \in Spoken : ListsLast(ctx'[r][u], HandledIn(r, u)', Limit(u))
           /\ cur'["MLin"] = None
<1> DEFINE m == Polled("MLin", t)
           n == done["MLin"][t]
           c == [mem["MLin"] EXCEPT ![t] = Remember(mem["MLin"][t], m.src, Limit(t))]
<1>0. /\ Types /\ "MLin" \in Services /\ t \in Topics
      /\ ctx \in [Rooms -> Context] /\ cur \in [Services -> Recorded \cup {None}]
      /\ done \in [Services -> [Topics -> Nat]] /\ redisFaults = 0 /\ n \in Nat
  BY TopicFacts DEF TypeOK, Types, Services, Quiet
<1>1. /\ cur["MLin"] = t /\ t # None /\ n < Len(log[t])
      /\ Save(m.room, c) /\ log' = log /\ redisFaults' = 0
      /\ done' = [done EXCEPT !["MLin"][t] = n + 1]
      /\ cur' = [cur EXCEPT !["MLin"] = None]
  BY <1>0, TopicFacts DEF MLinSave, TypeOK, HandlesNextMessage, Handled, Quiet
<1>2. m.room \in Rooms /\ m.src \in Positions /\ n + 1 \in 1..Len(log[t])
  BY <1>0, <1>1, PolledType
<1>3. m.room = r => mem["MLin"] = ctx[r]
  BY <1>1 DEF ExactInv
<1>10. PICK room \in Rooms : room = m.room
  BY <1>2
<1>4. /\ room # r => ctx'[r] = ctx[r]
      /\ room = r => ctx'[r] = [ctx[r] EXCEPT ![t] = Remember(ctx[r][t], m.src, Limit(t))]
  <2>1. ctx' = [ctx EXCEPT ![m.room] = c]
    BY <1>1, <1>0 DEF Save
  <2> QED
    BY <1>0, <1>3, <1>10, <2>1
<1>9. log' = log /\ done'["MLin"][t] = n + 1
  BY <1>0, <1>1
<1> HIDE DEF c
<1>5. ASSUME NEW u \in Spoken, ~(r = room /\ u = t)
      PROVE  ctx'[r][u] = ctx[r][u] /\ HandledIn(r, u)' = HandledIn(r, u)
  <2>0. u \in Recorded /\ u \in Topics /\ ctx[r] \in [Recorded -> Seq(Positions)]
    BY <1>0 DEF Spoken, Recorded, Topics, Inputs, Context
  <2>1. ctx'[r][u] = ctx[r][u]
    BY <1>4, <1>5, <2>0
  <2>2. CASE u # t
    <3>1. done'["MLin"][u] = done["MLin"][u]
      BY <1>0, <1>1, <2>0, <2>2
    <3> QED
      BY <1>1, <2>1, <3>1 DEF HandledIn
  <2>3. CASE u = t
    <3>1. log[t][n + 1].room # r
      BY <1>5, <1>10, <2>3 DEF Polled
    <3>2. HandledIn(r, t)' = {i \in 1..(n + 1) : log[t][i].room = r}
      BY <1>9 DEF HandledIn
    <3>3. 1..(n + 1) = (1..n) \cup {n + 1}
      BY <1>0
    <3>4. {i \in 1..(n + 1) : log[t][i].room = r} = {i \in 1..n : log[t][i].room = r}
      BY <3>1, <3>3
    <3> QED
      BY <2>1, <2>3, <3>2, <3>4 DEF HandledIn
  <2> QED
    BY <2>1, <2>2, <2>3
<1>6. ASSUME t \in Spoken, room = r
      PROVE  ListsLast(ctx'[r][t], HandledIn(r, t)', Limit(t))
  <2>1. m.src = n + 1
    BY <1>2, <1>6 DEF Polled, TypeOK, InputsNumbered, Spoken, Inputs
  <2>2. HandledIn(r, t)' = HandledIn(r, t) \cup {n + 1}
    <3>1. HandledIn(r, t)' = {i \in 1..(n + 1) : log[t][i].room = r}
      BY <1>9 DEF HandledIn
    <3>2. log[t][n + 1].room = r
      BY <1>6, <1>10 DEF Polled
    <3>3. 1..(n + 1) = (1..n) \cup {n + 1}
      BY <1>0
    <3> QED
      BY <3>1, <3>2, <3>3 DEF HandledIn
  <2>3. \A i \in HandledIn(r, t) : i < n + 1
    BY <1>0 DEF HandledIn
  <2>4. ctx[r] \in [Recorded -> Seq(Positions)] /\ Limit(t) \in Nat \ {0}
    BY <1>0, BoundsAssumption DEF Context, Limit
  <2>5. ListsLast(ctx[r][t], HandledIn(r, t), Limit(t))
    BY <1>6 DEF ExactInv
  <2>6. ctx'[r][t] = Remember(ctx[r][t], n + 1, Limit(t))
    BY <1>4, <1>6, <2>1, <2>4
  <2>8. ctx[r][t] \in Seq(Positions) /\ n + 1 \in Positions
    BY <1>2, <2>1, <2>4
  <2> HIDE DEF n, m
  <2>7. ListsLast(Remember(ctx[r][t], n + 1, Limit(t)), HandledIn(r, t) \cup {n + 1}, Limit(t))
    BY <2>3, <2>4, <2>5, <2>8, RememberListsLast
  <2> QED
    BY <2>2, <2>6, <2>7
<1> HIDE DEF m, n
<1>7. ASSUME NEW u \in Spoken
      PROVE  ListsLast(ctx'[r][u], HandledIn(r, u)', Limit(u))
  BY <1>5, <1>6 DEF ExactInv
<1>8. cur'["MLin"] = None
  BY <1>0, <1>1
<1> QED
  BY <1>7, <1>8

\* A step keeps a quiet room exact: MLout writes only where it was asked.
LEMMA ExactStep == TypeOK /\ ExactInv /\ [Next]_vars => ExactInv'
<1> DEFINE Exact(r) ==
             /\ \A t \in Spoken : ListsLast(ctx[r][t], HandledIn(r, t), Limit(t))
             /\ cur["MLin"] # None /\ Polled("MLin", cur["MLin"]).room = r => mem["MLin"] = ctx[r]
<1> SUFFICES ASSUME TypeOK, ExactInv, Next, NEW r \in Rooms, Quiet(r), Quiet(r)' PROVE Exact(r)'
  <2>1. CASE UNCHANGED vars
    BY <2>1 DEF vars, ExactInv, Quiet, HandledIn, Polled
  <2>2. CASE Next
    BY <2>2, QuietBefore DEF ExactInv
  <2> QED
    BY <2>1, <2>2
<1>0. /\ "MLin" \in Services /\ "MLout" \in Services /\ "aiReq" \in Topics
      /\ mem \in [Services -> Context] /\ cur \in [Services -> Recorded \cup {None}]
      /\ done \in [Services -> [Topics -> Nat]] /\ crashes \in [Services -> Nat]
      /\ ctx \in [Rooms -> Context]
  BY DEF TypeOK, Types, Services, Topics, Inputs
<1>1. ASSUME NEW t \in Recorded, MLinLoad(t) PROVE Exact(r)'
  <2>1. /\ cur' = [cur EXCEPT !["MLin"] = t] /\ UNCHANGED <<log, ctx, done>>
        /\ mem' = [mem EXCEPT !["MLin"] = ctx[Polled("MLin", t).room]]
    BY <1>1 DEF MLinLoad, Load, Quiet
  <2> QED
    BY <1>0, <2>1 DEF ExactInv, HandledIn, Polled
<1>2. ASSUME NEW t \in Recorded, MLinSave(t) PROVE Exact(r)'
  BY <1>2, ExactSave
<1>3. CASE MLinSkipFile
  <2>1. /\ UNCHANGED <<ctx, mem, cur>> /\ cur["MLin"] = None
        /\ done' = [done EXCEPT !["MLin"]["file"] = done["MLin"]["file"] + 1]
    BY <1>3 DEF MLinSkipFile, CanPoll, Handled
  <2>2. \A t \in Spoken : done'["MLin"][t] = done["MLin"][t]
    BY <1>0, <2>1 DEF Spoken
  <2> QED
    BY <2>1, <2>2, ExactOther
<1>4. CASE MLoutAnswer
  <2>1. /\ UNCHANGED <<ctx, done>> /\ cur'["MLin"] = cur["MLin"] /\ mem'["MLin"] = mem["MLin"]
    BY <1>0, <1>4 DEF MLoutAnswer, Load
  <2> QED
    BY <2>1, ExactOther
<1>5. CASE MLoutSave
  <2> DEFINE room == Polled("MLout", "aiReq").room
             n == done["MLout"]["aiReq"]
  <2>0. cur["MLout"] = "aiReq" /\ cur["MLout"] # None
    BY <1>5 DEF MLoutSave, None
  <2>1. n \in Nat /\ n < Len(log["aiReq"]) /\ Len(log["aiReq"]) \in Nat
    <3>1. n \in Nat
      BY <1>0
    <3>2. n < Len(log["aiReq"])
      BY <1>0, <2>0 DEF TypeOK, HandlesNextMessage
    <3>3. Len(log["aiReq"]) \in Nat
      BY <1>0, LenProperties DEF TypeOK, Types
    <3> QED
      BY <3>1, <3>2, <3>3
  <2>2. room # r
    <3>1. n + 1 \in 1..Len(log["aiReq"])
      BY <2>1
    <3> QED
      BY <3>1 DEF Quiet, Polled
  <2>3. ctx'[r] = ctx[r]
    BY <1>0, <1>5, <2>2 DEF MLoutSave, Save
  <2>4. /\ cur' = [cur EXCEPT !["MLout"] = None] /\ mem' = [mem EXCEPT !["MLout"] = EmptyContext]
        /\ done' = [done EXCEPT !["MLout"]["aiReq"] = n + 1]
    BY <1>5 DEF MLoutSave, Handled
  <2>5. cur'["MLin"] = cur["MLin"] /\ mem'["MLin"] = mem["MLin"] /\ done'["MLin"] = done["MLin"]
    BY <1>0, <2>4
  <2> HIDE DEF room, n
  <2> QED
    BY <2>3, <2>5, ExactOther
<1>6. CASE MLoutSummarize
  <2>1. /\ UNCHANGED <<ctx, mem, cur>>
        /\ done' = [done EXCEPT !["MLout"]["sumReq"] = done["MLout"]["sumReq"] + 1]
    BY <1>6 DEF MLoutSummarize, Handled
  <2>2. done'["MLin"] = done["MLin"]
    BY <1>0, <2>1
  <2> QED
    BY <2>1, <2>2, ExactOther
<1>7. ASSUME NEW s \in Services, Crash(s) PROVE Exact(r)'
  <2>1. s # "MLin"
    BY <1>0, <1>7 DEF Crash, Quiet
  <2>2. /\ UNCHANGED ctx /\ cur'["MLin"] = cur["MLin"] /\ mem'["MLin"] = mem["MLin"]
        /\ done'["MLin"] = done["MLin"]
    BY <1>0, <1>7, <2>1 DEF Crash
  <2> QED
    BY <2>2, ExactOther
<1>8. CASE UNCHANGED <<ctx, mem, cur, done>>
  BY <1>8, ExactOther
<1>9. \/ UNCHANGED <<ctx, mem, cur, done>>
      \/ \E t \in Recorded : MLinLoad(t) \/ MLinSave(t)
      \/ MLoutAnswer \/ MLoutSave \/ MLinSkipFile \/ MLoutSummarize
      \/ \E s \in Services : Crash(s)
  BY DEF Next, Publish, Deliver, DeliverUnacknowledged, LoseProduced, CommitArrives
<1> HIDE DEF Exact
<1> QED
  BY <1>1, <1>2, <1>3, <1>4, <1>5, <1>6, <1>7, <1>8, <1>9

\* As long as nobody asks the AI in a room and nothing fails, the context of the
\* room holds exactly the last messages MLin has handled, each kind up to its limit.
THEOREM HistoryExact == Spec => []HistoryExactWithoutAI
<1>1. Init => ExactInv
  <2> SUFFICES ASSUME Init PROVE ExactInv
    OBVIOUS
  <2>1. cur["MLin"] = None
    BY DEF Init, Services
  <2>2. ASSUME NEW r \in Rooms, NEW t \in Spoken
        PROVE  ListsLast(ctx[r][t], HandledIn(r, t), Limit(t))
    <3>1. ctx[r][t] = <<>>
      BY DEF Init, EmptyContext, Spoken, Recorded
    <3>2. done["MLin"][t] = 0
      BY DEF Init, Services, Spoken, Topics, Inputs
    <3>3. HandledIn(r, t) = {} /\ ToSet(<<>>) = {} /\ Len(<<>>) = 0
      BY <3>2 DEF HandledIn, ToSet
    <3>4. StrictlyIncreasing(<<>>)
      BY DEF StrictlyIncreasing
    <3> QED
      BY <3>1, <3>3, <3>4, LimitType DEF ListsLast
  <2> QED
    BY <2>1, <2>2 DEF ExactInv
<1>2. TypeOK /\ ExactInv /\ [Next]_vars => ExactInv'
  BY ExactStep
<1>3. ExactInv => HistoryExactWithoutAI
  BY DEF ExactInv, HistoryExactWithoutAI, Spoken
<1> QED
  BY <1>1, <1>2, <1>3, TypeCorrect, PTL DEF Spec

-----------------------------------------------------------------------------
(* Each message is replied to, and not too often *)

\* The messages of t that are begun have a reply, on its way or published.
RepliedInv(s, t, q) ==
    sendFaults = 0 /\ crashes[s] = 0 =>
        \A i \in 1..Begun(s, t) : log[t][i] \in Published(q)

\* A published or waiting reply stays one, unless the service restarts or a
\* message is lost.
LEMMA PublishedStays ==
    ASSUME TypeOK, NEW s, NEW t, NEW q, IsEcho(s, t, q), Moves(s, t, q),
           crashes'[s] = 0, sendFaults' = 0
    PROVE  /\ Published(q) \subseteq Published(q)'
           /\ crashes[s] = 0 /\ sendFaults = 0
<1>0. /\ log[t] \in Seq(Message) /\ log[q] \in Seq(Message) /\ outbox[q] \in Seq(Message)
      /\ crashes[s] \in Nat /\ sendFaults \in Nat
  BY EchoFacts DEF TypeOK, Types
<1>1. CASE Sends(s, t, q)
  <2>1. /\ outbox[q] # <<>> /\ log'[q] = Append(log[q], Head(outbox[q]))
        /\ outbox'[q] = Tail(outbox[q]) /\ sendFaults = 0 /\ crashes[s] = 0
    BY <1>0, <1>1 DEF Sends
  <2>2. ToSet(outbox[q]) = {Head(outbox[q])} \cup ToSet(Tail(outbox[q])) /\ Head(outbox[q]) \in Message
    BY <1>0, <2>1, HeadAndTail
  <2>3. ToSet(log'[q]) = ToSet(log[q]) \cup {Head(outbox[q])}
    BY <1>0, <2>1, <2>2, AppendToSet
  <2> QED
    BY <2>1, <2>2, <2>3 DEF Published
<1>2. CASE Replies(s, t, q)
  <2>1. log[t][Begun(s, t) + 1] \in Message
    BY <1>0, <1>2, EchoFacts, BegunType DEF Replies
  <2>2. ToSet(outbox'[q]) = ToSet(outbox[q]) \cup {log[t][Begun(s, t) + 1]}
    BY <1>0, <1>2, <2>1, AppendToSet DEF Replies
  <2> QED
    BY <1>2, <2>2 DEF Published, Replies
<1>3. CASE Comes(s, t, q) \/ Rests(s, t, q)
  BY <1>0, <1>3 DEF Comes, Rests, Published
<1>4. CASE Restarts(s, t, q)
  BY <1>0, <1>4 DEF Restarts
<1> QED
  BY <1>1, <1>2, <1>3, <1>4 DEF Moves

\* A message that is begun keeps its reply, and the next one begun gets one.
LEMMA RepliedStep ==
    ASSUME TypeOK, NEW s, NEW t, NEW q, IsEcho(s, t, q), Moves(s, t, q), RepliedInv(s, t, q)
    PROVE  RepliedInv(s, t, q)'
<1> SUFFICES ASSUME sendFaults' = 0, crashes'[s] = 0, NEW i \in 1..Begun(s, t)'
             PROVE  log'[t][i] \in Published(q)'
  BY DEF RepliedInv
<1>0. /\ log[t] \in Seq(Message) /\ outbox[q] \in Seq(Message)
      /\ Begun(s, t) \in Nat /\ Begun(s, t) <= Len(log[t]) /\ Len(log[t]) \in Nat
  BY EchoFacts, BegunType DEF TypeOK, Types
<1>1. Published(q) \subseteq Published(q)' /\ crashes[s] = 0 /\ sendFaults = 0
  BY PublishedStays
<1>2. \A j \in 1..Begun(s, t) : log[t][j] \in Published(q)'
  BY <1>1 DEF RepliedInv
<1>3. CASE Replies(s, t, q)
  <2>1. Begun(s, t)' = Begun(s, t) + 1 /\ log'[t] = log[t]
    BY <1>3 DEF Replies
  <2>2. CASE i \in 1..Begun(s, t)
    BY <1>2, <2>1, <2>2
  <2>3. CASE i = Begun(s, t) + 1
    <3>1. log[t][i] \in Message
      BY <1>0, <1>3, <2>3 DEF Replies
    <3>2. ToSet(outbox'[q]) = ToSet(outbox[q]) \cup {log[t][i]}
      BY <1>0, <1>3, <2>3, <3>1, AppendToSet DEF Replies
    <3> QED
      BY <2>1, <3>2 DEF Published
  <2> QED
    BY <1>0, <2>1, <2>2, <2>3
<1>4. CASE Comes(s, t, q)
  <2>1. PICK m \in Message : log'[t] = Append(log[t], m)
    BY <1>4 DEF Comes
  <2>2. i \in 1..Begun(s, t) /\ i \in 1..Len(log[t])
    BY <1>0, <1>4 DEF Comes
  <2>3. log'[t][i] = log[t][i]
    BY <1>0, <2>1, <2>2
  <2> QED
    BY <1>2, <2>2, <2>3
<1>5. CASE Sends(s, t, q) \/ Rests(s, t, q)
  BY <1>2, <1>5 DEF Sends, Rests
<1>6. CASE Restarts(s, t, q)
  <2>1. crashes[s] \in Nat
    BY EchoFacts DEF TypeOK, Types
  <2> QED
    BY <1>6, <2>1 DEF Restarts
<1> QED
  BY <1>3, <1>4, <1>5, <1>6 DEF Moves

AllReplied ==
    /\ RepliedInv("MLout", "aiReq", "aiResp") /\ RepliedInv("MLout", "sumReq", "sumResp")
    /\ RepliedInv("MLin", "voice", "transcript")

\* Unless its service restarts or a producer loses a message, nothing a service
\* has moved past is left without a reply.
THEOREM NothingIsPassedOver == Spec => []NothingPassedOver
<1>1. Init => AllReplied
  BY NothingBegun, ThreeEchoes DEF AllReplied, RepliedInv
<1>2. TypeOK /\ AllReplied /\ [Next]_vars => AllReplied'
  <2>1. CASE UNCHANGED vars
    BY <2>1 DEF vars, AllReplied, RepliedInv, Begun, Published
  <2>2. ASSUME TypeOK, AllReplied, Next PROVE AllReplied'
    BY <2>2, ThreeEchoes, EchoMoves, RepliedStep DEF AllReplied
  <2> QED
    BY <2>1, <2>2
<1>3. TypeOK /\ AllReplied => NothingPassedOver
  <2>1. ASSUME TypeOK, NEW s, NEW t, NEW q, IsEcho(s, t, q), RepliedInv(s, t, q),
               sendFaults = 0, crashes[s] = 0
        PROVE  RepliedTo(s, t, q)
    <3>1. done[s][t] <= Begun(s, t) /\ done[s][t] \in Nat /\ Begun(s, t) \in Nat
      BY <2>1, EchoFacts, BegunType
    <3> QED
      BY <2>1, <3>1 DEF RepliedTo, RepliedInv
  <2> QED
    BY <2>1, ThreeEchoes DEF AllReplied, NothingPassedOver
<1> QED
  BY <1>1, <1>2, <1>3, TypeCorrect, PTL DEF Spec

-----------------------------------------------------------------------------
\* How often m is in seq.
Count(seq, m) == Cardinality({j \in 1..Len(seq) : seq[j] = m})

\* A message is counted by a natural number, by 0 where it is absent.
LEMMA CountType ==
    ASSUME NEW S, NEW seq \in Seq(S), NEW m
    PROVE  /\ IsFiniteSet({j \in 1..Len(seq) : seq[j] = m}) /\ Count(seq, m) \in Nat
           /\ m \notin ToSet(seq) => Count(seq, m) = 0
<1> DEFINE at == {j \in 1..Len(seq) : seq[j] = m}
<1>1. at \in SUBSET (1..Len(seq)) /\ Len(seq) \in Nat
  OBVIOUS
<1>2. IsFiniteSet(1..Len(seq))
  BY <1>1, FS_Interval
<1>3. IsFiniteSet(at)
  BY <1>1, <1>2, FS_Subset
<1>4. m \notin ToSet(seq) => at = {}
  BY DEF ToSet
<1> QED
  BY <1>3, <1>4, FS_CardinalityType, FS_EmptySet DEF Count

\* Appending a message counts one more of it.
LEMMA CountAppend ==
    ASSUME NEW S, NEW seq \in Seq(S), NEW x \in S, NEW m
    PROVE  Count(Append(seq, x), m) = Count(seq, m) + (IF x = m THEN 1 ELSE 0)
<1> DEFINE new == Append(seq, x)
           at == {j \in 1..Len(seq) : seq[j] = m}
           newAt == {j \in 1..Len(new) : new[j] = m}
<1>1. /\ Len(seq) \in Nat /\ Len(new) = Len(seq) + 1 /\ new[Len(seq) + 1] = x
      /\ \A j \in 1..Len(seq) : new[j] = seq[j]
  OBVIOUS
<1>2. IsFiniteSet(at) /\ Cardinality(at) \in Nat
  BY CountType DEF Count
<1>6. Count(seq, m) = Cardinality(at) /\ Count(Append(seq, x), m) = Cardinality(newAt)
  BY DEF Count
<1> HIDE DEF new
<1>3. 1..(Len(seq) + 1) = (1..Len(seq)) \cup {Len(seq) + 1} /\ Len(seq) + 1 \notin 1..Len(seq)
  BY <1>1
<1>4. CASE x = m
  <2>1. newAt = at \cup {Len(seq) + 1} /\ Len(seq) + 1 \notin at
    BY <1>1, <1>3, <1>4
  <2>2. Cardinality(newAt) = Cardinality(at) + 1
    BY <1>2, <2>1, FS_AddElement
  <2> QED
    BY <1>4, <1>6, <2>2
<1>5. CASE x # m
  <2>1. newAt = at
    BY <1>1, <1>3, <1>5
  <2> HIDE DEF at, newAt
  <2> QED
    BY <1>2, <1>5, <1>6, <2>1
<1> QED
  BY <1>4, <1>5

\* Taking the first message of a sequence away counts one less of it.
LEMMA CountTail ==
    ASSUME NEW S, NEW seq \in Seq(S), seq # <<>>, NEW m
    PROVE  Count(Tail(seq), m) + (IF Head(seq) = m THEN 1 ELSE 0) = Count(seq, m)
<1> DEFINE rest == Tail(seq)
           at == {j \in 1..Len(seq) : seq[j] = m}
           restAt == {j \in 1..Len(rest) : rest[j] = m}
           moved == {j \in at : j # 1}
<1>1. /\ rest \in Seq(S) /\ Len(seq) \in Nat \ {0} /\ Len(rest) = Len(seq) - 1
      /\ Head(seq) = seq[1] /\ \A j \in 1..Len(rest) : rest[j] = seq[j + 1]
  OBVIOUS
<1>6. Count(seq, m) = Cardinality(at) /\ Count(Tail(seq), m) = Cardinality(restAt)
  BY DEF Count
<1> HIDE DEF rest
<1>2. IsFiniteSet(at) /\ Cardinality(at) \in Nat /\ IsFiniteSet(restAt) /\ Cardinality(restAt) \in Nat
  BY <1>1, CountType DEF Count
<1>3. Cardinality(moved) = Cardinality(restAt)
  <2> DEFINE f == [j \in restAt |-> j + 1]
  <2>1. \A j \in restAt : j + 1 \in moved
    BY <1>1
  <2>2. ASSUME NEW k \in moved PROVE \E j \in restAt : f[j] = k
    <3>1. k - 1 \in 1..Len(rest) /\ (k - 1) + 1 = k
      BY <1>1
    <3>2. k - 1 \in restAt
      BY <1>1, <3>1
    <3> QED
      BY <3>1, <3>2
  <2>3. \A i, j \in restAt : f[i] = f[j] => i = j
    OBVIOUS
  <2>4. f \in [restAt -> moved]
    BY <2>1
  <2> HIDE DEF f
  <2>5. f \in Bijection(restAt, moved)
    BY <2>2, <2>3, <2>4 DEF Bijection, Injection, Surjection, IsInjective
  <2>6. ExistsBijection(restAt, moved)
    BY <2>5 DEF ExistsBijection
  <2> QED
    BY <1>2, <2>6, FS_Bijection
<1>4. CASE Head(seq) = m
  <2>1. 1 \in at /\ moved = at \ {1}
    BY <1>1, <1>4
  <2>2. Cardinality(moved) = Cardinality(at) - 1
    BY <1>2, <2>1, FS_RemoveElement
  <2> QED
    BY <1>2, <1>3, <1>4, <1>6, <2>2
<1>5. CASE Head(seq) # m
  <2>1. moved = at
    BY <1>1, <1>5
  <2> HIDE DEF at, restAt, moved
  <2> QED
    BY <1>2, <1>3, <1>5, <1>6, <2>1
<1> QED
  BY <1>4, <1>5

\* Replies stem from messages of t, and each message has at most one reply if it
\* is begun, and one for each restart of the service and each failed send.
RepeatsInv(s, t, q) ==
    /\ Published(q) \subseteq ToSet(log[t])
    /\ \A i \in 1..Len(log[t]) :
          Count(log[q], log[t][i]) + Count(outbox[q], log[t][i])
            <= crashes[s] + sendFaults + (IF i <= Begun(s, t) THEN 1 ELSE 0)

\* A reply counts once, or is paid for by a restart or a failed send.
LEMMA RepeatsStep ==
    ASSUME TypeOK, NEW s, NEW t, NEW q, IsEcho(s, t, q), Moves(s, t, q), RepeatsInv(s, t, q)
    PROVE  RepeatsInv(s, t, q)'
<1>0. /\ log[t] \in Seq(Message) /\ log[q] \in Seq(Message) /\ outbox[q] \in Seq(Message)
      /\ Begun(s, t) \in Nat /\ Begun(s, t) <= Len(log[t]) /\ Len(log[t]) \in Nat
      /\ crashes[s] \in Nat /\ sendFaults \in Nat
  BY EchoFacts, BegunType DEF TypeOK, Types
<1>1. (Published(q) \subseteq ToSet(log[t]))'
  BY StemsStep DEF RepeatsInv
<1> DEFINE L(m) == Count(log[q], m)
           O(m) == Count(outbox[q], m)
           NewL(m) == Count(log'[q], m)
           NewO(m) == Count(outbox'[q], m)
           One(i) == IF i <= Begun(s, t) THEN 1 ELSE 0
           NewOne(i) == IF i <= Begun(s, t)' THEN 1 ELSE 0
<1>2. \A m : L(m) \in Nat /\ O(m) \in Nat
  BY <1>0, CountType
<1>3. \A i \in 1..Len(log[t]) : L(log[t][i]) + O(log[t][i]) <= crashes[s] + sendFaults + One(i)
  BY DEF RepeatsInv
<1> SUFFICES ASSUME NEW i \in 1..Len(log'[t])
             PROVE  NewL(log'[t][i]) + NewO(log'[t][i]) <= crashes'[s] + sendFaults' + NewOne(i)
  BY <1>1 DEF RepeatsInv
<1> HIDE DEF L, O, NewL, NewO
<1>4. CASE Comes(s, t, q)
  <2>1. PICK m \in Message : m.src = Len(log[t]) + 1 /\ log'[t] = Append(log[t], m)
    BY <1>4 DEF Comes
  <2>2. \A x : NewL(x) = L(x) /\ NewO(x) = O(x)
    BY <1>4 DEF Comes, L, O, NewL, NewO
  <2>3. NewOne(i) = One(i) /\ crashes'[s] = crashes[s] /\ sendFaults' = sendFaults
    BY <1>4 DEF Comes
  <2>4. CASE i \in 1..Len(log[t])
    <3>1. log'[t][i] = log[t][i]
      BY <1>0, <2>1, <2>4
    <3> QED
      BY <1>3, <2>2, <2>3, <2>4, <3>1
  <2>5. CASE i \notin 1..Len(log[t])
    <3>1. log'[t][i] = m
      BY <1>0, <2>1, <2>5
    <3>2. m \notin ToSet(log[t])
      <4>1. ASSUME NEW j \in 1..Len(log[t]) PROVE log[t][j] # m
        BY <1>0, <2>1, EchoFacts DEF TypeOK, InputsNumbered
      <4>2. DOMAIN log[t] = 1..Len(log[t])
        BY <1>0
      <4> QED
        BY <4>1, <4>2 DEF ToSet
    <3>3. L(m) = 0 /\ O(m) = 0
      BY <1>0, <3>2, CountType DEF RepeatsInv, Published, L, O
    <3>4. One(i) \in Nat
      OBVIOUS
    <3> HIDE DEF One, NewOne
    <3> QED
      BY <1>0, <2>2, <2>3, <3>1, <3>3, <3>4
  <2> QED
    BY <2>4, <2>5
<1>5. CASE Replies(s, t, q)
  <2> DEFINE k == Begun(s, t) + 1
             x == log[t][k]
  <2>1. /\ log'[t] = log[t] /\ k \in 1..Len(log[t]) /\ x \in Message
        /\ crashes'[s] = crashes[s] /\ sendFaults' = sendFaults /\ Begun(s, t)' = k
    BY <1>0, <1>5 DEF Replies
  <2>2. \A m : NewL(m) = L(m)
    BY <1>5 DEF Replies, L, NewL
  <2>3. NewO(log[t][i]) = O(log[t][i]) + (IF x = log[t][i] THEN 1 ELSE 0)
    <3>1. outbox'[q] = Append(outbox[q], x)
      BY <1>5 DEF Replies
    <3> HIDE DEF x
    <3> QED
      BY <1>0, <2>1, <3>1, CountAppend DEF O, NewO
  <2>4. x = log[t][i] <=> i = k
    <3>1. log[t][i].src = i /\ log[t][k].src = k
      BY <2>1, EchoFacts DEF TypeOK, InputsNumbered
    <3> QED
      BY <3>1
  <2>5. L(log[t][i]) + O(log[t][i]) <= crashes[s] + sendFaults + One(i)
    BY <1>3, <2>1
  <2>6. NewOne(i) = One(i) + (IF i = k THEN 1 ELSE 0)
    BY <1>0, <2>1
  <2>7. One(i) \in Nat
    OBVIOUS
  <2> HIDE DEF k, x, One, NewOne
  <2> QED
    BY <1>0, <1>2, <2>1, <2>2, <2>3, <2>4, <2>5, <2>6, <2>7
<1>6. CASE Sends(s, t, q)
  <2> DEFINE m == log[t][i]
             x == Head(outbox[q])
             eq == IF x = m THEN 1 ELSE 0
  <2>1. /\ outbox[q] # <<>> /\ log'[t] = log[t] /\ crashes'[s] = crashes[s]
        /\ NewOne(i) = One(i)
    BY <1>6 DEF Sends
  <2>2. x \in Message
    BY <1>0, <2>1, HeadAndTail
  <2>3. Count(Append(log[q], x), m) = L(m) + eq
    <3> HIDE DEF x
    <3> QED BY <1>0, <2>2, CountAppend DEF L
  <2>4. Count(Tail(outbox[q]), m) + eq = O(m)
    BY <1>0, <2>1, CountTail DEF O
  <2>5. L(m) + O(m) <= crashes[s] + sendFaults + One(i)
    BY <1>3, <2>1
  <2>6. /\ eq \in {0, 1} /\ One(i) \in Nat
        /\ Count(Tail(outbox[q]), m) \in Nat
    <3>1. Tail(outbox[q]) \in Seq(Message)
      BY <1>0, <2>1
    <3> QED
      BY <3>1, CountType
  <2>7. \/ /\ NewL(m) = Count(Append(log[q], x), m)
           /\ NewO(m) = Count(Tail(outbox[q]), m) /\ sendFaults' = sendFaults
        \/ /\ NewL(m) = Count(Append(log[q], x), m)
           /\ NewO(m) = O(m) /\ sendFaults' = sendFaults + 1
        \/ /\ NewL(m) = L(m)
           /\ NewO(m) = Count(Tail(outbox[q]), m) /\ sendFaults' = sendFaults + 1
    BY <1>6 DEF Sends, L, O, NewL, NewO
  <2>8. log'[t][i] = m
    BY <2>1
  <2>9. L(m) \in Nat /\ O(m) \in Nat
    BY <1>2
  <2> HIDE DEF m, x, eq, One, NewOne
  <2>10. PICK lost \in Nat : lost = crashes[s] + sendFaults /\ lost \in Nat
    BY <1>0
  <2>11. PICK one \in Nat : one = One(i)
    BY <2>6
  <2>12. PICK l \in Nat, o \in Nat, rest \in Nat :
           l = L(m) /\ o = O(m) /\ rest = Count(Tail(outbox[q]), m)
    BY <2>6, <2>9
  <2>13. l + o <= lost + one /\ rest + eq = o
    BY <2>4, <2>5, <2>10, <2>11, <2>12
  <2>14. NewL(m) + NewO(m) <= crashes'[s] + sendFaults' + one
    <3>0. rest <= o
      BY <2>6, <2>13
    <3> DEFINE after == crashes'[s] + sendFaults'
    <3>a. PICK c \in Nat, f \in Nat : c = crashes[s] /\ f = sendFaults
      BY <1>0
    <3>b. lost = c + f /\ crashes'[s] = c
      BY <2>1, <2>10, <3>a
    <3>1. sendFaults' = sendFaults => after = lost
      BY <3>a, <3>b
    <3>2. sendFaults' = sendFaults + 1 => after = lost + 1
      <4>1. ASSUME sendFaults' = f + 1 PROVE crashes'[s] + sendFaults' = lost + 1
        BY <3>b, <4>1
      <4> QED
        BY <3>a, <4>1
    <3> HIDE DEF after
    <3>3. NewL(m) = l + eq /\ NewO(m) = rest /\ sendFaults' = sendFaults
          => NewL(m) + NewO(m) <= after + one
      BY <2>6, <2>13, <3>1
    <3>4. NewL(m) = l + eq /\ NewO(m) = o /\ sendFaults' = sendFaults + 1
          => NewL(m) + NewO(m) <= after + one
      BY <2>6, <2>13, <3>2
    <3>5. NewL(m) = l /\ NewO(m) = rest /\ sendFaults' = sendFaults + 1
          => NewL(m) + NewO(m) <= after + one
      BY <2>13, <3>0, <3>2
    <3> QED
      <4>1. NewL(m) + NewO(m) <= after + one
        BY <2>3, <2>7, <2>12, <3>3, <3>4, <3>5
      <4> QED
        BY <4>1 DEF after
  <2> QED
    BY <2>1, <2>8, <2>11, <2>14
<1>7. CASE Restarts(s, t, q)
  <2>1. /\ log'[t] = log[t] /\ crashes'[s] = crashes[s] + 1 /\ sendFaults' = sendFaults
        /\ outbox'[q] = <<>>
    BY <1>7 DEF Restarts
  <2>2. NewO(log[t][i]) = 0
    <3>1. <<>> \in Seq(Message) /\ log[t][i] \notin ToSet(<<>>)
      BY DEF ToSet
    <3> QED
      BY <2>1, <3>1, CountType DEF NewO
  <2>3. NewL(log[t][i]) = L(log[t][i])
    BY <1>7 DEF Restarts, L, NewL
  <2>4. L(log[t][i]) + O(log[t][i]) <= crashes[s] + sendFaults + One(i)
    BY <1>3, <2>1
  <2>5. One(i) \in {0, 1} /\ NewOne(i) \in {0, 1}
    OBVIOUS
  <2> HIDE DEF One, NewOne
  <2> QED
    BY <1>0, <1>2, <2>1, <2>2, <2>3, <2>4, <2>5
<1>8. CASE Rests(s, t, q)
  <2>1. /\ log'[t] = log[t] /\ crashes'[s] = crashes[s] /\ NewOne(i) = One(i)
        /\ sendFaults' \in Nat /\ sendFaults <= sendFaults'
    BY <1>8 DEF Rests
  <2>2. NewL(log[t][i]) = L(log[t][i]) /\ NewO(log[t][i]) = O(log[t][i])
    BY <1>8 DEF Rests, L, O, NewL, NewO
  <2>3. L(log[t][i]) + O(log[t][i]) <= crashes[s] + sendFaults + One(i)
    BY <1>3, <2>1
  <2>4. One(i) \in Nat
    OBVIOUS
  <2> HIDE DEF One, NewOne
  <2> QED
    BY <1>0, <1>2, <2>1, <2>2, <2>3, <2>4
<1> QED
  BY <1>4, <1>5, <1>6, <1>7, <1>8 DEF Moves

AllRepeats ==
    /\ RepeatsInv("MLout", "aiReq", "aiResp") /\ RepeatsInv("MLin", "voice", "transcript")

\* Each question is answered, and each line transcribed, at most once, plus once
\* for each restart of the service and each failed send.
LEMMA RepliesAreBounded == Spec => [](AllRepeats /\ RepliesBounded)
<1>1. Init => AllRepeats
  <2>1. ASSUME Init, NEW s, NEW t, NEW q, IsEcho(s, t, q) PROVE RepeatsInv(s, t, q)
    <3>1. log[t] = <<>> /\ Published(q) = {}
      BY <2>1, NothingBegun DEF Published, ToSet
    <3> QED
      BY <3>1 DEF RepeatsInv
  <2> QED
    BY <2>1, ThreeEchoes DEF AllRepeats
<1>2. TypeOK /\ AllRepeats /\ [Next]_vars => AllRepeats'
  <2>1. CASE UNCHANGED vars
    BY <2>1 DEF vars, AllRepeats, RepeatsInv, Begun, Published, Count
  <2>2. ASSUME TypeOK, AllRepeats, Next PROVE AllRepeats'
    BY <2>2, ThreeEchoes, EchoMoves, RepeatsStep DEF AllRepeats
  <2> QED
    BY <2>1, <2>2
<1>3. TypeOK /\ AllRepeats => RepliesBounded
  <2>1. ASSUME TypeOK, NEW s, NEW t, NEW q, IsEcho(s, t, q), RepeatsInv(s, t, q),
               NEW i \in 1..Len(log[t])
        PROVE  Copies(t, i, q) <= 1 + crashes[s] + sendFaults
    <3>1. /\ log[q] \in Seq(Message) /\ outbox[q] \in Seq(Message)
          /\ crashes[s] \in Nat /\ sendFaults \in Nat
      BY <2>1, EchoFacts DEF TypeOK, Types
    <3>2. Count(log[q], log[t][i]) \in Nat /\ Count(outbox[q], log[t][i]) \in Nat
      BY <3>1, CountType
    <3>3. Copies(t, i, q) = Count(log[q], log[t][i])
      BY DEF Copies, Count
    <3>4. Count(log[q], log[t][i]) + Count(outbox[q], log[t][i])
            <= crashes[s] + sendFaults + (IF i <= Begun(s, t) THEN 1 ELSE 0)
      BY <2>1 DEF RepeatsInv
    <3> QED
      BY <3>1, <3>2, <3>3, <3>4
  <2> QED
    BY <2>1, ThreeEchoes DEF AllRepeats, RepliesBounded
<1> QED
  BY <1>1, <1>2, <1>3, TypeCorrect, PTL DEF Spec
-----------------------------------------------------------------------------
(* Contexts stay short *)

\* Remembering keeps at most n entries.
LEMMA RememberShort ==
    ASSUME NEW seq \in Seq(Positions), NEW x \in Positions, NEW n \in Nat
    PROVE  Len(Remember(seq, x, n)) <= n
<1> DEFINE app == Append(seq, x)
<1>1. app \in Seq(Positions) /\ Len(app) \in Nat
  OBVIOUS
<1> HIDE DEF app
<1>2. CASE Len(app) <= n
  BY <1>1, <1>2 DEF Remember, LastN, app
<1>3. CASE ~(Len(app) <= n)
  <2>1. Len(SubSeq(app, Len(app) - n + 1, Len(app))) = n
    BY <1>1, <1>3, SubSeqProperties
  <2> QED
    BY <1>3, <2>1 DEF Remember, LastN, app
<1> QED
  BY <1>2, <1>3

\* Documents and the copies of them are within the bounds.
Short(c) == \A t \in Recorded : Len(c[t]) <= Bound(t)

ShortInv == (\A r \in Rooms : Short(ctx[r])) /\ (\A s \in Services : Short(mem[s]))

LEMMA BoundFacts ==
    /\ \A t \in Recorded : Limit(t) \in Nat /\ Bound(t) \in Nat /\ Limit(t) <= Bound(t)
    /\ MaxDialogue \in Nat
    /\ MaxDialogue <= Bound("aiReq") /\ MaxDialogue <= Bound("aiResp")
BY BoundsAssumption DEF Limit, Bound

LEMMA ShortEmpty == Short(EmptyContext)
BY BoundFacts DEF Short, EmptyContext

\* A copy with an entry more, cut at a limit within the bound, is short.
LEMMA ShortRemember ==
    ASSUME NEW c \in Context, Short(c), NEW t \in Recorded, NEW x \in Positions,
           NEW n \in Nat, n <= Bound(t)
    PROVE  /\ [c EXCEPT ![t] = Remember(@, x, n)] \in Context
           /\ Short([c EXCEPT ![t] = Remember(@, x, n)])
<1>1. c[t] \in Seq(Positions) /\ Remember(c[t], x, n) \in Seq(Positions)
  BY RememberAdds DEF Context
<1>2. Len(Remember(c[t], x, n)) \in Nat /\ Len(Remember(c[t], x, n)) <= n
  BY <1>1, RememberShort, LenProperties
<1>3. Len(Remember(c[t], x, n)) <= Bound(t)
  BY <1>2, BoundFacts
<1>4. [c EXCEPT ![t] = Remember(@, x, n)] \in Context
  BY <1>1 DEF Context
<1>5. Short([c EXCEPT ![t] = Remember(@, x, n)])
  BY <1>3 DEF Short, Context
<1> QED
  BY <1>4, <1>5

\* What a service saves, or loads, is short.
LEMMA ShortSave ==
    ASSUME NEW room \in Rooms, NEW c, Short(c), Save(room, c), TypeOK, ShortInv
    PROVE  \A r \in Rooms : Short(ctx'[r])
BY DEF Save, ShortInv, TypeOK, Types

LEMMA ShortStep ==
    ASSUME TypeOK, ShortInv, Next
    PROVE  ShortInv'
<1>0. /\ "MLin" \in Services /\ "MLout" \in Services /\ "aiReq" \in Recorded /\ "aiResp" \in Recorded
      /\ "aiReq" \in Topics /\ Recorded \subseteq Topics
      /\ mem \in [Services -> Context] /\ ctx \in [Rooms -> Context]
      /\ "aiReq" # None
  BY DEF TypeOK, Types, Services, Recorded, Topics, Inputs, Outputs, None
<1>1. ASSUME NEW s \in Services, NEW r \in Rooms, Load(s, r)
      PROVE  \A p \in Services : Short(mem'[p])
  BY <1>0, <1>1, ShortEmpty DEF Load, ShortInv
<1>2. ASSUME NEW s \in Services, mem' = [mem EXCEPT ![s] = EmptyContext]
      PROVE  \A p \in Services : Short(mem'[p])
  BY <1>0, <1>2, ShortEmpty DEF ShortInv
<1>3. ASSUME NEW s \in Services, NEW t \in Topics, done[s][t] < Len(log[t])
      PROVE  Polled(s, t).room \in Rooms /\ Polled(s, t).src \in Positions
  BY <1>3, PolledType DEF TypeOK
<1>4. ASSUME NEW t \in Recorded, MLinLoad(t) PROVE ShortInv'
  <2>1. /\ Load("MLin", Polled("MLin", t).room) /\ ctx' = ctx
        /\ done["MLin"][t] < Len(log[t])
    BY <1>4 DEF MLinLoad, CanPoll
  <2> QED
    BY <1>0, <1>1, <1>3, <2>1 DEF ShortInv, Short
<1>5. ASSUME NEW t \in Recorded, MLinSave(t) PROVE ShortInv'
  <2> DEFINE m == Polled("MLin", t)
             c == [mem["MLin"] EXCEPT ![t] = Remember(@, m.src, Limit(t))]
  <2>1. /\ Save(m.room, c) /\ mem' = [mem EXCEPT !["MLin"] = EmptyContext]
        /\ cur["MLin"] = t
    BY <1>5 DEF MLinSave
  <2>2. done["MLin"][t] < Len(log[t])
    BY <1>0, <2>1, TopicFacts DEF TypeOK, HandlesNextMessage
  <2>3. m.room \in Rooms /\ m.src \in Positions
    BY <1>0, <1>3, <2>2
  <2>4. Short(c)
    BY <1>0, <2>3, ShortRemember, BoundFacts DEF ShortInv
  <2> HIDE DEF m, c
  <2> QED
    BY <1>0, <1>2, <2>1, <2>3, <2>4, ShortSave DEF ShortInv, Short
<1>6. CASE MLoutAnswer
  <2>1. /\ Load("MLout", Polled("MLout", "aiReq").room) /\ ctx' = ctx
        /\ done["MLout"]["aiReq"] < Len(log["aiReq"])
    BY <1>6 DEF MLoutAnswer, CanPoll
  <2> QED
    BY <1>0, <1>1, <1>3, <2>1 DEF ShortInv, Short
<1>7. CASE MLoutSave
  <2> DEFINE m == Polled("MLout", "aiReq")
             b == [mem["MLout"] EXCEPT !["aiReq"] = Remember(@, m.src, MaxDialogue)]
             c == [b EXCEPT !["aiResp"] = Remember(@, m.src, MaxDialogue)]
  <2>1. /\ Save(m.room, c) /\ mem' = [mem EXCEPT !["MLout"] = EmptyContext]
        /\ cur["MLout"] = "aiReq"
    BY <1>7 DEF MLoutSave
  <2>2. done["MLout"]["aiReq"] < Len(log["aiReq"])
    BY <1>0, <2>1 DEF TypeOK, HandlesNextMessage
  <2>3. m.room \in Rooms /\ m.src \in Positions
    BY <1>0, <1>3, <2>2
  <2>4. b \in Context /\ Short(b)
    BY <1>0, <2>3, ShortRemember, BoundFacts DEF ShortInv
  <2> HIDE DEF b
  <2>5. Short(c)
    BY <1>0, <2>3, <2>4, ShortRemember, BoundFacts
  <2> HIDE DEF m, c
  <2> QED
    BY <1>0, <1>2, <2>1, <2>3, <2>5, ShortSave DEF ShortInv, Short
<1>8. ASSUME NEW s \in Services, Crash(s) PROVE ShortInv'
  BY <1>0, <1>2, <1>8 DEF Crash, ShortInv, Short
<1>9. CASE UNCHANGED <<ctx, mem>>
  BY <1>9 DEF ShortInv, Short
<1>10. \/ UNCHANGED <<ctx, mem>>
       \/ \E t \in Recorded : MLinLoad(t) \/ MLinSave(t)
       \/ MLoutAnswer \/ MLoutSave
       \/ \E s \in Services : Crash(s)
  BY DEF Next, Publish, Deliver, DeliverUnacknowledged, LoseProduced, CommitArrives,
         MLinSkipFile, MLoutSummarize
<1> QED
  BY <1>4, <1>5, <1>6, <1>7, <1>8, <1>9, <1>10

\* No list of a context grows beyond its bound, whichever service writes last
\* and with whatever limit of its own.
THEOREM ContextsStayShort == Spec => []ContextsBounded
<1>1. Init => ShortInv
  BY ShortEmpty DEF Init, ShortInv
<1>2. TypeOK /\ ShortInv /\ [Next]_vars => ShortInv'
  BY ShortStep DEF vars, ShortInv, Short
<1>3. ShortInv => ContextsBounded
  BY DEF ShortInv, Short, ContextsBounded
<1> QED
  BY <1>1, <1>2, <1>3, TypeCorrect, PTL DEF Spec

-----------------------------------------------------------------------------
(* What the context lists of a question *)

Dialogue == {"aiReq", "aiResp"}

NoFailure == sendFaults = 0 /\ \A s \in Services : crashes[s] = 0

\* Remembering lists an entry once more at most, and no other more often.
LEMMA CountRemember ==
    ASSUME NEW seq \in Seq(Positions), NEW x \in Positions, NEW n \in Nat, NEW m
    PROVE  Count(Remember(seq, x, n), m) <= Count(seq, m) + (IF x = m THEN 1 ELSE 0)
<1> DEFINE app == Append(seq, x)
           last == SubSeq(app, Len(app) - n + 1, Len(app))
           at == {j \in 1..Len(app) : app[j] = m}
           lastAt == {j \in 1..Len(last) : last[j] = m}
<1>1. app \in Seq(Positions) /\ Len(app) \in Nat
  OBVIOUS
<1>2. Count(app, m) = Count(seq, m) + (IF x = m THEN 1 ELSE 0) /\ Count(app, m) \in Nat
  <2>1. Count(app, m) = Count(seq, m) + (IF x = m THEN 1 ELSE 0)
    BY CountAppend
  <2> HIDE DEF app
  <2>2. Count(app, m) \in Nat
    BY <1>1, CountType
  <2> QED
    BY <2>1, <2>2
<1> HIDE DEF app
<1>3. CASE Len(app) <= n
  <2>1. Remember(seq, x, n) = app
    BY <1>3 DEF Remember, LastN, app
  <2> QED
    BY <1>2, <2>1
<1>4. CASE ~(Len(app) <= n)
  <2> DEFINE off == Len(app) - n
             f == [j \in lastAt |-> j + off]
  <2>1. Remember(seq, x, n) = last
    BY <1>4 DEF Remember, LastN, app
  <2>2. /\ off \in Nat /\ Len(last) = n
        /\ \A j \in 1..n : last[j] = app[j + off] /\ j + off \in 1..Len(app)
    <3>1. /\ off \in Nat /\ off + 1 \in Int /\ off + n = Len(app) /\ Len(app) - n + 1 = off + 1
          /\ \A j \in 1..n : j + off \in 1..Len(app) /\ (off + 1) + j - 1 = j + off
      BY <1>1, <1>4
    <3>2. last = SubSeq(app, off + 1, Len(app))
      BY <3>1
    <3> HIDE DEF last, off
    <3>3. \A i \in off + 1 .. Len(app) : app[i] \in Positions
      BY <1>1, <3>1
    <3>4. /\ Len(last) = IF off + 1 <= Len(app) THEN Len(app) - (off + 1) + 1 ELSE 0
          /\ \A j \in 1 .. Len(app) - (off + 1) + 1 : last[j] = app[(off + 1) + j - 1]
      BY <1>1, <3>1, <3>2, <3>3, SubSeqProperties
    <3>5. Len(last) = n /\ Len(app) - (off + 1) + 1 = n
      BY <1>1, <3>1, <3>4
    <3> QED
      BY <3>1, <3>4, <3>5
  <2> HIDE DEF last, off
  <2>3. f \in [lastAt -> at]
    BY <2>2
  <2>4. \A i, j \in lastAt : f[i] = f[j] => i = j
    BY <2>2
  <2>5. f \in Injection(lastAt, at)
    <3> HIDE DEF f
    <3> QED
      BY <2>3, <2>4 DEF Injection, IsInjective
  <2>6. IsFiniteSet(at)
    BY <1>1, CountType
  <2>7. Cardinality(lastAt) <= Cardinality(at)
    BY <2>5, <2>6, FS_Injection
  <2> QED
    BY <1>2, <2>1, <2>7 DEF Count
<1> QED
  BY <1>3, <1>4

\* MLout has written the i-th question and its answer; MLin has written it to t.
ByMLout(i) == IF i <= done["MLout"]["aiReq"] THEN 1 ELSE 0
ByMLin(t, i) == IF \E j \in 1..done["MLin"][t] : log[t][j].src = i THEN 1 ELSE 0

\* What was written once by each is listed so often at most, in Redis and in the
\* copies that will be put back.
NotRepeated(c) ==
    \A t \in Dialogue : \A i \in Positions : Count(c[t], i) <= ByMLout(i) + ByMLin(t, i)

ListedInv ==
    NoFailure => /\ \A r \in Rooms : NotRepeated(ctx[r])
                 /\ \A s \in Services : NotRepeated(mem[s])

\* Failures are not undone.
LEMMA FailuresStay ==
    ASSUME TypeOK, Next, NoFailure'
    PROVE  NoFailure /\ \A s \in Services : ~Crash(s)
<1>0. crashes \in [Services -> Nat] /\ sendFaults \in Nat
  BY DEF TypeOK, Types
<1>1. ASSUME NEW s \in Services, Crash(s) PROVE FALSE
  BY <1>0, <1>1 DEF Crash, NoFailure
<1>2. crashes' = crashes
  BY <1>1 DEF Next, Publish, MLinLoad, MLinSave, MLinSkipFile, MLoutAnswer, MLoutSave,
     MLoutSummarize, Deliver, DeliverUnacknowledged, LoseProduced, CommitArrives
<1>3. sendFaults' = sendFaults \/ sendFaults' = sendFaults + 1
  BY DEF Next, Publish, MLinLoad, MLinSave, MLinSkipFile, MLoutAnswer, MLoutSave, MLoutSummarize,
         Deliver, DeliverUnacknowledged, LoseProduced, CommitArrives, Crash
<1> QED
  BY <1>0, <1>1, <1>2, <1>3 DEF NoFailure

\* Without failures no answer is published twice.
LEMMA AnswersDiffer ==
    ASSUME TypeOK, AllStem, AllRepeats, NoFailure, NEW t \in Dialogue,
           NEW j \in 1..Len(log[t]), NEW k \in 1..Len(log[t]), log[t][j].src = log[t][k].src
    PROVE  j = k
<1>0. /\ "aiReq" \in Topics /\ "aiResp" \in Topics /\ "aiReq" \in Inputs /\ "MLout" \in Services
      /\ log["aiReq"] \in Seq(Message) /\ log["aiResp"] \in Seq(Message)
      /\ outbox["aiResp"] \in Seq(Message)
  BY DEF TypeOK, Types, Topics, Inputs, Outputs, Services
<1>1. \A i \in 1..Len(log["aiReq"]) : log["aiReq"][i].src = i
  BY <1>0 DEF TypeOK, InputsNumbered
<1>2. CASE t = "aiReq"
  BY <1>1, <1>2
<1>3. CASE t = "aiResp"
  <2>1. \A n \in 1..Len(log["aiResp"]) :
           \E i \in 1..Len(log["aiReq"]) : log["aiResp"][n] = log["aiReq"][i]
    <3>1. ToSet(log["aiResp"]) \subseteq ToSet(log["aiReq"])
      BY DEF AllStem, Stems, Published
    <3>2. DOMAIN log["aiReq"] = 1..Len(log["aiReq"]) /\ DOMAIN log["aiResp"] = 1..Len(log["aiResp"])
      BY <1>0
    <3>3. ASSUME NEW n \in 1..Len(log["aiResp"])
          PROVE  \E i \in 1..Len(log["aiReq"]) : log["aiResp"][n] = log["aiReq"][i]
      <4>1. log["aiResp"][n] \in ToSet(log["aiReq"])
        BY <3>1, <3>2 DEF ToSet
      <4> QED
        BY <3>2, <4>1 DEF ToSet
    <3> QED
      BY <3>3
  <2>2. PICK i \in 1..Len(log["aiReq"]) : log["aiResp"][j] = log["aiReq"][i]
    BY <1>3, <2>1
  <2>3. log["aiResp"][k] = log["aiReq"][i]
    BY <1>1, <1>3, <2>1, <2>2
  <2> DEFINE m == log["aiReq"][i]
             at == {n \in 1..Len(log["aiResp"]) : log["aiResp"][n] = m}
  <2>4. /\ IsFiniteSet(at) /\ Count(log["aiResp"], m) = Cardinality(at)
        /\ Count(log["aiResp"], m) \in Nat /\ Count(outbox["aiResp"], m) \in Nat
    BY <1>0, CountType DEF Count
  <2>5. Count(log["aiResp"], m) + Count(outbox["aiResp"], m)
          <= 0 + 0 + (IF i <= Begun("MLout", "aiReq") THEN 1 ELSE 0)
    BY <1>0 DEF AllRepeats, RepeatsInv, NoFailure
  <2>6. Cardinality(at) <= 1
    BY <2>4, <2>5
  <2>7. j \in at /\ k \in at
    BY <1>3, <2>2, <2>3
  <2> HIDE DEF at, m
  <2>8. ASSUME j # k PROVE FALSE
    <3>1. {j, k} \in SUBSET at /\ Cardinality({j, k}) = 2
      <4>1. IsFiniteSet({j}) /\ Cardinality({j}) = 1 /\ k \notin {j} /\ {j, k} = {j} \cup {k}
        BY <2>8, FS_Singleton
      <4>2. Cardinality({j} \cup {k}) = Cardinality({j}) + 1
        BY <4>1, FS_AddElement
      <4> QED
        BY <2>7, <4>1, <4>2
    <3>2. Cardinality({j, k}) <= Cardinality(at)
      BY <2>4, <3>1, FS_Subset
    <3>3. Cardinality(at) \in Nat
      BY <2>4
    <3> QED
      BY <2>6, <3>1, <3>2, <3>3
  <2> QED
    BY <2>8
<1> QED
  BY <1>2, <1>3 DEF Dialogue

\* What has been written stays written.
LEMMA WrittenGrows ==
    ASSUME TypeOK, Next, NEW t \in Dialogue, NEW i \in Positions,
           \A s \in Services, u \in Topics : done[s][u] <= done'[s][u]
    PROVE  ByMLout(i) <= ByMLout(i)' /\ ByMLin(t, i) <= ByMLin(t, i)'
<1>0. /\ t \in Topics /\ "aiReq" \in Topics /\ "MLin" \in Services /\ "MLout" \in Services
      /\ done["MLout"]["aiReq"] \in Nat /\ done'["MLout"]["aiReq"] \in Nat
      /\ done["MLin"][t] \in Nat /\ done'["MLin"][t] \in Nat
      /\ done["MLin"][t] <= Len(log[t])
  BY TypeStep DEF Dialogue, TypeOK, Types, OffsetsOrdered, Services, Topics, Inputs, Outputs
<1>1. ByMLout(i) <= ByMLout(i)'
  BY <1>0 DEF ByMLout, Positions
<1>2. ASSUME NEW j \in 1..done["MLin"][t], log[t][j].src = i
      PROVE  \E k \in 1..done'["MLin"][t] : log'[t][k].src = i
  <2>1. Len(log[t]) \in Nat /\ \A k \in 1..Len(log[t]) : log'[t][k] = log[t][k]
    BY <1>0, LogGrows
  <2>2. j \in 1..Len(log[t]) /\ j \in 1..done'["MLin"][t]
    BY <1>0, <2>1
  <2> QED
    BY <1>2, <2>1, <2>2
<1> QED
  BY <1>1, <1>2 DEF ByMLin

\* A copy that lists nothing too often still does not after a step.
LEMMA NotRepeatedStays ==
    ASSUME TypeOK, Next, NEW c \in Context, NotRepeated(c),
           \A s \in Services, u \in Topics : done[s][u] <= done'[s][u]
    PROVE  \A t \in Dialogue : \A i \in Positions : Count(c[t], i) <= ByMLout(i)' + ByMLin(t, i)'
<1> SUFFICES ASSUME NEW t \in Dialogue, NEW i \in Positions
             PROVE  Count(c[t], i) <= ByMLout(i)' + ByMLin(t, i)'
  OBVIOUS
<1>1. c[t] \in Seq(Positions)
  BY DEF Context, Dialogue, Recorded
<1>2. Count(c[t], i) \in Nat
  BY <1>1, CountType
<1>3. /\ ByMLout(i) \in Nat /\ ByMLin(t, i) \in Nat
      /\ ByMLout(i)' \in Nat /\ ByMLin(t, i)' \in Nat
  BY DEF ByMLout, ByMLin
<1>4. ByMLout(i) <= ByMLout(i)' /\ ByMLin(t, i) <= ByMLin(t, i)'
  BY WrittenGrows
<1>5. Count(c[t], i) <= ByMLout(i) + ByMLin(t, i)
  BY DEF NotRepeated
<1> QED
  BY <1>2, <1>3, <1>4, <1>5

LEMMA NotRepeatedEmpty == NotRepeated(EmptyContext)
<1> SUFFICES ASSUME NEW t \in Dialogue, NEW i \in Positions
             PROVE  Count(EmptyContext[t], i) <= ByMLout(i) + ByMLin(t, i)
  BY DEF NotRepeated
<1>1. EmptyContext[t] = <<>> /\ <<>> \in Seq(Positions) /\ ToSet(<<>>) = {}
  BY DEF EmptyContext, Dialogue, Recorded, ToSet
<1>2. Count(<<>>, i) = 0
  BY <1>1, CountType
<1> QED
  BY <1>1, <1>2 DEF ByMLout, ByMLin

\* An entry its writer had not written yet may be listed once more.
LEMMA NotRepeatedRemember ==
    ASSUME TypeOK, Next, NEW t \in Dialogue, NEW seq \in Seq(Positions),
           NEW x \in Positions, NEW n \in Nat,
           \A s \in Services, u \in Topics : done[s][u] <= done'[s][u],
           \A i \in Positions : Count(seq, i) <= ByMLout(i) + ByMLin(t, i),
           \/ ByMLout(x) = 0 /\ ByMLout(x)' = 1
           \/ ByMLin(t, x) = 0 /\ ByMLin(t, x)' = 1
    PROVE  \A i \in Positions : Count(Remember(seq, x, n), i) <= ByMLout(i)' + ByMLin(t, i)'
<1> SUFFICES ASSUME NEW i \in Positions
             PROVE  Count(Remember(seq, x, n), i) <= ByMLout(i)' + ByMLin(t, i)'
  OBVIOUS
<1>1. Count(seq, i) \in Nat /\ Count(Remember(seq, x, n), i) \in Nat
  BY CountType, RememberAdds
<1>2. Count(Remember(seq, x, n), i) <= Count(seq, i) + (IF x = i THEN 1 ELSE 0)
  BY CountRemember
<1>3. /\ ByMLout(i) \in Nat /\ ByMLin(t, i) \in Nat
      /\ ByMLout(i)' \in Nat /\ ByMLin(t, i)' \in Nat
  BY DEF ByMLout, ByMLin
<1>4. ByMLout(i) <= ByMLout(i)' /\ ByMLin(t, i) <= ByMLin(t, i)'
  BY WrittenGrows
<1>5. Count(seq, i) <= ByMLout(i) + ByMLin(t, i)
  OBVIOUS
<1>6. CASE x = i
  <2>1. Count(Remember(seq, x, n), i) <= Count(seq, i) + 1
    BY <1>2, <1>6
  <2>2. \/ ByMLout(i) = 0 /\ ByMLout(i)' = 1
        \/ ByMLin(t, i) = 0 /\ ByMLin(t, i)' = 1
    BY <1>6
  <2> QED
    BY <1>1, <1>3, <1>4, <1>5, <2>1, <2>2
<1>7. CASE x # i
  <2>1. Count(Remember(seq, x, n), i) <= Count(seq, i)
    BY <1>1, <1>2, <1>7
  <2> QED
    BY <1>1, <1>3, <1>4, <1>5, <2>1
<1> QED
  BY <1>6, <1>7

\* Every step keeps the copies so.
LEMMA ListedStep ==
    ASSUME TypeOK, AllStem, AllRepeats, ListedInv, Next
    PROVE  ListedInv'
<1> SUFFICES ASSUME NoFailure'
             PROVE  /\ \A r \in Rooms : NotRepeated(ctx[r])'
                    /\ \A s \in Services : NotRepeated(mem[s])'
  BY DEF ListedInv
<1> DEFINE Fine(c) == \A t \in Dialogue : \A i \in Positions :
                         Count(c[t], i) <= ByMLout(i)' + ByMLin(t, i)'
<1>0. /\ "MLin" \in Services /\ "MLout" \in Services /\ "aiReq" \in Topics
      /\ Recorded \subseteq Topics /\ Dialogue \subseteq Recorded /\ "aiReq" # None
      /\ mem \in [Services -> Context] /\ ctx \in [Rooms -> Context]
      /\ done \in [Services -> [Topics -> Nat]] /\ EmptyContext \in Context
  BY DEF TypeOK, Types, Services, Recorded, Topics, Inputs, Outputs, None, Dialogue,
         EmptyContext, Context
<1>1. NoFailure /\ \A s \in Services : ~Crash(s)
  BY FailuresStay
<1>2. /\ \A r \in Rooms : NotRepeated(ctx[r])
      /\ \A s \in Services : NotRepeated(mem[s])
  BY <1>1 DEF ListedInv
<1>3. \A s \in Services, u \in Topics : done[s][u] <= done'[s][u]
  <2>1. \/ done' = done
        \/ \E p \in Services, w \in Topics : Handled(p, w)
    BY <1>0, <1>1 DEF Next, Publish, MLinLoad, MLinSave, MLinSkipFile, MLoutAnswer, MLoutSave,
       MLoutSummarize, Deliver, DeliverUnacknowledged, LoseProduced, CommitArrives, CanPoll,
       Topics, Inputs, Outputs
  <2>2. ASSUME NEW p \in Services, NEW w \in Topics, Handled(p, w)
        PROVE  \A s \in Services, u \in Topics : done[s][u] <= done'[s][u]
    BY <1>0, <2>2 DEF Handled
  <2>3. CASE done' = done
    BY <1>0, <2>3
  <2> QED
    BY <2>1, <2>2, <2>3
<1>4. \A c \in Context : NotRepeated(c) => Fine(c)
  BY <1>3, NotRepeatedStays
<1>5. Fine(EmptyContext) /\ (\A r \in Rooms : Fine(ctx[r])) /\ (\A s \in Services : Fine(mem[s]))
  BY <1>0, <1>2, <1>4, NotRepeatedEmpty
<1> SUFFICES (\A r \in Rooms : Fine(ctx'[r])) /\ (\A s \in Services : Fine(mem'[s]))
  BY DEF NotRepeated, Count
<1>6. ASSUME NEW s \in Services, NEW t \in Recorded, done[s][t] < Len(log[t])
      PROVE  /\ Polled(s, t).room \in Rooms /\ Polled(s, t).src \in Positions
             /\ done[s][t] + 1 \in 1..Len(log[t])
  BY <1>0, <1>6, PolledType DEF TypeOK
<1> HIDE DEF Fine
<1>7. ASSUME NEW s \in Services, NEW r \in Rooms, Load(s, r) PROVE \A p \in Services : Fine(mem'[p])
  BY <1>0, <1>5, <1>7 DEF Load
<1>8. ASSUME NEW s \in Services, mem' = [mem EXCEPT ![s] = EmptyContext]
      PROVE  \A p \in Services : Fine(mem'[p])
  BY <1>0, <1>5, <1>8
<1>9. ASSUME NEW r \in Rooms, NEW c, Save(r, c), Fine(c) PROVE \A p \in Rooms : Fine(ctx'[p])
  BY <1>0, <1>5, <1>9 DEF Save
<1>10. ASSUME NEW t \in Recorded, MLinLoad(t)
       PROVE  (\A r \in Rooms : Fine(ctx'[r])) /\ (\A s \in Services : Fine(mem'[s]))
  <2>1. Load("MLin", Polled("MLin", t).room) /\ ctx' = ctx /\ done["MLin"][t] < Len(log[t])
    BY <1>10 DEF MLinLoad, CanPoll
  <2> QED
    BY <1>0, <1>5, <1>6, <1>7, <2>1
<1>11. CASE MLoutAnswer
  <2>1. /\ Load("MLout", Polled("MLout", "aiReq").room) /\ ctx' = ctx
        /\ done["MLout"]["aiReq"] < Len(log["aiReq"]) /\ "aiReq" \in Recorded
    BY <1>11 DEF MLoutAnswer, CanPoll, Recorded
  <2> QED
    BY <1>0, <1>5, <1>6, <1>7, <2>1
<1>12. ASSUME NEW t \in Recorded, MLinSave(t)
       PROVE  (\A r \in Rooms : Fine(ctx'[r])) /\ (\A s \in Services : Fine(mem'[s]))
  <2> DEFINE m == Polled("MLin", t)
             n == done["MLin"][t] + 1
             c == [mem["MLin"] EXCEPT ![t] = Remember(mem["MLin"][t], m.src, Limit(t))]
  <2>1. /\ Save(m.room, c) /\ mem' = [mem EXCEPT !["MLin"] = EmptyContext]
        /\ cur["MLin"] = t /\ log' = log /\ done' = [done EXCEPT !["MLin"][t] = n]
    BY <1>12 DEF MLinSave, Handled
  <2>2. done["MLin"][t] < Len(log[t])
    BY <1>0, <2>1, TopicFacts DEF TypeOK, HandlesNextMessage
  <2>3. m.room \in Rooms /\ m.src \in Positions /\ n \in 1..Len(log[t]) /\ m.src = log[t][n].src
    BY <1>0, <1>6, <2>2 DEF Polled
  <2> PICK x \in Positions : x = m.src
    BY <2>3
  <2>4. mem["MLin"] \in Context /\ mem["MLin"][t] \in Seq(Positions) /\ Limit(t) \in Nat
    BY <1>0, BoundFacts DEF Context
  <2>5. ASSUME t \in Dialogue
        PROVE  ByMLin(t, x) = 0 /\ ByMLin(t, x)' = 1
    <3>1. done["MLin"][t] \in Nat /\ Len(log[t]) \in Nat /\ done'["MLin"][t] = n
      BY <1>0, <2>1, LogGrows
    <3>2. ASSUME NEW j \in 1..done["MLin"][t], log[t][j].src = x PROVE FALSE
      <4>1. j \in 1..Len(log[t]) /\ j # n
        BY <2>3, <3>1
      <4> QED
        BY <1>1, <2>3, <2>5, <3>2, <4>1, AnswersDiffer
    <3>3. n \in 1..done'["MLin"][t] /\ log'[t][n].src = x
      BY <2>1, <2>3, <3>1
    <3> HIDE DEF m, n
    <3> QED
      BY <3>2, <3>3 DEF ByMLin
  <2>6. t \in Dialogue => \A i \in Positions :
           Count(Remember(mem["MLin"][t], x, Limit(t)), i) <= ByMLout(i)' + ByMLin(t, i)'
    <3>1. t \in Dialogue => \A i \in Positions :
             Count(mem["MLin"][t], i) <= ByMLout(i) + ByMLin(t, i)
      BY <1>0, <1>2 DEF NotRepeated
    <3> HIDE DEF m, n
    <3> QED
      BY <1>3, <2>3, <2>4, <2>5, <3>1, NotRepeatedRemember
  <2> HIDE DEF m, n
  <2>7. Fine(c)
    BY <1>0, <1>5, <2>4, <2>6 DEF Fine, Context
  <2> HIDE DEF c
  <2> QED
    BY <1>0, <1>8, <1>9, <2>1, <2>3, <2>7
<1>13. CASE MLoutSave
  <2> DEFINE m == Polled("MLout", "aiReq")
             n == done["MLout"]["aiReq"] + 1
             old == mem["MLout"]
             c == [old EXCEPT !["aiReq"]  = Remember(old["aiReq"], m.src, MaxDialogue),
                              !["aiResp"] = Remember(old["aiResp"], m.src, MaxDialogue)]
  <2>1. /\ Save(m.room, c) /\ mem' = [mem EXCEPT !["MLout"] = EmptyContext]
        /\ cur["MLout"] = "aiReq" /\ log' = log /\ done' = [done EXCEPT !["MLout"]["aiReq"] = n]
    BY <1>13 DEF MLoutSave, Handled
  <2>2. done["MLout"]["aiReq"] < Len(log["aiReq"]) /\ "aiReq" \in Recorded /\ "aiReq" \in Inputs
    BY <1>0, <2>1 DEF TypeOK, HandlesNextMessage, Recorded, Inputs
  <2>3. m.room \in Rooms /\ m.src \in Positions /\ n \in 1..Len(log["aiReq"]) /\ m.src = n
    BY <1>0, <1>6, <2>2 DEF Polled, TypeOK, InputsNumbered
  <2> PICK x \in Positions : x = m.src
    BY <2>3
  <2>4. old \in Context /\ \A t \in Dialogue : old[t] \in Seq(Positions)
    BY <1>0 DEF Context
  <2>5. ByMLout(x) = 0 /\ ByMLout(x)' = 1
    <3>1. done["MLout"]["aiReq"] \in Nat /\ done'["MLout"]["aiReq"] = n
      BY <1>0, <2>1
    <3> QED
      BY <2>3, <3>1 DEF ByMLout
  <2>6. ASSUME NEW t \in Dialogue
        PROVE  \A i \in Positions :
                  Count(Remember(old[t], x, MaxDialogue), i) <= ByMLout(i)' + ByMLin(t, i)'
    <3>1. \A i \in Positions : Count(old[t], i) <= ByMLout(i) + ByMLin(t, i)
      BY <1>0, <1>2 DEF NotRepeated
    <3> HIDE DEF m, n, old
    <3> QED
      BY <1>3, <2>4, <2>5, <3>1, BoundFacts, NotRepeatedRemember
  <2> HIDE DEF m, n
  <2>7. Fine(c)
    <3>1. \A t \in Dialogue : c[t] = Remember(old[t], x, MaxDialogue)
      <4>1. \A t \in Dialogue : t = "aiReq" \/ t = "aiResp"
        BY DEF Dialogue
      <4>2. DOMAIN old = Recorded /\ "aiReq" \in Recorded /\ "aiResp" \in Recorded
        BY <2>4 DEF Context, Recorded
      <4> HIDE DEF old
      <4> QED
        BY <4>1, <4>2
    <3> HIDE DEF c, old
    <3> QED
      BY <2>6, <3>1 DEF Fine
  <2> HIDE DEF c
  <2> QED
    BY <1>0, <1>8, <1>9, <2>1, <2>3, <2>7
<1>14. CASE UNCHANGED <<ctx, mem>>
  BY <1>5, <1>14
<1>15. \/ UNCHANGED <<ctx, mem>>
       \/ \E t \in Recorded : MLinLoad(t) \/ MLinSave(t)
       \/ MLoutAnswer \/ MLoutSave
  BY <1>1 DEF Next, Publish, Deliver, DeliverUnacknowledged, LoseProduced, CommitArrives,
         MLinSkipFile, MLoutSummarize
<1> QED
  BY <1>10, <1>11, <1>12, <1>13, <1>14, <1>15

\* Replies are published once, and a question and its answer listed twice, unless
\* a service restarts or a message is sent again.
THEOREM NoStutter == Spec => []RepeatsBounded
<1>1. Init => ListedInv
  BY NotRepeatedEmpty DEF Init, ListedInv
<1>2. TypeOK /\ AllStem /\ AllRepeats /\ ListedInv /\ [Next]_vars => ListedInv'
  <2>1. ASSUME ListedInv, UNCHANGED vars PROVE ListedInv'
    BY <2>1 DEF vars, ListedInv, NoFailure, NotRepeated, Count, ByMLout, ByMLin
  <2> QED
    BY <2>1, ListedStep
<1>3. Init => AllStem
  BY NothingStems
<1>4. TypeOK /\ AllStem /\ [Next]_vars => AllStem'
  BY AllStemStep
<1>5. TypeOK /\ ListedInv => ListedTwice
  <2> SUFFICES ASSUME TypeOK, ListedInv, NoFailure, NEW r \in Rooms, NEW t \in Dialogue,
                      NEW i \in 1..Len(log["aiReq"])
               PROVE  Listed(r, t, i) <= 2
    BY DEF ListedTwice, NoFailure, Dialogue
  <2>1. ctx[r][t] \in Seq(Positions)
    BY DEF TypeOK, Types, Context, Dialogue, Recorded
  <2>2. Count(ctx[r][t], i) \in Nat /\ Listed(r, t, i) = Count(ctx[r][t], i)
    BY <2>1, CountType DEF Listed, Count
  <2>3. i \in Positions
    <3>1. log["aiReq"] \in Seq(Message)
      BY DEF TypeOK, Types, Topics, Inputs
    <3> QED
      BY <3>1 DEF Positions
  <2>4. Count(ctx[r][t], i) <= ByMLout(i) + ByMLin(t, i)
    BY <2>3 DEF ListedInv, NotRepeated
  <2> QED
    BY <2>2, <2>4 DEF ByMLout, ByMLin
<1> QED
  BY <1>1, <1>2, <1>3, <1>4, <1>5, RepliesAreBounded, TypeCorrect, PTL DEF Spec, RepeatsBounded

=============================================================================
