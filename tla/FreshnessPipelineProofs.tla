----------------------- MODULE FreshnessPipelineProofs -----------------------
(***************************************************************************)
(* Proofs about FreshnessPipeline, for any records, payloads, predictors,  *)
(* reactors and limits: no change of a row is silent but by a payload      *)
(* whose match outcome cannot be built, a row falls behind only through a  *)
(* reclaimed entry or a retry copy, an acknowledged event has its requests *)
(* on the bus, a request is repeated only for an event id that the ledger  *)
(* has lost, and a predictor is held back only for a message sent.         *)
(***************************************************************************)
EXTENDS FreshnessPipeline, TLAPS

-----------------------------------------------------------------------------
(* Types *)

Topic == {"match.stored", "freshness.events.v1", "match.outcome.v1", "predict.request",
          "models.events.v1", "match.normalized", "match.normalized.dlq", "freshness.events.v1.dlq"}

\* An entry of match.normalized.
Entry == Record \X Value \X (0..(RetryBudget - 1))

Kind == {"created", "updated", "unchanged"}

Market == {"1x2", "ah", "ou_2_5", "btts"}

Id == Record \X {"created", "updated"} \X Seq(Value)

Arg == Nat \union Kind \union Value \union Predictor \union (Id \X Market) \union Entry

Message == [topic : Topic, change : Nat, arg : Arg]

ChangeRecord ==
    [rec : Record, kind : {"created", "updated"}, diff : Seq(Value), by : Nat]

\* An output refers to one of the k changes made.
Sound(o, k) ==
    /\ o.change <= k
    /\ o.topic = "freshness.events.v1" => o.change # 0 /\ o.arg \in 0..(RetryBudget - 1)
    /\ o.topic = "match.normalized" => o.arg \in Entry

StreamsOK ==
    /\ norm \in Seq(Entry)
    /\ changes \in Seq(ChangeRecord)
    /\ \A n \in 1..Len(changes) : changes[n].by \in 1..Len(norm)
    /\ fresh \in Seq([change : Nat, attempt : Nat])
    /\ \A h \in 1..Len(fresh) : /\ fresh[h].change \in 1..Len(changes)
                                /\ fresh[h].attempt \in 0..(RetryBudget - 1)

HandlesOK ==
    /\ offset \in [Agent -> Nat]
    /\ orphan \in [Agent -> SUBSET Nat] /\ batch \in [Agent -> SUBSET Nat]
    /\ cur \in [Agent -> Nat]
    /\ \A a \in Agent : offset[a] <= Len(Input(a)) /\ Held(a) \subseteq 1..offset[a]
    /\ seen \subseteq 1..offset["storage"] /\ reclaimed \subseteq 1..offset["storage"]

OutputsOK ==
    /\ todo \in [Agent -> Seq(Message)]
    /\ \A a \in Agent : /\ cur[a] = 0 => todo[a] = << >>
                        /\ \A i \in 1..Len(todo[a]) : Sound(todo[a][i], Len(changes))

MemoryOK ==
    /\ store \in [Record -> Nat] /\ \A r \in Record : store[r] <= Len(norm)
    /\ ledger \in [Reactor -> Seq(EventIds)]
    /\ \A a \in Reactor : Len(ledger[a]) <= LedgerSize
    /\ trained \in [Predictor -> Nat] /\ \A p \in Predictor : trained[p] <= Len(changes)
    /\ old \in Nat /\ old <= Len(changes)

TypeInv == StreamsOK /\ HandlesOK /\ OutputsOK /\ MemoryOK

\* The streams only grow.
Grows(s, t) == Len(s) <= Len(t) /\ \A i \in 1..Len(s) : t[i] = s[i]

Grown == Grows(norm, norm') /\ Grows(fresh, fresh') /\ Grows(changes, changes')

LEMMA Limits ==
  /\ RetryBudget \in Nat /\ RetryBudget >= 1 /\ MaxInFlight \in Nat /\ MaxInFlight >= 1
  /\ LedgerSize \in Nat /\ LedgerSize >= 1 /\ MaxScrapes \in Nat
  /\ Reactor \subseteq {"live", "trainer"} /\ "storage" \notin Reactor
  /\ Agent = {"storage"} \union Reactor
  BY PipelineAssumption DEF Agent

LEMMA GrowsSame == \A s : Len(s) \in Nat => Grows(s, s)
  BY DEF Grows

LEMMA GrowsAppend ==
  ASSUME NEW S, NEW s \in Seq(S), NEW e
  PROVE  Grows(s, Append(s, e))
  <1>1. s \in Seq(S \union {e}) /\ Append(s, e) \in Seq(S \union {e})
    OBVIOUS
  <1> QED BY <1>1 DEF Grows

\* The elements of a sequence, by their places.
LEMMA RangeIs ==
  ASSUME NEW S, NEW q \in Seq(S)
  PROVE  \A e : e \in Range(q) <=> \E i \in 1..Len(q) : q[i] = e
  BY DEF Range

\* Taking the head off a sequence.
LEMMA TailIs ==
  ASSUME NEW S, NEW q \in Seq(S), q # << >>
  PROVE  /\ Tail(q) \in Seq(S) /\ Len(q) \in Nat /\ Len(q) >= 1 /\ Len(Tail(q)) = Len(q) - 1
         /\ Head(q) \in S /\ Head(q) = q[1]
         /\ \A i \in 1..Len(Tail(q)) : i + 1 \in 1..Len(q) /\ Tail(q)[i] = q[i + 1]
         /\ Range(q) = Range(Tail(q)) \union {Head(q)}
  <1>1. /\ Tail(q) \in Seq(S) /\ Len(q) \in Nat /\ Len(q) >= 1 /\ Len(Tail(q)) = Len(q) - 1
        /\ Head(q) \in S /\ Head(q) = q[1]
        /\ \A i \in 1..Len(Tail(q)) : i + 1 \in 1..Len(q) /\ Tail(q)[i] = q[i + 1]
    OBVIOUS
  <1>2. \A e : e \in Range(q) <=> \E i \in 1..Len(q) : q[i] = e
    BY RangeIs
  <1>3. \A e : e \in Range(Tail(q)) <=> \E i \in 1..Len(Tail(q)) : Tail(q)[i] = e
    BY <1>1, RangeIs
  <1>4. ASSUME NEW e \in Range(q) PROVE e \in Range(Tail(q)) \union {Head(q)}
    <2>1. PICK i \in 1..Len(q) : q[i] = e
      BY <1>2
    <2>2. CASE i = 1
      BY <1>1, <2>1, <2>2
    <2>3. CASE i # 1
      <3>1. i - 1 \in 1..Len(Tail(q)) /\ (i - 1) + 1 = i
        BY <1>1, <2>3
      <3> QED BY <1>1, <1>3, <2>1, <3>1
    <2> QED BY <2>2, <2>3
  <1>5. ASSUME NEW e \in Range(Tail(q)) \union {Head(q)} PROVE e \in Range(q)
    BY <1>1, <1>2, <1>3
  <1> QED BY <1>1, <1>4, <1>5

\* What is left of a sequence when its i-th element is taken out.
LEMMA RemoveAtIs ==
  ASSUME NEW S, NEW q \in Seq(S), NEW i \in 1..Len(q)
  PROVE  RemoveAt(q, i) \in Seq(S) /\ Len(RemoveAt(q, i)) = Len(q) - 1
  <1> DEFINE a == SubSeq(q, 1, i - 1)
             b == SubSeq(q, i + 1, Len(q))
  <1>1. a \in Seq(S) /\ Len(a) = i - 1
    OBVIOUS
  <1>2. b \in Seq(S) /\ Len(b) = Len(q) - i
    OBVIOUS
  <1>3. RemoveAt(q, i) = a \o b
    BY DEF RemoveAt
  <1> HIDE DEF a, b
  <1>4. a \o b \in Seq(S) /\ Len(a \o b) = Len(a) + Len(b)
    <2>1. a \in Seq(S) /\ b \in Seq(S)
      BY <1>1, <1>2
    <2> QED BY <2>1
  <1>5. Len(a) + Len(b) = Len(q) - 1
    BY <1>1, <1>2
  <1> QED BY <1>3, <1>4, <1>5

\* A set of ids that grows.
LEMMA SeqMono ==
  ASSUME NEW S, NEW T, S \subseteq T
  PROVE  Seq(S) \subseteq Seq(T)
  OBVIOUS

LEMMA SeqElement ==
  ASSUME NEW S, NEW q \in Seq(S), NEW i \in 1..Len(q)
  PROVE  q[i] \in S
  OBVIOUS

LEMMA SeqConcat ==
  ASSUME NEW S, NEW q \in Seq(S), NEW t \in Seq(S)
  PROVE  q \o t \in Seq(S)
  OBVIOUS

LEMMA SeqOfType ==
  ASSUME NEW S, NEW T, NEW q \in Seq(S), \A i \in 1..Len(q) : q[i] \in T
  PROVE  q \in Seq(T)
  OBVIOUS

\* mark_processed: a bounded ledger of what it held and the new id.
LEMMA MarkedIs ==
  ASSUME NEW S, NEW l \in Seq(S), NEW id \in S, Len(l) <= LedgerSize
  PROVE  /\ Marked(l, id) \in Seq(S) /\ Len(Marked(l, id)) <= LedgerSize
  <1>1. CASE Contains(l, id)
    <2> DEFINE i == CHOOSE k \in DOMAIN l : l[k] = id
               q == RemoveAt(l, i)
    <2>1. i \in 1..Len(l)
      BY <1>1 DEF Contains
    <2>2. Marked(l, id) = Append(q, id)
      BY <1>1 DEF Marked, Renewed
    <2> HIDE DEF i
    <2>3. q \in Seq(S) /\ Len(q) = Len(l) - 1 /\ Len(l) \in Nat
      BY <2>1, RemoveAtIs
    <2> HIDE DEF q
    <2>4. Append(q, id) \in Seq(S) /\ Len(Append(q, id)) = Len(l)
      BY <2>3
    <2> QED BY <2>2, <2>4
  <1>2. CASE ~Contains(l, id) /\ Len(l) < LedgerSize
    <2>1. Marked(l, id) = Append(l, id)
      BY <1>2 DEF Marked
    <2> QED BY <1>2, <2>1, Limits
  <1>3. CASE ~Contains(l, id) /\ ~(Len(l) < LedgerSize)
    <2>1. Marked(l, id) = Append(Tail(l), id)
      BY <1>3 DEF Marked
    <2>2. l # << >>
      BY <1>3, Limits
    <2>3. Tail(l) \in Seq(S) /\ Len(Tail(l)) = Len(l) - 1
      BY <2>2, TailIs
    <2>4. Append(Tail(l), id) \in Seq(S) /\ Len(Append(Tail(l), id)) = Len(l)
      BY <2>3
    <2> QED BY <2>1, <2>4
  <1> QED BY <1>1, <1>2, <1>3
\* The changes an id stands for stay what they were.
LEMMA IdsGrow ==
  ASSUME changes \in Seq(ChangeRecord), changes' \in Seq(ChangeRecord), Grows(changes, changes')
  PROVE  /\ EventIds \subseteq EventIds' /\ Seq(EventIds) \subseteq Seq(EventIds')
         /\ \A n \in 1..Len(changes) : n \in 1..Len(changes') /\ IdOf(n)' = IdOf(n)
  <1>1. \A n \in 1..Len(changes) : n \in 1..Len(changes') /\ changes'[n] = changes[n]
    BY DEF Grows
  <1>2. \A n \in 1..Len(changes) : IdOf(n)' = IdOf(n)
    BY <1>1 DEF IdOf, EventId
  <1>3. EventIds \subseteq EventIds'
    BY <1>1, <1>2 DEF EventIds
  <1> QED BY <1>1, <1>2, <1>3, SeqMono

\* The parts of a typed state that a handler needs.
LEMMA HandleIs ==
  ASSUME StreamsOK, HandlesOK, NEW a \in Agent, NEW h \in batch[a]
  PROVE  h \in 1..offset[a] /\ h \in Nat /\ h # 0 /\ h \in 1..Len(Input(a))
  <1>1. h \in 1..offset[a] /\ offset[a] \in Nat /\ offset[a] <= Len(Input(a))
    BY DEF HandlesOK, Held
  <1>2. Len(Input(a)) \in Nat
    BY DEF StreamsOK, Input
  <1> QED BY <1>1, <1>2

\* _process takes the next entry of the batch; its outputs are about changes made.
LEMMA BeginTyped ==
  ASSUME TypeInv, NEW a \in Agent, NEW h, NEW outs \in Seq(Message), Begin(a, h, outs),
         Len(changes') \in Nat, Len(changes) <= Len(changes'),
         \A i \in 1..Len(outs) : Sound(outs[i], Len(changes')),
         seen' \subseteq seen \union (IF a = "storage" THEN {h} ELSE {}), reclaimed' = reclaimed
  PROVE  HandlesOK' /\ OutputsOK'
  <1>1. /\ h \in batch[a] /\ cur[a] = 0 /\ UNCHANGED busVars
        /\ cur' = [cur EXCEPT ![a] = h] /\ batch' = [batch EXCEPT ![a] = @ \ {h}]
        /\ todo' = [todo EXCEPT ![a] = outs]
    BY DEF Begin, Turn
  <1>2. h \in 1..offset[a] /\ h \in Nat /\ h # 0
    BY <1>1, HandleIs DEF TypeInv
  <1>3. HandlesOK'
    <2>1. /\ cur' \in [Agent -> Nat] /\ batch' \in [Agent -> SUBSET Nat]
          /\ UNCHANGED <<norm, fresh, offset, orphan>>
      BY <1>1, <1>2 DEF TypeInv, HandlesOK, busVars
    <2>2. \A b \in Agent : Input(b)' = Input(b)
      BY <2>1 DEF Input
    <2>3. \A b \in Agent : Held(b)' \subseteq Held(b) \union (IF b = a THEN {h} ELSE {})
      BY <1>1, <2>1 DEF Held, TypeInv, HandlesOK
    <2>4. seen' \subseteq 1..offset["storage"]
      BY <1>2 DEF TypeInv, HandlesOK
    <2> QED BY <1>2, <2>1, <2>2, <2>3, <2>4 DEF TypeInv, HandlesOK
  <1>4. OutputsOK'
    <2> SUFFICES ASSUME NEW b \in Agent
                 PROVE  /\ todo'[b] \in Seq(Message)
                        /\ cur'[b] = 0 => todo'[b] = << >>
                        /\ \A i \in 1..Len(todo'[b]) : Sound(todo'[b][i], Len(changes'))
      <3>1. todo' = [b \in Agent |-> todo'[b]]
        BY <1>1 DEF TypeInv, OutputsOK
      <3> QED BY <3>1 DEF OutputsOK
    <2>1. CASE b = a
      BY <1>1, <1>2, <2>1 DEF TypeInv, OutputsOK, HandlesOK
    <2>2. CASE b # a
      <3>1. todo'[b] = todo[b] /\ cur'[b] = cur[b]
        BY <1>1, <2>2 DEF TypeInv, OutputsOK, HandlesOK
      <3>2. ASSUME NEW i \in 1..Len(todo[b]) PROVE Sound(todo[b][i], Len(changes'))
        <4>1. Sound(todo[b][i], Len(changes)) /\ todo[b][i] \in Message
          BY DEF TypeInv, OutputsOK
        <4>2. todo[b][i].change \in Nat /\ Len(changes) \in Nat
          BY <4>1 DEF Message, TypeInv, StreamsOK
        <4> QED BY <4>1, <4>2 DEF Sound
      <3> QED BY <3>1, <3>2 DEF TypeInv, OutputsOK
    <2> QED BY <2>1, <2>2
  <1> QED BY <1>3, <1>4

\* A step that changes neither the streams nor the log of changes.
LEMMA StreamsSame ==
  ASSUME TypeInv, UNCHANGED <<norm, fresh, changes>>
  PROVE  StreamsOK' /\ Grown
  <1>1. Len(norm) \in Nat /\ Len(fresh) \in Nat /\ Len(changes) \in Nat
    BY DEF TypeInv, StreamsOK
  <1> QED BY <1>1, GrowsSame DEF TypeInv, StreamsOK, Grown

LEMMA MemorySame ==
  ASSUME TypeInv, UNCHANGED <<store, ledger, trained, old>>, Grown,
         changes' \in Seq(ChangeRecord), Len(norm') \in Nat
  PROVE  MemoryOK'
  <1>1. Seq(EventIds) \subseteq Seq(EventIds')
    BY IdsGrow DEF Grown, TypeInv, StreamsOK
  <1>2. Len(norm) <= Len(norm') /\ Len(changes) <= Len(changes')
        /\ Len(norm) \in Nat /\ Len(changes) \in Nat /\ Len(changes') \in Nat
    BY DEF Grown, Grows, TypeInv, StreamsOK
  <1>3. ledger' \in [Reactor -> Seq(EventIds')]
    BY <1>1 DEF TypeInv, MemoryOK
  <1>4. store' \in [Record -> Nat] /\ \A r \in Record : store'[r] <= Len(norm')
    BY <1>2 DEF TypeInv, MemoryOK
  <1>5. trained' \in [Predictor -> Nat] /\ \A p \in Predictor : trained'[p] <= Len(changes')
    BY <1>2 DEF TypeInv, MemoryOK
  <1>6. old' \in Nat /\ old' <= Len(changes')
    BY <1>2 DEF TypeInv, MemoryOK
  <1>7. \A a \in Reactor : Len(ledger'[a]) <= LedgerSize
    BY DEF TypeInv, MemoryOK
  <1> QED BY <1>3, <1>4, <1>5, <1>6, <1>7 DEF MemoryOK

LEMMA OutputsSame ==
  ASSUME TypeInv, UNCHANGED <<todo, cur, changes>>
  PROVE  OutputsOK'
  BY DEF TypeInv, OutputsOK

\* A processor publishes a record.
LEMMA ScrapeTyped ==
  ASSUME TypeInv, NEW p \in Feed, Scrape(p)
  PROVE  TypeInv' /\ Grown
  <1>1. /\ norm' = Append(norm, <<p[1], p[2], 0>>)
        /\ UNCHANGED <<fresh, offset, orphan, batch, cur, todo, store, ledger, trained, old,
                       changes, seen, reclaimed>>
    BY DEF Scrape, runnerVars, memoryVars, historyVars
  <1>2. norm' \in Seq(Entry) /\ Len(norm') = Len(norm) + 1 /\ Len(norm) \in Nat
    <2> DEFINE e == <<p[1], p[2], 0>>
    <2>1. p \in Record \X Value /\ 0 \in 0..(RetryBudget - 1)
      BY PipelineAssumption, Limits
    <2>2. e \in Entry
      BY <2>1 DEF Entry
    <2>3. norm' = Append(norm, e)
      BY <1>1
    <2> HIDE DEF e
    <2> QED BY <2>2, <2>3 DEF TypeInv, StreamsOK
  <1>3. Grown
    BY <1>1, GrowsAppend, GrowsSame DEF Grown, TypeInv, StreamsOK
  <1>4. StreamsOK'
    BY <1>1, <1>2, Limits DEF TypeInv, StreamsOK
  <1>5. HandlesOK'
    <2>1. \A a \in Agent : Held(a)' = Held(a)
      BY <1>1 DEF Held
    <2>2. \A a \in Agent : Len(Input(a)) <= Len(Input(a)') /\ Len(Input(a)') \in Nat
                           /\ Len(Input(a)) \in Nat
      BY <1>1, <1>2 DEF Input, TypeInv, StreamsOK
    <2>3. \A a \in Agent : offset[a] <= Len(Input(a)')
      BY <2>2 DEF TypeInv, HandlesOK
    <2> QED BY <1>1, <2>1, <2>3 DEF TypeInv, HandlesOK
  <1>6. MemoryOK'
    BY <1>1, <1>2, <1>3, <1>4, MemorySame DEF StreamsOK
  <1>7. OutputsOK'
    BY <1>1, OutputsSame
  <1> QED BY <1>3, <1>4, <1>5, <1>6, <1>7 DEF TypeInv

\* The runner reads, or claims what a dead life had read.
LEMMA FetchTyped ==
  ASSUME TypeInv, NEW a \in Agent, Read(a) \/ Reclaim(a)
  PROVE  TypeInv' /\ Grown
  <1>1. UNCHANGED <<norm, fresh, changes, cur, todo, store, ledger, trained, old, seen>>
    BY DEF Read, Reclaim, memoryVars, historyVars
  <1>2. StreamsOK' /\ Grown /\ MemoryOK' /\ OutputsOK'
    BY <1>1, StreamsSame, MemorySame, OutputsSame DEF TypeInv, StreamsOK
  <1>3. \A b \in Agent : Input(b)' = Input(b)
    BY <1>1 DEF Input
  <1>4. offset[a] \in Nat /\ Len(Input(a)) \in Nat /\ offset[a] <= Len(Input(a))
    BY DEF TypeInv, StreamsOK, HandlesOK, Input
  <1>5. CASE Read(a)
    <2> DEFINE k == ReadUpTo(a)
    <2>1. k \in Nat /\ offset[a] <= k /\ k <= Len(Input(a))
      BY <1>4, Limits DEF ReadUpTo
    <2> HIDE DEF k
    <2>2. /\ batch' = [batch EXCEPT ![a] = (offset[a] + 1)..k]
          /\ offset' = [offset EXCEPT ![a] = k] /\ orphan' = orphan /\ reclaimed' = reclaimed
      BY <1>5 DEF Read, historyVars, k
    <2>3. (offset[a] + 1)..k \subseteq 1..k /\ 1..offset[a] \subseteq 1..k
          /\ (offset[a] + 1)..k \subseteq Nat
      BY <1>4, <2>1
    <2>4. /\ batch' \in [Agent -> SUBSET Nat] /\ offset' \in [Agent -> Nat]
          /\ offset'[a] = k /\ batch'[a] = (offset[a] + 1)..k
          /\ \A b \in Agent \ {a} : offset'[b] = offset[b] /\ batch'[b] = batch[b]
      BY <2>1, <2>2, <2>3 DEF TypeInv, HandlesOK
    <2>5. \A b \in Agent : Held(b)' \subseteq 1..offset'[b]
      BY <1>1, <2>2, <2>3, <2>4 DEF Held, TypeInv, HandlesOK
    <2>6. seen' \subseteq 1..offset'["storage"] /\ reclaimed' \subseteq 1..offset'["storage"]
      BY <1>1, <2>2, <2>3, <2>4, Limits DEF TypeInv, HandlesOK
    <2>7. HandlesOK'
      BY <1>1, <1>3, <2>1, <2>2, <2>4, <2>5, <2>6 DEF TypeInv, HandlesOK
    <2> QED BY <1>2, <2>7 DEF TypeInv
  <1>6. CASE Reclaim(a)
    <2> DEFINE F == FirstOf(orphan[a])
    <2>1. F \subseteq orphan[a]
      BY DEF FirstOf
    <2>2. /\ batch' = [batch EXCEPT ![a] = F] /\ orphan' = [orphan EXCEPT ![a] = orphan[a] \ F]
          /\ offset' = offset
          /\ reclaimed' = IF a = "storage" THEN reclaimed \union F ELSE reclaimed
      BY <1>6 DEF Reclaim, TypeInv, HandlesOK
    <2> HIDE DEF F
    <2>3. orphan[a] \subseteq 1..offset[a] /\ orphan[a] \subseteq Nat
      BY DEF TypeInv, HandlesOK, Held
    <2>4. /\ batch' \in [Agent -> SUBSET Nat] /\ orphan' \in [Agent -> SUBSET Nat]
          /\ batch'[a] = F /\ orphan'[a] = orphan[a] \ F
          /\ \A b \in Agent \ {a} : orphan'[b] = orphan[b] /\ batch'[b] = batch[b]
      BY <2>1, <2>2, <2>3 DEF TypeInv, HandlesOK
    <2>5. \A b \in Agent : Held(b)' \subseteq 1..offset'[b]
      BY <1>1, <2>1, <2>2, <2>4 DEF Held, TypeInv, HandlesOK
    <2>6. reclaimed' \subseteq 1..offset'["storage"]
      BY <2>1, <2>2, <2>3 DEF TypeInv, HandlesOK
    <2>7. HandlesOK'
      BY <1>1, <1>3, <2>2, <2>4, <2>5, <2>6 DEF TypeInv, HandlesOK
    <2> QED BY <1>2, <2>7 DEF TypeInv
  <1> QED BY <1>5, <1>6

\* One output goes to the bus.
LEMMA PublishTyped ==
  ASSUME TypeInv, NEW a \in Agent, Publish(a)
  PROVE  TypeInv' /\ Grown
  <1> DEFINE o == Head(todo[a])
             q == Tail(todo[a])
             e == [change |-> o.change, attempt |-> o.arg]
  <1>1. /\ todo[a] # << >> /\ todo' = [todo EXCEPT ![a] = q]
        /\ fresh' = IF o.topic = "freshness.events.v1" THEN Append(fresh, e) ELSE fresh
        /\ norm' = IF o.topic = "match.normalized" THEN Append(norm, o.arg) ELSE norm
        /\ UNCHANGED <<offset, orphan, batch, cur, store, ledger, trained, old,
                       changes, seen, reclaimed>>
    BY DEF Publish, memoryVars, historyVars, TypeInv, OutputsOK
  <1>2. /\ todo[a] \in Seq(Message) /\ Len(changes) \in Nat /\ Len(fresh) \in Nat
        /\ \A i \in 1..Len(todo[a]) : Sound(todo[a][i], Len(changes))
    BY DEF TypeInv, OutputsOK, StreamsOK
  <1>3. /\ q \in Seq(Message) /\ o \in Message
        /\ Sound(o, Len(changes)) /\ \A i \in 1..Len(q) : Sound(q[i], Len(changes))
    BY <1>1, <1>2, TailIs
  <1> HIDE DEF o, q
  <1>4. OutputsOK'
    <2>1. todo' \in [Agent -> Seq(Message)] /\ todo'[a] = q
          /\ \A b \in Agent \ {a} : todo'[b] = todo[b]
      BY <1>1, <1>3 DEF TypeInv, OutputsOK
    <2>2. cur[a] # 0
      BY <1>1 DEF TypeInv, OutputsOK
    <2> QED BY <1>1, <1>3, <2>1, <2>2 DEF TypeInv, OutputsOK
  <1>5. CASE o.topic = "freshness.events.v1"
    <2>0. norm' = norm
      BY <1>1, <1>5
    <2>1. o.change \in 1..Len(changes) /\ o.arg \in 0..(RetryBudget - 1) /\ o.arg \in Nat
      BY <1>2, <1>3, <1>5, Limits DEF Sound, Message
    <2>2. e \in [change : Nat, attempt : Nat] /\ e.change = o.change /\ e.attempt = o.arg
      BY <2>1
    <2>3. fresh' = Append(fresh, e)
      BY <1>1, <1>5
    <2> HIDE DEF e
    <2>4. /\ fresh' \in Seq([change : Nat, attempt : Nat]) /\ Len(fresh') = Len(fresh) + 1
          /\ \A h \in 1..Len(fresh) : fresh'[h] = fresh[h]
          /\ fresh'[Len(fresh) + 1] = e
      BY <2>2, <2>3 DEF TypeInv, StreamsOK
    <2>5. Grown
      BY <1>1, <2>0, <2>3, GrowsSame, GrowsAppend DEF Grown, TypeInv, StreamsOK
    <2>6. ASSUME NEW h \in 1..Len(fresh')
          PROVE  /\ fresh'[h].change \in 1..Len(changes)
                 /\ fresh'[h].attempt \in 0..(RetryBudget - 1)
      <3>1. CASE h = Len(fresh) + 1
        BY <2>1, <2>2, <2>4, <3>1
      <3>2. CASE h # Len(fresh) + 1
        <4>1. h \in 1..Len(fresh)
          BY <1>2, <2>4, <3>2
        <4> QED BY <2>4, <4>1 DEF TypeInv, StreamsOK
      <3> QED BY <3>1, <3>2
    <2>7. StreamsOK'
      BY <1>1, <2>0, <2>4, <2>6 DEF TypeInv, StreamsOK
    <2>8. HandlesOK'
      <3>1. \A b \in Agent : Held(b)' = Held(b)
        BY <1>1 DEF Held
      <3>2. \A b \in Agent : Len(Input(b)) <= Len(Input(b)') /\ Len(Input(b)') \in Nat
                             /\ Len(Input(b)) \in Nat
        BY <1>1, <2>0, <2>4 DEF Input, TypeInv, StreamsOK
      <3>3. \A b \in Agent : offset[b] <= Len(Input(b)')
        BY <3>2 DEF TypeInv, HandlesOK
      <3> QED BY <1>1, <3>1, <3>3 DEF TypeInv, HandlesOK
    <2> QED BY <1>1, <1>4, <2>5, <2>7, <2>8, MemorySame DEF TypeInv, StreamsOK
  <1>7. CASE o.topic = "match.normalized"
    <2>1. norm' = Append(norm, o.arg) /\ o.arg \in Entry /\ UNCHANGED <<fresh, changes>>
      BY <1>1, <1>3, <1>7 DEF Sound
    <2>2. /\ norm' \in Seq(Entry) /\ Len(norm') = Len(norm) + 1 /\ Len(norm) \in Nat
      BY <2>1 DEF TypeInv, StreamsOK
    <2>3. Grown
      BY <2>1, GrowsSame, GrowsAppend DEF Grown, TypeInv, StreamsOK
    <2>4. StreamsOK'
      BY <2>1, <2>2 DEF TypeInv, StreamsOK
    <2>5. HandlesOK'
      <3>1. \A b \in Agent : Held(b)' = Held(b)
        BY <1>1 DEF Held
      <3>2. \A b \in Agent : Len(Input(b)) <= Len(Input(b)') /\ Len(Input(b)') \in Nat
                             /\ Len(Input(b)) \in Nat
        BY <2>1, <2>2 DEF Input, TypeInv, StreamsOK
      <3>3. \A b \in Agent : offset[b] <= Len(Input(b)')
        BY <3>2 DEF TypeInv, HandlesOK
      <3> QED BY <1>1, <3>1, <3>3 DEF TypeInv, HandlesOK
    <2> QED BY <1>1, <1>4, <2>3, <2>4, <2>5, MemorySame DEF TypeInv, StreamsOK
  <1>6. CASE o.topic \notin {"freshness.events.v1", "match.normalized"}
    <2>1. UNCHANGED <<norm, fresh, changes>>
      BY <1>1, <1>6
    <2>2. StreamsOK' /\ Grown /\ MemoryOK'
      BY <1>1, <2>1, StreamsSame, MemorySame DEF TypeInv, StreamsOK
    <2>3. HandlesOK'
      <3>1. \A b \in Agent : Held(b)' = Held(b) /\ Input(b)' = Input(b)
        BY <1>1, <2>1 DEF Held, Input
      <3> QED BY <1>1, <3>1 DEF TypeInv, HandlesOK
    <2> QED BY <1>4, <2>2, <2>3 DEF TypeInv
  <1> QED BY <1>5, <1>6, <1>7

LEMMA AckTyped ==
  ASSUME TypeInv, NEW a \in Agent, Ack(a)
  PROVE  TypeInv' /\ Grown
  <1>1. /\ cur' = [cur EXCEPT ![a] = 0] /\ todo[a] = << >>
        /\ UNCHANGED <<norm, fresh, offset, orphan, batch, todo, store, ledger, trained, old,
                       changes, seen, reclaimed>>
    BY DEF Ack, busVars, memoryVars, historyVars
  <1>2. StreamsOK' /\ Grown /\ MemoryOK'
    BY <1>1, StreamsSame, MemorySame DEF TypeInv, StreamsOK
  <1>3. HandlesOK'
    <2>1. \A b \in Agent : Held(b)' \subseteq Held(b) /\ Input(b)' = Input(b)
      BY <1>1 DEF Held, Input, TypeInv, HandlesOK
    <2>2. cur' \in [Agent -> Nat]
      BY <1>1 DEF TypeInv, HandlesOK
    <2> QED BY <1>1, <2>1, <2>2 DEF TypeInv, HandlesOK
  <1>4. OutputsOK'
    BY <1>1 DEF TypeInv, OutputsOK, HandlesOK
  <1> QED BY <1>2, <1>3, <1>4 DEF TypeInv

\* An output is a message.
LEMMA OutIs ==
  ASSUME NEW topic \in Topic, NEW n \in Nat, NEW arg \in Arg
  PROVE  /\ Out(topic, n, arg) \in Message /\ Out(topic, n, arg).topic = topic
         /\ Out(topic, n, arg).change = n /\ Out(topic, n, arg).arg = arg
  BY DEF Out, Message

\* An entry of match.normalized.
LEMMA NormIs ==
  ASSUME StreamsOK, NEW h \in 1..Len(norm)
  PROVE  /\ norm[h] \in Entry /\ norm[h][1] \in Record /\ norm[h][2] \in Value
         /\ norm[h][3] \in 0..(RetryBudget - 1)
  <1>1. norm[h] \in Entry
    BY DEF StreamsOK
  <1> QED BY <1>1 DEF Entry

\* The retry copy of an entry, or its dead letter.
LEMMA StoreFailureIs ==
  ASSUME NEW e \in Entry
  PROVE  /\ StoreFailure(e) \in Seq(Message)
         /\ \A k \in Nat : \A i \in 1..Len(StoreFailure(e)) : Sound(StoreFailure(e)[i], k)
         /\ \A o \in Range(StoreFailure(e)) : o.topic # "predict.request"
  <1>0. /\ e[1] \in Record /\ e[2] \in Value /\ e[3] \in 0..(RetryBudget - 1) /\ e \in Arg
        /\ "match.normalized" \in Topic /\ "match.normalized.dlq" \in Topic
    BY DEF Entry, Arg, Topic
  <1>1. PICK o \in Message : /\ StoreFailure(e) = <<o>> /\ \A k \in Nat : Sound(o, k)
                             /\ o.topic # "predict.request"
    <2>1. CASE e[3] + 1 >= RetryBudget
      <3> DEFINE o == Out("match.normalized.dlq", 0, e)
      <3>1. o \in Message /\ o.topic = "match.normalized.dlq" /\ o.change = 0
        BY <1>0, OutIs
      <3>2. StoreFailure(e) = <<o>>
        BY <2>1 DEF StoreFailure
      <3> HIDE DEF o
      <3>3. \A k \in Nat : Sound(o, k)
        BY <3>1 DEF Sound
      <3> QED BY <3>1, <3>2, <3>3
    <2>2. CASE ~(e[3] + 1 >= RetryBudget)
      <3> DEFINE f == <<e[1], e[2], e[3] + 1>>
                 o == Out("match.normalized", 0, f)
      <3>1. e[3] + 1 \in 0..(RetryBudget - 1)
        BY <1>0, <2>2, Limits
      <3>2. f \in Entry /\ f \in Arg
        BY <1>0, <3>1 DEF Entry, Arg
      <3>3. StoreFailure(e) = <<o>>
        BY <2>2 DEF StoreFailure
      <3> HIDE DEF f
      <3>4. o \in Message /\ o.topic = "match.normalized" /\ o.change = 0 /\ o.arg = f
        BY <1>0, <3>2, OutIs
      <3> HIDE DEF o
      <3>5. \A k \in Nat : Sound(o, k)
        BY <3>2, <3>4 DEF Sound
      <3> QED BY <3>3, <3>4, <3>5
    <2> QED BY <2>1, <2>2
  <1>2. <<o>> \in Seq(Message) /\ Len(<<o>>) = 1 /\ <<o>>[1] = o /\ Range(<<o>>) = {o}
    BY DEF Range
  <1> QED BY <1>1, <1>2

\* The change an upsert makes.
LEMMA ChangeIs ==
  ASSUME TypeInv, NEW h \in 1..Len(norm)
  PROVE  LET c == Change(h, norm[h][1], norm[h][2]) IN
         /\ c \in ChangeRecord /\ c.rec = norm[h][1] /\ c.by = h
  <1> DEFINE r == norm[h][1]
             v == norm[h][2]
  <1>1. r \in Record /\ v \in Value /\ h \in Nat
    BY NormIs DEF TypeInv, StreamsOK
  <1>2. CASE store[r] = 0
    <2>1. Change(h, r, v) = [rec |-> r, kind |-> "created", diff |-> << >>, by |-> h]
      BY <1>2 DEF Change
    <2>2. << >> \in Seq(Value)
      OBVIOUS
    <2> HIDE DEF r, v
    <2>3. Change(h, r, v) \in ChangeRecord /\ Change(h, r, v).rec = r /\ Change(h, r, v).by = h
      BY <1>1, <2>1, <2>2 DEF ChangeRecord
    <2> QED BY <2>3 DEF r, v
  <1>3. CASE store[r] # 0
    <2>1. store[r] \in 1..Len(norm)
      BY <1>1, <1>3 DEF TypeInv, MemoryOK, StreamsOK
    <2>2. RowValue(r) \in Value
      BY <2>1, NormIs DEF RowValue, TypeInv
    <2> HIDE DEF r, v
    <2>3. <<RowValue(r), v>> \in Seq(Value)
      BY <1>1, <2>2
    <2>4. Change(h, r, v) = [rec |-> r, kind |-> "updated", diff |-> <<RowValue(r), v>>, by |-> h]
      BY <1>3 DEF Change
    <2>5. Change(h, r, v) \in ChangeRecord /\ Change(h, r, v).rec = r /\ Change(h, r, v).by = h
      BY <1>1, <2>3, <2>4 DEF ChangeRecord
    <2> QED BY <2>5 DEF r, v
  <1> QED BY <1>2, <1>3

\* The outputs of a change.
LEMMA AnnouncementIs ==
  ASSUME NEW n \in Nat, n # 0, NEW kind \in Kind, NEW v \in Value
  PROVE  LET outs == Announcement(n, kind, v) IN
         /\ outs \in Seq(Message) /\ \A i \in 1..Len(outs) : Sound(outs[i], n)
         /\ Out("freshness.events.v1", n, 0) \in Range(outs)
  <1> DEFINE x == Out("match.stored", n, kind)
             y == Out("freshness.events.v1", n, 0)
             z == Out("match.outcome.v1", n, v)
  <1>0. /\ kind \in Arg /\ v \in Arg /\ 0 \in Arg
        /\ "match.stored" \in Topic /\ "freshness.events.v1" \in Topic
        /\ "match.outcome.v1" \in Topic
    BY DEF Arg, Topic
  <1>1. x \in Message /\ Sound(x, n)
    <2>1. x \in Message /\ x.change = n /\ x.topic = "match.stored"
      BY <1>0, OutIs
    <2> HIDE DEF x
    <2> QED BY <2>1 DEF Sound
  <1>2. y \in Message /\ Sound(y, n)
    <2>1. y \in Message /\ y.change = n /\ y.arg = 0 /\ y.topic = "freshness.events.v1"
      BY <1>0, OutIs
    <2> HIDE DEF y
    <2> QED BY <2>1, Limits DEF Sound
  <1>3. z \in Message /\ Sound(z, n)
    <2>1. z \in Message /\ z.change = n /\ z.topic = "match.outcome.v1"
      BY <1>0, OutIs
    <2> HIDE DEF z
    <2> QED BY <2>1 DEF Sound
  <1> HIDE DEF x, y, z
  <1> DEFINE q == <<x, y>>
             w == IF v \in Terminal THEN <<z>> ELSE << >>
  <1>4. Announcement(n, kind, v) = q \o w
    BY DEF Announcement, x, y, z
  <1>5. q \in Seq(Message) /\ Len(q) = 2 /\ q[1] = x /\ q[2] = y
    BY <1>1, <1>2
  <1>6. w \in Seq(Message) /\ Len(w) \in Nat /\ \A i \in 1..Len(w) : w[i] = z
    <2>1. <<z>> \in Seq(Message) /\ Len(<<z>>) = 1 /\ <<z>>[1] = z
      BY <1>3
    <2>2. << >> \in Seq(Message) /\ Len(<< >>) = 0
      OBVIOUS
    <2> QED BY <2>1, <2>2
  <1> HIDE DEF q, w
  <1>7. q \in Seq(Message) /\ w \in Seq(Message)
    BY <1>5, <1>6
  <1>8. /\ q \o w \in Seq(Message) /\ Len(q \o w) = 2 + Len(w)
        /\ \A i \in 1..(2 + Len(w)) : (q \o w)[i] = IF i <= 2 THEN q[i] ELSE w[i - 2]
    <2>1. /\ q \o w \in Seq(Message) /\ Len(q \o w) = Len(q) + Len(w)
          /\ \A i \in 1..(Len(q) + Len(w)) :
               (q \o w)[i] = IF i <= Len(q) THEN q[i] ELSE w[i - Len(q)]
      BY <1>7
    <2>2. Len(q) = 2
      BY <1>5
    <2> QED BY <2>1, <2>2
  <1>9. y \in Range(q \o w)
    <2>1. 2 \in 1..Len(q \o w) /\ (q \o w)[2] = y
      BY <1>5, <1>6, <1>8
    <2> QED BY <1>8, <2>1, RangeIs
  <1>10. ASSUME NEW i \in 1..Len(q \o w) PROVE Sound((q \o w)[i], n)
    <2>1. CASE i <= 2
      <3>1. i = 1 \/ i = 2
        BY <2>1
      <3> QED BY <1>1, <1>2, <1>5, <1>6, <1>8, <3>1
    <2>2. CASE ~(i <= 2)
      <3>1. i - 2 \in 1..Len(w) /\ (q \o w)[i] = w[i - 2]
        BY <1>6, <1>8, <2>2
      <3> QED BY <1>3, <1>6, <3>1
    <2> QED BY <2>1, <2>2
  <1> QED BY <1>4, <1>8, <1>9, <1>10 DEF y

\* The log of changes grows by one.
LEMMA LogGrows ==
  ASSUME StreamsOK, NEW c \in ChangeRecord, c.by \in 1..Len(norm), changes' = Append(changes, c),
         UNCHANGED <<norm, fresh>>
  PROVE  /\ StreamsOK' /\ Grown /\ Len(changes) \in Nat /\ Len(changes') = Len(changes) + 1
         /\ changes'[Len(changes')] = c
  <1>1. /\ changes' \in Seq(ChangeRecord) /\ Len(changes) \in Nat
        /\ Len(changes') = Len(changes) + 1 /\ changes'[Len(changes) + 1] = c
        /\ \A n \in 1..Len(changes) : changes'[n] = changes[n]
    BY DEF StreamsOK
  <1>2. Grown
    BY GrowsSame, GrowsAppend DEF Grown, StreamsOK
  <1>3. \A n \in 1..Len(changes') : changes'[n].by \in 1..Len(norm)
    <2> SUFFICES ASSUME NEW n \in 1..Len(changes') PROVE changes'[n].by \in 1..Len(norm)
      OBVIOUS
    <2>1. CASE n = Len(changes) + 1
      BY <1>1, <2>1
    <2>2. CASE n # Len(changes) + 1
      <3>1. n \in 1..Len(changes)
        BY <1>1, <2>2
      <3> QED BY <1>1, <3>1 DEF StreamsOK
    <2> QED BY <2>1, <2>2
  <1>4. \A h \in 1..Len(fresh) : fresh[h].change \in 1..Len(changes')
    BY <1>1 DEF StreamsOK
  <1>5. StreamsOK'
    BY <1>1, <1>3, <1>4 DEF StreamsOK
  <1> QED BY <1>1, <1>2, <1>5

\* StorageAgent.handle.
LEMMA StoreTyped ==
  ASSUME TypeInv, Store
  PROVE  TypeInv' /\ Grown
  <1>1. PICK h \in batch["storage"] :
          /\ StoreMalformed(h) \/ StoreUnchanged(h) \/ StoreChange(h) \/ StoreRaises(h)
          /\ seen' = seen \union {h}
    BY DEF Store
  <1>2. UNCHANGED <<ledger, trained, old, reclaimed>>
    BY DEF Store
  <1>3. "storage" \in Agent /\ h \in 1..Len(norm) /\ Len(changes) \in Nat
    BY Limits, HandleIs DEF Input, TypeInv, StreamsOK
  <1>4. CASE StoreMalformed(h) \/ StoreUnchanged(h)
    <2>1. PICK outs \in Seq(Message) :
            Begin("storage", h, outs) /\ \A i \in 1..Len(outs) : Sound(outs[i], Len(changes))
      <3>1. CASE StoreMalformed(h)
        <4>1. << >> \in Seq(Message) /\ \A i \in 1..Len(<< >>) : Sound(<< >>[i], Len(changes))
          OBVIOUS
        <4>2. Begin("storage", h, << >>)
          BY <3>1 DEF StoreMalformed
        <4> QED BY <4>1, <4>2, Zenon
      <3>2. CASE StoreUnchanged(h)
        <4> DEFINE x == Out("match.stored", 0, "unchanged")
        <4>1. x \in Message /\ x.topic = "match.stored" /\ x.change = 0
          <5>1. "match.stored" \in Topic /\ "unchanged" \in Arg /\ 0 \in Nat
            BY DEF Topic, Kind, Arg
          <5> QED BY <5>1, OutIs
        <4>2. Begin("storage", h, <<x>>)
          BY <3>2 DEF StoreUnchanged
        <4> HIDE DEF x
        <4>3. Sound(x, Len(changes))
          BY <1>3, <4>1 DEF Sound
        <4>4. <<x>> \in Seq(Message) /\ \A i \in 1..Len(<<x>>) : <<x>>[i] = x
          BY <4>1
        <4> QED BY <4>2, <4>3, <4>4
      <3> QED BY <1>4, <3>1, <3>2
    <2>2. UNCHANGED <<norm, fresh, changes, store>>
      BY <1>4, <2>1 DEF StoreMalformed, StoreUnchanged, Begin, busVars
    <2>3. HandlesOK' /\ OutputsOK'
      BY <1>1, <1>2, <1>3, <2>1, <2>2, BeginTyped
    <2>4. StreamsOK' /\ Grown /\ MemoryOK'
      BY <1>2, <2>2, StreamsSame, MemorySame DEF TypeInv, StreamsOK
    <2> QED BY <2>3, <2>4 DEF TypeInv
  <1>5. CASE StoreChange(h) \/ StoreRaises(h)
    <2> DEFINE r == norm[h][1]
               v == norm[h][2]
               c == Change(h, r, v)
    <2>1. /\ store' = [store EXCEPT ![r] = h] /\ changes' = Append(changes, c)
          /\ \/ Begin("storage", h, Announcement(Len(changes'), c.kind, v))
             \/ Begin("storage", h, StoreFailure(norm[h]))
      BY <1>5 DEF StoreChange, StoreRaises, Upsert
    <2>2. c \in ChangeRecord /\ c.by = h /\ r \in Record /\ v \in Value
      BY <1>3, ChangeIs, NormIs DEF TypeInv
    <2>3. UNCHANGED <<norm, fresh>>
      BY <2>1 DEF Begin, busVars
    <2> HIDE DEF c, r, v
    <2>4. StreamsOK' /\ Grown /\ Len(changes') = Len(changes) + 1
      BY <1>3, <2>1, <2>2, <2>3, LogGrows DEF TypeInv
    <2>5. c.kind \in Kind
      BY <2>2 DEF ChangeRecord, Kind
    <2>6. PICK outs \in Seq(Message) :
            Begin("storage", h, outs) /\ \A i \in 1..Len(outs) : Sound(outs[i], Len(changes'))
      <3> DEFINE announced == Announcement(Len(changes'), c.kind, v)
                 failed == StoreFailure(norm[h])
      <3>1. announced \in Seq(Message) /\ \A i \in 1..Len(announced) : Sound(announced[i], Len(changes'))
        BY <1>3, <2>2, <2>4, <2>5, AnnouncementIs
      <3>2. failed \in Seq(Message) /\ \A i \in 1..Len(failed) : Sound(failed[i], Len(changes'))
        <4>1. norm[h] \in Entry /\ Len(changes') \in Nat
          BY <1>3, <2>4, NormIs DEF TypeInv
        <4> QED BY <4>1, StoreFailureIs
      <3>3. Begin("storage", h, announced) \/ Begin("storage", h, failed)
        BY <2>1
      <3> HIDE DEF announced, failed
      <3> QED BY <3>1, <3>2, <3>3
    <2>7. HandlesOK' /\ OutputsOK'
      BY <1>1, <1>2, <1>3, <2>4, <2>6, BeginTyped
    <2>8. MemoryOK'
      <3>1. Seq(EventIds) \subseteq Seq(EventIds')
        BY <2>4, IdsGrow DEF Grown, TypeInv, StreamsOK
      <3>2. store' \in [Record -> Nat] /\ \A q \in Record : store'[q] <= Len(norm')
        BY <1>3, <2>1, <2>2, <2>3 DEF TypeInv, MemoryOK, StreamsOK
      <3>3. ledger' \in [Reactor -> Seq(EventIds')]
        BY <1>2, <3>1 DEF TypeInv, MemoryOK
      <3>4. trained' \in [Predictor -> Nat] /\ \A p \in Predictor : trained'[p] <= Len(changes')
        BY <1>2, <1>3, <2>4 DEF TypeInv, MemoryOK
      <3>5. old' \in Nat /\ old' <= Len(changes') /\ \A a \in Reactor : Len(ledger'[a]) <= LedgerSize
        BY <1>2, <1>3, <2>4 DEF TypeInv, MemoryOK
      <3> QED BY <3>2, <3>3, <3>4, <3>5 DEF MemoryOK
    <2> QED BY <2>4, <2>7, <2>8 DEF TypeInv
  <1> QED BY <1>1, <1>4, <1>5

\* The event a reactor takes from its batch.
LEMMA EventIs ==
  ASSUME TypeInv, NEW a \in Reactor, NEW h \in batch[a]
  PROVE  /\ a \in Agent /\ a # "storage" /\ h \in 1..Len(fresh)
         /\ fresh[h].change \in 1..Len(changes) /\ Len(changes) \in Nat
         /\ fresh[h].attempt \in 0..(RetryBudget - 1)
         /\ changes[fresh[h].change].rec \in Record
         /\ IdOf(fresh[h].change) \in EventIds
  <1>1. a \in Agent /\ a # "storage"
    BY Limits
  <1>2. h \in 1..Len(fresh)
    BY <1>1, HandleIs DEF Input, TypeInv
  <1>3. /\ fresh[h].change \in 1..Len(changes) /\ Len(changes) \in Nat
        /\ fresh[h].attempt \in 0..(RetryBudget - 1)
    BY <1>2 DEF TypeInv, StreamsOK
  <1>4. changes[fresh[h].change] \in ChangeRecord
    BY <1>3 DEF TypeInv, StreamsOK
  <1>5. fresh[h].change \in DOMAIN changes
    BY <1>3 DEF TypeInv, StreamsOK
  <1> QED BY <1>1, <1>2, <1>3, <1>4, <1>5 DEF ChangeRecord, EventIds

\* A reaction whose outputs, ledger and stamps are about changes made.
LEMMA ReactionTyped ==
  ASSUME TypeInv, NEW a \in Reactor, NEW h \in batch[a], NEW outs \in Seq(Message),
         Begin(a, h, outs), \A i \in 1..Len(outs) : Sound(outs[i], Len(changes)),
         UNCHANGED <<store, old, changes, seen, reclaimed>>,
         \/ ledger' = ledger
         \/ ledger' = [ledger EXCEPT ![a] = Marked(@, IdOf(fresh[h].change))],
         trained' \in [Predictor -> Nat], \A p \in Predictor : trained'[p] <= Len(changes)
  PROVE  TypeInv' /\ Grown
  <1>1. a \in Agent /\ IdOf(fresh[h].change) \in EventIds /\ Len(changes) \in Nat
    BY EventIs
  <1>2. UNCHANGED <<norm, fresh>>
    BY DEF Begin, busVars
  <1>3. HandlesOK' /\ OutputsOK'
    BY <1>1, BeginTyped
  <1>4. StreamsOK' /\ Grown
    BY <1>2, StreamsSame
  <1>5. EventIds' = EventIds
    BY DEF EventIds, IdOf
  <1>6. ledger' \in [Reactor -> Seq(EventIds)] /\ \A b \in Reactor : Len(ledger'[b]) <= LedgerSize
    <2>1. CASE ledger' = ledger
      BY <2>1 DEF TypeInv, MemoryOK
    <2>2. CASE ledger' = [ledger EXCEPT ![a] = Marked(@, IdOf(fresh[h].change))]
      <3> DEFINE m == Marked(ledger[a], IdOf(fresh[h].change))
      <3>1. m \in Seq(EventIds) /\ Len(m) <= LedgerSize
        BY <1>1, MarkedIs DEF TypeInv, MemoryOK
      <3>2. ledger' = [ledger EXCEPT ![a] = m]
        BY <2>2 DEF TypeInv, MemoryOK
      <3> HIDE DEF m
      <3> QED BY <3>1, <3>2 DEF TypeInv, MemoryOK
    <2> QED BY <2>1, <2>2
  <1>7. MemoryOK'
    BY <1>2, <1>5, <1>6 DEF TypeInv, MemoryOK
  <1> QED BY <1>3, <1>4, <1>7 DEF TypeInv

LEMMA NoOutputs ==
  << >> \in Seq(Message) /\ \A k : \A i \in 1..Len(<< >>) : Sound(<< >>[i], k)
  OBVIOUS

LEMMA MarketsIs == \A plane : Markets(plane) \in Seq(Market)
  <1> SUFFICES ASSUME NEW plane PROVE Markets(plane) \in Seq(Market)
    OBVIOUS
  <1>1. <<"1x2", "ah">> \in Seq(Market)
    BY DEF Market
  <1>2. <<"ah", "ou_2_5", "btts">> \in Seq(Market)
    BY DEF Market
  <1>3. << >> \in Seq(Market)
    OBVIOUS
  <1> QED BY <1>1, <1>2, <1>3 DEF Markets

\* One output for each element of a sequence.
LEMMA OutsOf ==
  ASSUME NEW S, S \subseteq Arg, NEW q \in Seq(S), NEW topic \in Topic, NEW n \in Nat,
         topic \notin {"freshness.events.v1", "match.normalized"}
  PROVE  \A outs : outs = [i \in DOMAIN q |-> Out(topic, n, q[i])] =>
         /\ outs \in Seq(Message) /\ Len(outs) = Len(q)
         /\ \A i \in 1..Len(q) : outs[i] = Out(topic, n, q[i])
         /\ \A k \in Nat : n <= k => \A i \in 1..Len(outs) : Sound(outs[i], k)
  <1> DEFINE outs == [i \in DOMAIN q |-> Out(topic, n, q[i])]
  <1>1. ASSUME NEW i \in 1..Len(q)
        PROVE  Out(topic, n, q[i]) \in Message /\ \A k \in Nat : n <= k => Sound(Out(topic, n, q[i]), k)
    <2> DEFINE o == Out(topic, n, q[i])
    <2>1. q[i] \in Arg
      OBVIOUS
    <2>2. o \in Message /\ o.topic = topic /\ o.change = n
      BY <2>1, OutIs
    <2> HIDE DEF o
    <2>3. \A k \in Nat : n <= k => Sound(o, k)
      BY <2>2 DEF Sound
    <2> QED BY <2>2, <2>3 DEF o
  <1>2. outs = [i \in 1..Len(q) |-> Out(topic, n, q[i])] /\ Len(q) \in Nat
    OBVIOUS
  <1>3. outs \in Seq(Message) /\ Len(outs) = Len(q)
        /\ \A i \in 1..Len(q) : outs[i] = Out(topic, n, q[i])
    BY <1>1, <1>2
  <1> HIDE DEF outs
  <1>4. \A k \in Nat : n <= k => \A i \in 1..Len(outs) : Sound(outs[i], k)
    BY <1>1, <1>3
  <1> QED BY <1>3, <1>4 DEF outs

\* A change has an event id.
LEMMA IdIs ==
  ASSUME NEW c \in ChangeRecord
  PROVE  EventId(c) \in Id
  BY DEF ChangeRecord, EventId, Id

\* The requests of a change, one for each market of its record's plane.
LEMMA RequestsAre ==
  ASSUME TypeInv, NEW n \in 1..Len(changes), NEW q, q = Markets(PlaneOf[changes[n].rec])
  PROVE  /\ q \in Seq(Market)
         /\ Requests(n) \in Seq(Message) /\ Len(Requests(n)) = Len(q)
         /\ \A i \in 1..Len(q) : Requests(n)[i] = Request(EventId(changes[n]), q[i])
         /\ \A i \in 1..Len(Requests(n)) : Sound(Requests(n)[i], Len(changes))
  <1>1. q \in Seq(Market)
    BY MarketsIs
  <1>2. PICK id : id = EventId(changes[n])
    OBVIOUS
  <1>3. id \in Id
    <2>1. changes[n] \in ChangeRecord
      BY SeqElement DEF TypeInv, StreamsOK
    <2> QED BY <1>2, <2>1, IdIs
  <1>4. PICK args : args = [i \in 1..Len(q) |-> <<id, q[i]>>]
    OBVIOUS
  <1>5. /\ args \in Seq(Id \X Market) /\ Len(args) = Len(q) /\ Len(q) \in Nat
        /\ DOMAIN args = 1..Len(q) /\ DOMAIN q = 1..Len(q)
        /\ \A i \in 1..Len(q) : args[i] = <<id, q[i]>>
    BY <1>1, <1>3, <1>4
  <1>6. Requests(n) = [i \in DOMAIN args |-> Out("predict.request", 0, args[i])]
    <2>1. Requests(n) = [i \in DOMAIN q |-> Out("predict.request", 0, <<id, q[i]>>)]
      BY <1>2 DEF Requests, Request, IdOf
    <2> QED BY <1>5, <2>1
  <1>7. "predict.request" \in Topic /\ (Id \X Market) \subseteq Arg
        /\ "predict.request" # "freshness.events.v1"
    BY DEF Topic, Arg
  <1>8. /\ Requests(n) \in Seq(Message) /\ Len(Requests(n)) = Len(args)
        /\ \A i \in 1..Len(args) : Requests(n)[i] = Out("predict.request", 0, args[i])
        /\ \A k \in Nat : 0 <= k => \A i \in 1..Len(Requests(n)) : Sound(Requests(n)[i], k)
    <2>1. PICK S : S = Id \X Market
      OBVIOUS
    <2>2. S \subseteq Arg /\ args \in Seq(S) /\ 0 \in Nat
      BY <1>5, <1>7, <2>1
    <2>3. \A outs : outs = [i \in DOMAIN args |-> Out("predict.request", 0, args[i])] =>
            /\ outs \in Seq(Message) /\ Len(outs) = Len(args)
            /\ \A i \in 1..Len(args) : outs[i] = Out("predict.request", 0, args[i])
            /\ \A k \in Nat : 0 <= k => \A i \in 1..Len(outs) : Sound(outs[i], k)
      BY <1>7, <2>2, OutsOf, Zenon
    <2> QED BY <1>6, <2>3, Zenon
  <1>9. Len(changes) \in Nat /\ 0 <= Len(changes)
    BY DEF TypeInv, StreamsOK
  <1>10. \A i \in 1..Len(q) : Requests(n)[i] = Request(id, q[i])
    BY <1>5, <1>8 DEF Request
  <1> QED BY <1>1, <1>2, <1>5, <1>8, <1>9, <1>10

\* The retry or the dead letter.
LEMMA FailureIs ==
  ASSUME NEW n \in Nat, n # 0, NEW attempt \in 0..(RetryBudget - 1)
  PROVE  /\ Failure(n, attempt) \in Seq(Message)
         /\ \A k \in Nat : n <= k => \A i \in 1..Len(Failure(n, attempt)) :
              Sound(Failure(n, attempt)[i], k)
  <1>1. attempt \in Nat /\ attempt \in Arg /\ "freshness.events.v1.dlq" \in Topic /\ "freshness.events.v1" \in Topic
        /\ attempt + 1 \in Nat /\ attempt + 1 \in Arg
    BY Limits DEF Arg, Topic
  <1>2. PICK o \in Message :
          Failure(n, attempt) = <<o>> /\ \A k \in Nat : n <= k => Sound(o, k)
    <2>1. CASE attempt + 1 >= RetryBudget
      <3> DEFINE o == Out("freshness.events.v1.dlq", n, attempt)
      <3>1. o \in Message /\ o.topic = "freshness.events.v1.dlq" /\ o.change = n
        BY <1>1, OutIs
      <3>2. Failure(n, attempt) = <<o>>
        BY <2>1 DEF Failure
      <3> HIDE DEF o
      <3>3. \A k \in Nat : n <= k => Sound(o, k)
        BY <3>1 DEF Sound
      <3> QED BY <3>1, <3>2, <3>3
    <2>2. CASE ~(attempt + 1 >= RetryBudget)
      <3> DEFINE o == Out("freshness.events.v1", n, attempt + 1)
      <3>1. o \in Message /\ o.topic = "freshness.events.v1" /\ o.change = n /\ o.arg = attempt + 1
        BY <1>1, OutIs
      <3>2. Failure(n, attempt) = <<o>>
        BY <2>2 DEF Failure
      <3>3. attempt + 1 \in 0..(RetryBudget - 1)
        BY <1>1, <2>2, Limits
      <3> HIDE DEF o
      <3>4. \A k \in Nat : n <= k => Sound(o, k)
        BY <3>1, <3>3 DEF Sound
      <3> QED BY <3>1, <3>2, <3>4
    <2> QED BY <2>1, <2>2
  <1>3. <<o>> \in Seq(Message) /\ \A i \in 1..Len(<<o>>) : <<o>>[i] = o
    OBVIOUS
  <1> QED BY <1>2, <1>3

\* The due predictors in order are a sequence of them.
LEMMA ListedIs ==
  ASSUME NEW S, NEW q \in Listed(S)
  PROVE  q \in Seq(S) /\ Range(q) = S
  <1>1. q \in SeqOf(S, Len(Predictors)) /\ Range(q) = S
    BY DEF Listed
  <1>2. Len(Predictors) \in Nat
    BY PipelineAssumption
  <1>3. PICK m \in 0..Len(Predictors) : q \in [1..m -> S]
    BY <1>1 DEF SeqOf
  <1>4. m \in Nat
    BY <1>2, <1>3
  <1> QED BY <1>1, <1>3, <1>4

\* ReactorBase.handle and the reactions of the two reactors.
LEMMA ReactTyped ==
  ASSUME TypeInv, NEW a \in Reactor, React(a)
  PROVE  TypeInv' /\ Grown
  <1>1. PICK h \in batch[a] :
          \/ Ignore(a, h)
          \/ a = "live" /\ ReactLive(h)
          \/ a = "trainer" /\ (ReactTrainer(h) \/ TrainerRaises(h) \/ TrainerUnhashable(h))
    BY DEF React
  <1>2. UNCHANGED <<store, old, changes, seen, reclaimed>>
    BY DEF React
  <1> DEFINE n == fresh[h].change
  <1>3. n \in 1..Len(changes) /\ Len(changes) \in Nat /\ n \in Nat /\ n # 0 /\ n <= Len(changes)
        /\ fresh[h].attempt \in 0..(RetryBudget - 1)
    BY EventIs
  <1>4. trained \in [Predictor -> Nat] /\ \A p \in Predictor : trained[p] <= Len(changes)
    BY DEF TypeInv, MemoryOK
  <1>5. \A S : Stamp(S, n) \in [Predictor -> Nat] /\ \A p \in Predictor : Stamp(S, n)[p] <= Len(changes)
    BY <1>3, <1>4 DEF Stamp
  <1>6. "models.events.v1" \in Topic /\ Predictor \subseteq Arg
        /\ "models.events.v1" # "freshness.events.v1"
    BY DEF Topic, Arg
  <1> HIDE DEF n
  <1>7. CASE Ignore(a, h)
    BY <1>2, <1>4, <1>7, NoOutputs, ReactionTyped DEF Ignore
  <1>8. CASE a = "live" /\ ReactLive(h)
    <2>1. /\ Begin(a, h, Requests(n)) /\ trained' = trained
          /\ ledger' = [ledger EXCEPT ![a] = Marked(@, IdOf(fresh[h].change))]
      BY <1>8 DEF ReactLive, Mark, n
    <2>2. /\ Requests(n) \in Seq(Message)
          /\ \A i \in 1..Len(Requests(n)) : Sound(Requests(n)[i], Len(changes))
      BY <1>3, RequestsAre
    <2> QED BY <1>2, <1>4, <2>1, <2>2, ReactionTyped
  <1>9. CASE a = "trainer" /\ ReactTrainer(h)
    <2>1. PICK q \in Listed(Due(Predictor)) :
            Begin(a, h, [i \in DOMAIN q |-> Out("models.events.v1", n, q[i])])
      BY <1>9 DEF ReactTrainer, n
    <2>2. PICK outs : outs = [i \in DOMAIN q |-> Out("models.events.v1", n, q[i])]
      OBVIOUS
    <2>3. q \in Seq(Due(Predictor)) /\ Due(Predictor) \subseteq Arg
      <3>1. Due(Predictor) \subseteq Predictor
        BY DEF Due
      <3> QED BY <1>6, <3>1, ListedIs
    <2>4. outs \in Seq(Message) /\ \A i \in 1..Len(outs) : Sound(outs[i], Len(changes))
      BY <1>3, <1>6, <2>2, <2>3, OutsOf
    <2>5. Begin(a, h, outs)
      BY <2>1, <2>2
    <2>6. /\ trained' = Stamp(Due(Predictor), n)
          /\ ledger' = [ledger EXCEPT ![a] = Marked(@, IdOf(fresh[h].change))]
      BY <1>9 DEF ReactTrainer, Mark, n
    <2> QED BY <1>2, <1>5, <2>4, <2>5, <2>6, ReactionTyped
  <1>10. CASE a = "trainer" /\ (TrainerRaises(h) \/ TrainerUnhashable(h))
    <2> DEFINE outs == Failure(n, fresh[h].attempt)
    <2>1. outs \in Seq(Message) /\ \A i \in 1..Len(outs) : Sound(outs[i], Len(changes))
      BY <1>3, FailureIs
    <2>2. Begin(a, h, outs) /\ ledger' = ledger /\ (trained' = trained \/ \E S : trained' = Stamp(S, n))
      <3>1. CASE TrainerRaises(h)
        <4>1. PICK k \in DOMAIN Predictors :
                /\ Begin("trainer", h, Failure(fresh[h].change, fresh[h].attempt))
                /\ trained' = Stamp(Due({Predictors[i] : i \in 1..(k - 1)}), fresh[h].change)
                /\ ledger' = ledger
          BY <3>1, Zenon DEF TrainerRaises
        <4> QED BY <1>10, <4>1 DEF n
      <3>2. CASE TrainerUnhashable(h)
        BY <1>10, <3>2 DEF TrainerUnhashable, n
      <3> QED BY <1>10, <3>1, <3>2
    <2> HIDE DEF outs
    <2>3. trained' \in [Predictor -> Nat] /\ \A p \in Predictor : trained'[p] <= Len(changes)
      BY <1>4, <1>5, <2>2
    <2> QED BY <1>2, <2>1, <2>2, <2>3, ReactionTyped
  <1> QED BY <1>1, <1>7, <1>8, <1>9, <1>10

\* A process dies.
LEMMA CrashTyped ==
  ASSUME TypeInv, NEW a \in Agent, Crash(a)
  PROVE  TypeInv' /\ Grown
  <1>1. /\ orphan' = [orphan EXCEPT ![a] = Held(a)] /\ cur' = [cur EXCEPT ![a] = 0]
        /\ batch' = [batch EXCEPT ![a] = {}] /\ todo' = [todo EXCEPT ![a] = << >>]
        /\ seen' \subseteq seen
        /\ UNCHANGED <<norm, fresh, offset, old, changes, reclaimed>>
    BY DEF Crash
  <1>2. StreamsOK' /\ Grown
    BY <1>1, StreamsSame
  <1>3. Held(a) \subseteq 1..offset[a] /\ Held(a) \subseteq Nat
    BY DEF TypeInv, HandlesOK
  <1>4. HandlesOK'
    <2>1. /\ orphan' \in [Agent -> SUBSET Nat] /\ batch' \in [Agent -> SUBSET Nat]
          /\ cur' \in [Agent -> Nat]
      BY <1>1, <1>3 DEF TypeInv, HandlesOK
    <2>2. \A b \in Agent : Held(b)' \subseteq Held(b) /\ Input(b)' = Input(b)
      BY <1>1 DEF Held, Input, TypeInv, HandlesOK
    <2> QED BY <1>1, <2>1, <2>2 DEF TypeInv, HandlesOK
  <1>5. OutputsOK'
    <2>1. << >> \in Seq(Message) /\ Len(<< >>) = 0
      OBVIOUS
    <2>2. todo' \in [Agent -> Seq(Message)] /\ todo'[a] = << >>
          /\ \A b \in Agent \ {a} : todo'[b] = todo[b] /\ cur'[b] = cur[b]
      BY <1>1, <2>1 DEF TypeInv, OutputsOK, HandlesOK
    <2> QED BY <1>1, <2>1, <2>2 DEF TypeInv, OutputsOK
  <1>6. MemoryOK'
    <2>1. store' \in [Record -> Nat] /\ \A r \in Record : store'[r] <= Len(norm)
      <3>1. Len(norm) \in Nat
        BY DEF TypeInv, StreamsOK
      <3> QED BY <3>1 DEF Crash, StoreAfter, TypeInv, MemoryOK
    <2>2. ledger' \in [Reactor -> Seq(EventIds)] /\ \A b \in Reactor : Len(ledger'[b]) <= LedgerSize
      <3>1. << >> \in Seq(EventIds) /\ Len(<< >>) <= LedgerSize
        BY Limits
      <3> QED BY <3>1 DEF Crash, LedgerAfter, TypeInv, MemoryOK
    <2>3. trained' \in [Predictor -> Nat] /\ \A p \in Predictor : trained'[p] <= Len(changes)
      <3>1. Len(changes) \in Nat
        BY DEF TypeInv, StreamsOK
      <3> QED BY <3>1 DEF Crash, TrainedAfter, TypeInv, MemoryOK
    <2>4. EventIds' = EventIds
      BY <1>1 DEF EventIds, IdOf
    <2> QED BY <1>1, <2>1, <2>2, <2>3, <2>4 DEF TypeInv, MemoryOK
  <1> QED BY <1>2, <1>4, <1>5, <1>6 DEF TypeInv

\* The clocks of max_age_sec and debounce_sec.
LEMMA ClockTyped ==
  ASSUME TypeInv, (\E n \in DOMAIN changes : Age(n)) \/ Elapse
  PROVE  TypeInv' /\ Grown
  <1>1. UNCHANGED <<norm, fresh, offset, orphan, batch, cur, todo, store, ledger, changes,
                    seen, reclaimed>>
    BY DEF Age, Elapse, busVars, runnerVars, memoryVars
  <1>2. StreamsOK' /\ Grown /\ OutputsOK'
    BY <1>1, StreamsSame, OutputsSame
  <1>3. HandlesOK'
    <2>1. \A b \in Agent : Held(b)' = Held(b) /\ Input(b)' = Input(b)
      BY <1>1 DEF Held, Input
    <2> QED BY <1>1, <2>1 DEF TypeInv, HandlesOK
  <1>4. EventIds' = EventIds
    BY <1>1 DEF EventIds, IdOf
  <1>5. trained' \in [Predictor -> Nat] /\ \A p \in Predictor : trained'[p] <= Len(changes)
    <2>1. Len(changes) \in Nat
      BY DEF TypeInv, StreamsOK
    <2> QED BY <2>1 DEF Age, Elapse, memoryVars, TypeInv, MemoryOK
  <1>6. old' \in Nat /\ old' <= Len(changes)
    BY DEF Age, Elapse, TypeInv, MemoryOK, StreamsOK
  <1>7. MemoryOK'
    BY <1>1, <1>4, <1>5, <1>6 DEF TypeInv, MemoryOK
  <1> QED BY <1>2, <1>3, <1>7 DEF TypeInv

LEMMA StepTyped ==
  ASSUME TypeInv, [Next]_vars
  PROVE  TypeInv' /\ Grown
  <1>1. CASE UNCHANGED vars
    <2>1. UNCHANGED <<norm, fresh, changes, store, ledger, trained, old, todo, cur, offset,
                      orphan, batch, seen, reclaimed>>
      BY <1>1 DEF vars, busVars, runnerVars, memoryVars, historyVars
    <2>2. StreamsOK' /\ Grown /\ MemoryOK' /\ OutputsOK'
      BY <2>1, StreamsSame, MemorySame, OutputsSame DEF TypeInv, StreamsOK
    <2>3. HandlesOK'
      <3>1. \A b \in Agent : Held(b)' = Held(b) /\ Input(b)' = Input(b)
        BY <2>1 DEF Held, Input
      <3> QED BY <2>1, <3>1 DEF TypeInv, HandlesOK
    <2> QED BY <2>2, <2>3 DEF TypeInv
  <1>2. ASSUME NEW a \in Agent, Step(a) PROVE TypeInv' /\ Grown
    BY <1>2, FetchTyped, PublishTyped, AckTyped, StoreTyped, ReactTyped DEF Step
  <1> QED BY <1>1, <1>2, ScrapeTyped, CrashTyped, ClockTyped DEF Next

LEMMA InitTyped == Init => TypeInv
  <1> SUFFICES ASSUME Init PROVE TypeInv
    OBVIOUS
  <1>1. norm = << >> /\ fresh = << >> /\ changes = << >>
    BY DEF Init
  <1>2. \A S : << >> \in Seq(S) /\ Len(<< >>) = 0
    OBVIOUS
  <1>3. StreamsOK
    BY <1>1, <1>2, Limits DEF StreamsOK
  <1>4. \A a \in Agent : Len(Input(a)) = 0 /\ offset[a] = 0 /\ Held(a) = {}
    BY <1>1, <1>2 DEF Init, Input, Held
  <1>5. HandlesOK
    BY <1>4 DEF Init, HandlesOK
  <1>6. OutputsOK
    BY <1>2 DEF Init, OutputsOK
  <1>7. MemoryOK
    BY <1>1, <1>2, Limits DEF Init, MemoryOK
  <1> QED BY <1>3, <1>5, <1>6, <1>7 DEF TypeInv

LEMMA TypeParts == TypeInv => TypeOK
  <1> SUFFICES ASSUME TypeInv PROVE TypeOK
    OBVIOUS
  <1>1. DOMAIN norm = 1..Len(norm) /\ DOMAIN changes = 1..Len(changes)
        /\ Len(norm) \in Nat /\ Len(changes) \in Nat /\ Len(fresh) \in Nat
    BY DEF TypeInv, StreamsOK
  <1>2. changes \in Seq([rec : Record, kind : {"created", "updated"}, diff : Seq(Value),
                         by : DOMAIN norm])
    <2>1. \A n \in 1..Len(changes) :
            changes[n] \in [rec : Record, kind : {"created", "updated"}, diff : Seq(Value),
                            by : DOMAIN norm]
      <3> SUFFICES ASSUME NEW n \in 1..Len(changes)
                   PROVE  changes[n] \in [rec : Record, kind : {"created", "updated"},
                                          diff : Seq(Value), by : DOMAIN norm]
        OBVIOUS
      <3>1. changes[n] \in ChangeRecord /\ changes[n].by \in DOMAIN norm
        BY <1>1 DEF TypeInv, StreamsOK
      <3> QED BY <3>1 DEF ChangeRecord
    <2>2. changes \in Seq(ChangeRecord)
      BY DEF TypeInv, StreamsOK
    <2> QED BY <2>1, <2>2, SeqOfType
  <1>3. fresh \in Seq([change : DOMAIN changes, attempt : 0..(RetryBudget - 1)])
    <2>1. \A h \in 1..Len(fresh) :
            fresh[h] \in [change : DOMAIN changes, attempt : 0..(RetryBudget - 1)]
      <3> SUFFICES ASSUME NEW h \in 1..Len(fresh)
                   PROVE  fresh[h] \in [change : DOMAIN changes, attempt : 0..(RetryBudget - 1)]
        OBVIOUS
      <3>1. /\ fresh[h] \in [change : Nat, attempt : Nat]
            /\ fresh[h].change \in 1..Len(changes) /\ fresh[h].attempt \in 0..(RetryBudget - 1)
        <4>1. fresh \in Seq([change : Nat, attempt : Nat])
          BY DEF TypeInv, StreamsOK
        <4>2. fresh[h] \in [change : Nat, attempt : Nat]
          BY <4>1, SeqElement, Zenon
        <4> QED BY <4>2, Zenon DEF TypeInv, StreamsOK
      <3>2. fresh[h].change \in DOMAIN changes
        BY <1>1, <3>1
      <3> QED BY <3>1, <3>2
    <2>2. fresh \in Seq([change : Nat, attempt : Nat])
      BY DEF TypeInv, StreamsOK
    <2> QED BY <2>1, <2>2, SeqOfType
  <1>4. \A a \in Agent : /\ offset[a] \in 0..Len(Input(a)) /\ Held(a) \subseteq 1..offset[a]
                         /\ cur[a] = 0 => todo[a] = << >>
    <2>1. \A a \in Agent : Len(Input(a)) \in Nat
      BY <1>1 DEF Input
    <2> QED BY <2>1 DEF TypeInv, HandlesOK, OutputsOK
  <1>5. store \in [Record -> 0..Len(norm)]
    BY <1>1 DEF TypeInv, MemoryOK
  <1>6. trained \in [Predictor -> 0..Len(changes)] /\ old \in 0..Len(changes)
    BY <1>1 DEF TypeInv, MemoryOK
  <1>7. /\ norm \in Seq(Record \X Value \X (0..(RetryBudget - 1)))
        /\ \A a \in Reactor : ledger[a] \in Seq(EventIds) /\ Len(ledger[a]) <= LedgerSize
    BY DEF TypeInv, StreamsOK, MemoryOK, Entry
  <1> QED BY <1>2, <1>3, <1>4, <1>5, <1>6, <1>7 DEF TypeOK

\* Handles, changes and ledgers stay well formed through crashes, reclaims and
\* retries: every event on the stream is about a change that was made, no handle
\* is held that was not read, and no ledger outgrows max_size (storage.py,
\* reactor.py, runner.py).
THEOREM TypeCorrect == Spec => []TypeOK
  <1>1. TypeInv /\ [Next]_vars => TypeInv'
    BY StepTyped
  <1> QED BY <1>1, InitTyped, TypeParts, PTL DEF Spec

-----------------------------------------------------------------------------
(* Changes are announced *)

\* Change n is the last one made to record r.
Latest(r, n) ==
    /\ n \in 1..Len(changes) /\ changes[n].rec = r
    /\ \A k \in 1..Len(changes) : changes[k].rec = r => k <= n

Announced(n) ==
    \/ \E h \in 1..Len(fresh) : fresh[h].change = n
    \/ Out("freshness.events.v1", n, 0) \in Range(todo["storage"])

RowsAnnounced ==
    \A r \in Record : store[r] # 0 /\ RowValue(r) \notin Impossible => \E n \in 1..Len(changes) : Latest(r, n) /\ Announced(n)

LEMMA LatestIsLast ==
  ASSUME TypeInv, NEW r, NEW n \in 1..Len(changes), Latest(r, n)
  PROVE  LastChange(r) = n
  <1>1. DOMAIN changes = 1..Len(changes) /\ Len(changes) \in Nat
    BY DEF TypeInv, StreamsOK
  <1> DEFINE P(k) == changes[k].rec = r /\ \A j \in DOMAIN changes : changes[j].rec = r => j <= k
  <1>2. P(n) /\ n \in DOMAIN changes
    BY <1>1 DEF Latest
  <1>3. \A k \in DOMAIN changes : P(k) => k = n
    BY <1>1, <1>2
  <1>4. LastChange(r) = CHOOSE k \in DOMAIN changes : P(k)
    BY DEF LastChange
  <1> HIDE DEF P
  <1> QED BY <1>2, <1>3, <1>4

\* The payload of a row that is not written stays.
LEMMA RowStays ==
  ASSUME TypeInv, Grown, NEW r \in Record, store[r] # 0, store'[r] = store[r]
  PROVE  RowValue(r)' = RowValue(r)
  <1>1. store[r] \in 1..Len(norm)
    BY DEF TypeInv, MemoryOK, StreamsOK
  <1>2. norm'[store[r]] = norm[store[r]]
    BY <1>1 DEF Grown, Grows
  <1> QED BY <1>2 DEF RowValue

\* A step that makes no change and drops no output of the storage agent.
LEMMA AnnouncedFrame ==
  ASSUME TypeInv, RowsAnnounced, UNCHANGED <<store, changes>>, Grown, Grows(fresh, fresh'),
         fresh' \in Seq([change : Nat, attempt : Nat]),
         Range(todo["storage"]) \subseteq Range(todo'["storage"])
  PROVE  RowsAnnounced'
  <1>1. \A h \in 1..Len(fresh) : h \in 1..Len(fresh') /\ fresh'[h] = fresh[h]
    <2>1. Len(fresh) \in Nat /\ Len(fresh') \in Nat
      BY DEF TypeInv, StreamsOK
    <2>2. Len(fresh) <= Len(fresh') /\ \A h \in 1..Len(fresh) : fresh'[h] = fresh[h]
      BY Zenon DEF Grows
    <2> QED BY <2>1, <2>2
  <1>2. \A n : Announced(n) => Announced(n)'
    BY <1>1 DEF Announced
  <1>3. \A r, n : Latest(r, n) => Latest(r, n)'
    BY DEF Latest
  <1>4. \A r \in Record : store[r] # 0 => RowValue(r)' = RowValue(r)
    BY RowStays
  <1> QED BY <1>2, <1>3, <1>4 DEF RowsAnnounced

\* With nothing left to publish every announcement is on the stream.
LEMMA AnnouncedIdle ==
  ASSUME TypeInv, NEW n, Announced(n), cur["storage"] = 0
  PROVE  \E h \in 1..Len(fresh) : fresh[h].change = n
  <1>1. todo["storage"] = << >>
    BY Limits DEF TypeInv, OutputsOK
  <1>2. Range(<< >>) = {}
    BY DEF Range
  <1> QED BY <1>1, <1>2 DEF Announced

LEMMA PublishAnnounces ==
  ASSUME TypeInv, TypeInv', RowsAnnounced, Publish("storage")
  PROVE  RowsAnnounced'
  <1> DEFINE q == todo["storage"]
             o == Head(q)
  <1>1. "storage" \in Agent
    BY Limits
  <1>2. /\ q # << >> /\ q \in Seq(Message) /\ todo'["storage"] = Tail(q)
        /\ fresh' = IF o.topic = "freshness.events.v1"
                    THEN Append(fresh, [change |-> o.change, attempt |-> o.arg]) ELSE fresh
        /\ UNCHANGED <<store, changes>>
    BY <1>1 DEF Publish, memoryVars, historyVars, TypeInv, OutputsOK
  <1>3. Range(q) = Range(Tail(q)) \union {o}
    BY <1>2, TailIs
  <1>4. /\ Len(fresh) \in Nat
        /\ \A h \in 1..Len(fresh) : h \in 1..Len(fresh') /\ fresh'[h] = fresh[h]
    <2>1. fresh \in Seq([change : Nat, attempt : Nat]) /\ fresh' \in Seq([change : Nat, attempt : Nat])
      BY DEF TypeInv, StreamsOK
    <2>2. Grows(fresh, fresh')
      <3>1. Grows(fresh, fresh)
        BY <2>1, GrowsSame
      <3> QED BY <1>2, <2>1, <3>1, GrowsAppend
    <2> QED BY <2>1, <2>2 DEF Grows
  <1>5. ASSUME NEW n \in Nat, Announced(n) PROVE Announced(n)'
    <2>1. CASE \E h \in 1..Len(fresh) : fresh[h].change = n
      BY <1>4, <2>1 DEF Announced
    <2>2. CASE Out("freshness.events.v1", n, 0) \in Range(Tail(q))
      BY <1>2, <2>2 DEF Announced
    <2>3. CASE Out("freshness.events.v1", n, 0) = o
      <3>1. o.topic = "freshness.events.v1" /\ o.change = n
        BY <2>3 DEF Out
      <3> HIDE DEF o
      <3> DEFINE e == [change |-> o.change, attempt |-> o.arg]
      <3>2. fresh' = Append(fresh, e) /\ e.change = n
        BY <1>2, <3>1
      <3> HIDE DEF e
      <3>3. Len(fresh') = Len(fresh) + 1 /\ fresh'[Len(fresh) + 1] = e
        BY <3>2 DEF TypeInv, StreamsOK
      <3>4. Len(fresh) + 1 \in 1..Len(fresh')
        BY <1>4, <3>3
      <3> QED BY <3>2, <3>3, <3>4 DEF Announced
    <2> QED BY <1>3, <1>5, <2>1, <2>2, <2>3 DEF Announced
  <1>6. \A r, n : Latest(r, n) => Latest(r, n)'
    BY <1>2 DEF Latest
  <1>7. \A n \in 1..Len(changes) : n \in Nat
    OBVIOUS
  <1>8. \A r \in Record : store[r] # 0 => RowValue(r)' = RowValue(r)
    <2>1. Grown
      BY PublishTyped, <1>1
    <2> QED BY <1>2, <2>1, RowStays
  <1> QED BY <1>2, <1>5, <1>6, <1>7, <1>8 DEF RowsAnnounced

LEMMA StoreAnnounces ==
  ASSUME TypeInv, TypeInv', RowsAnnounced, Store
  PROVE  RowsAnnounced'
  <1>1. PICK h \in batch["storage"] :
          StoreMalformed(h) \/ StoreUnchanged(h) \/ StoreChange(h) \/ StoreRaises(h)
    BY DEF Store
  <1>2. "storage" \in Agent /\ h \in 1..Len(norm) /\ Len(changes) \in Nat
    BY Limits, HandleIs DEF Input, TypeInv, StreamsOK
  <1>3. cur["storage"] = 0 /\ fresh' = fresh
    BY <1>1 DEF StoreMalformed, StoreUnchanged, StoreChange, StoreRaises, Begin, busVars
  <1>0. \A r \in Record : store[r] # 0 /\ store'[r] = store[r] => RowValue(r)' = RowValue(r)
    BY StoreTyped, RowStays
  <1>4. \A n : Announced(n) => Announced(n)'
    BY <1>3, AnnouncedIdle DEF Announced
  <1>5. CASE StoreMalformed(h) \/ StoreUnchanged(h)
    <2>1. UNCHANGED <<store, changes>>
      BY <1>5 DEF StoreMalformed, StoreUnchanged
    <2>2. \A r, n : Latest(r, n) => Latest(r, n)'
      BY <2>1 DEF Latest
    <2> QED BY <1>0, <1>4, <2>1, <2>2 DEF RowsAnnounced
  <1>6. CASE StoreChange(h) \/ StoreRaises(h)
    <2> DEFINE r == norm[h][1]
               v == norm[h][2]
               c == Change(h, r, v)
               outs == Announcement(Len(changes'), c.kind, v)
    <2>1. /\ store' = [store EXCEPT ![r] = h] /\ changes' = Append(changes, c)
          /\ Begin("storage", h, outs) \/ v \in Impossible
      BY <1>6 DEF StoreChange, StoreRaises, Upsert
    <2>0. norm' = norm /\ v = norm[h][2]
      BY <1>6 DEF StoreChange, StoreRaises, Begin, busVars
    <2>2. c \in ChangeRecord /\ c.by = h /\ c.rec = r /\ r \in Record /\ v \in Value
      BY <1>2, ChangeIs, NormIs DEF TypeInv
    <2> HIDE DEF c, r, v
    <2>3. /\ Len(changes') = Len(changes) + 1 /\ changes'[Len(changes) + 1] = c
          /\ \A n \in 1..Len(changes) : changes'[n] = changes[n]
      BY <2>1, <2>2 DEF TypeInv, StreamsOK
    <2> PICK k : k = Len(changes')
      OBVIOUS
    <2>4. ASSUME v \notin Impossible PROVE Announced(k)'
      <3>1. k \in Nat /\ k # 0 /\ c.kind \in Kind
        BY <1>2, <2>2, <2>3 DEF ChangeRecord, Kind
      <3>2. Out("freshness.events.v1", k, 0) \in Range(outs)
        BY <2>2, <3>1, AnnouncementIs
      <3>3. todo'["storage"] = outs
        BY <1>2, <2>1, <2>4 DEF Begin, TypeInv, OutputsOK
      <3> HIDE DEF outs
      <3> QED BY <3>2, <3>3 DEF Announced
    <2>5. ASSUME NEW s, s = r PROVE Latest(s, k)'
      <3>1. \A j \in 1..Len(changes') : j <= k
        BY <1>2, <2>3
      <3>2. k \in 1..Len(changes') /\ changes'[k].rec = s
        BY <1>2, <2>2, <2>3, <2>5
      <3> QED BY <3>1, <3>2 DEF Latest
    <2>6. ASSUME NEW s \in Record, s # r, NEW n \in 1..Len(changes), Latest(s, n)
          PROVE  Latest(s, n)' /\ n \in 1..Len(changes')
      BY <1>2, <2>2, <2>3, <2>6 DEF Latest
    <2> SUFFICES ASSUME NEW s \in Record, store'[s] # 0, RowValue(s)' \notin Impossible
                 PROVE  \E n \in 1..Len(changes') : Latest(s, n)' /\ Announced(n)'
      BY DEF RowsAnnounced
    <2>7. CASE s = r
      <3>1. k \in 1..Len(changes')
        BY <1>2, <2>3
      <3>2. store'[s] = h
        BY <2>1, <2>7 DEF TypeInv, MemoryOK
      <3>3. RowValue(s)' = v
        BY <2>0, <3>2 DEF RowValue
      <3> QED BY <2>4, <2>5, <2>7, <3>1, <3>3
    <2>8. CASE s # r
      <3>1. store[s] # 0 /\ store'[s] = store[s]
        BY <2>1, <2>8 DEF TypeInv, MemoryOK
      <3>3. RowValue(s) \notin Impossible
        BY <1>0, <3>1
      <3>2. PICK n \in 1..Len(changes) : Latest(s, n) /\ Announced(n)
        BY <3>1, <3>3 DEF RowsAnnounced
      <3> QED BY <1>4, <2>6, <2>8, <3>2
    <2> QED BY <2>7, <2>8
  <1> QED BY <1>1, <1>5, <1>6

\* What a step of another agent leaves alone.
LEMMA OtherAgent ==
  ASSUME TypeInv, NEW a \in Agent, NEW b \in Agent, a # b, Step(a) \/ Crash(a)
  PROVE  /\ offset'[b] = offset[b] /\ orphan'[b] = orphan[b] /\ batch'[b] = batch[b]
         /\ cur'[b] = cur[b] /\ todo'[b] = todo[b]
  <1>1. CASE Read(a)
    BY <1>1 DEF Read, TypeInv, HandlesOK, OutputsOK
  <1>2. CASE Reclaim(a)
    BY <1>2 DEF Reclaim, TypeInv, HandlesOK, OutputsOK
  <1>3. CASE Publish(a)
    BY <1>3 DEF Publish, TypeInv, HandlesOK, OutputsOK
  <1>4. CASE Ack(a)
    BY <1>4 DEF Ack, busVars, TypeInv, HandlesOK, OutputsOK
  <1>5. ASSUME NEW h, NEW outs, Begin(a, h, outs)
        PROVE  /\ offset'[b] = offset[b] /\ orphan'[b] = orphan[b] /\ batch'[b] = batch[b]
               /\ cur'[b] = cur[b] /\ todo'[b] = todo[b]
    BY <1>5 DEF Begin, busVars, TypeInv, HandlesOK, OutputsOK
  <1>6. CASE a = "storage" /\ Store
    BY <1>5, <1>6 DEF Store, StoreMalformed, StoreUnchanged, StoreChange, StoreRaises
  <1>7. CASE a \in Reactor /\ React(a)
    BY <1>5, <1>7 DEF React, Ignore, ReactLive, ReactTrainer, TrainerRaises, TrainerUnhashable
  <1>8. CASE Crash(a)
    BY <1>8 DEF Crash, TypeInv, HandlesOK, OutputsOK
  <1> QED BY <1>1, <1>2, <1>3, <1>4, <1>6, <1>7, <1>8 DEF Step

LEMMA StepAnnounces ==
  ASSUME TypeInv, RowsAnnounced, [Next]_vars
  PROVE  RowsAnnounced'
  <1>1. TypeInv' /\ Grown /\ "storage" \in Agent
    BY StepTyped, Limits
  <1>2. ASSUME UNCHANGED <<store, changes>>,
               Range(todo["storage"]) \subseteq Range(todo'["storage"])
        PROVE  RowsAnnounced'
    BY <1>1, <1>2, AnnouncedFrame DEF Grown, TypeInv, StreamsOK
  <1>3. CASE UNCHANGED vars \/ (\E p \in Feed : Scrape(p)) \/ (\E n \in DOMAIN changes : Age(n)) \/ Elapse
    BY <1>2, <1>3 DEF vars, memoryVars, historyVars, runnerVars, Scrape, Age, Elapse
  <1>4. ASSUME NEW a \in Agent, a # "storage", Step(a) \/ Crash(a) PROVE RowsAnnounced'
    <2>1. todo'["storage"] = todo["storage"]
      BY <1>1, <1>4, OtherAgent
    <2>2. UNCHANGED <<store, changes>>
      BY <1>4 DEF Step, Read, Reclaim, Publish, Ack, React, Crash, StoreAfter, memoryVars, historyVars
    <2> QED BY <1>2, <2>1, <2>2
  <1>5. CASE Read("storage") \/ Reclaim("storage") \/ Ack("storage")
    BY <1>2, <1>5 DEF Read, Reclaim, Ack, memoryVars, historyVars
  <1>6. CASE Crash("storage")
    <2>1. \A r \in Record : store'[r] = 0
      BY <1>6 DEF Crash, StoreAfter
    <2> QED BY <2>1 DEF RowsAnnounced
  <1>7. ASSUME NEW a \in Agent, Step(a) \/ Crash(a) PROVE RowsAnnounced'
    <2>1. CASE a # "storage"
      BY <1>4, <1>7, <2>1
    <2>2. CASE a = "storage"
      BY <1>1, <1>5, <1>6, <1>7, <2>2, StoreAnnounces, PublishAnnounces, Limits DEF Step
    <2> QED BY <2>1, <2>2
  <1> QED BY <1>3, <1>7 DEF Next

\* No row of the store is ever changed in silence, but by a payload whose match
\* outcome cannot be built: the freshness event of its last change is on the stream or about to be published, whatever crashes,
\* replays and retries came before (storage.py StorageAgent.handle).
THEOREM ChangesAreAnnounced == Spec => []ChangeAnnounced
  <1>1. Init => TypeInv /\ RowsAnnounced
    BY InitTyped DEF Init, RowsAnnounced
  <1>2. TypeInv /\ RowsAnnounced /\ [Next]_vars => TypeInv' /\ RowsAnnounced'
    BY StepTyped, StepAnnounces
  <1>3. TypeInv /\ RowsAnnounced => ChangeAnnounced
    <2> SUFFICES ASSUME TypeInv, RowsAnnounced, NEW r \in Record, store[r] # 0,
                        RowValue(r) \notin Impossible
                 PROVE  \/ \E h \in DOMAIN fresh : fresh[h].change = LastChange(r)
                        \/ Out("freshness.events.v1", LastChange(r), 0) \in Range(todo["storage"])
      BY DEF ChangeAnnounced
    <2>1. PICK n \in 1..Len(changes) : Latest(r, n) /\ Announced(n)
      BY DEF RowsAnnounced
    <2>2. LastChange(r) = n
      BY <2>1, LatestIsLast
    <2>3. DOMAIN fresh = 1..Len(fresh)
      BY DEF TypeInv, StreamsOK
    <2> QED BY <2>1, <2>2, <2>3 DEF Announced
  <1> QED BY <1>1, <1>2, <1>3, PTL DEF Spec

-----------------------------------------------------------------------------
(* Rows fall behind only through a reclaim or a retry *)

\* The well-formed payloads of record r this life of the agent has upserted.
Newer(r) == {k \in seen \intersect Originals :
               norm[k][1] = r /\ norm[k][2] \notin Malformed}

\* A batch that was read, not reclaimed, comes after all that was handled.
ReadInOrder == \A h \in batch["storage"] : h \in reclaimed \/ \A k \in seen : k < h

RowsInv == RowBehindOnlyByReplay /\ ReadInOrder

\* What is known of one row.
RowOK(r) ==
    \/ \A k \in Newer(r) : (\A j \in Newer(r) : j <= k) => norm[k][2] = RowValue(r)
    \/ store[r] \in reclaimed \/ store[r] \notin Originals

LEMMA RowsAre == RowBehindOnlyByReplay <=> \A r \in Record : store[r] # 0 => RowOK(r)
  BY DEF RowBehindOnlyByReplay, RowOK, Newer

LEMMA RowsArePrimed ==
  RowBehindOnlyByReplay' <=> \A r \in Record : store'[r] # 0 => RowOK(r)'
  BY DEF RowBehindOnlyByReplay, RowOK, Newer

\* A step of nobody who stores: the rows and what was handled stay.
LEMMA RowsFrame ==
  ASSUME TypeInv, TypeInv', RowsInv, UNCHANGED <<store, seen>>, reclaimed \subseteq reclaimed',
         Grows(norm, norm')
  PROVE  RowBehindOnlyByReplay'
  <1>1. \A k \in 1..Len(norm) : norm'[k] = norm[k]
    BY DEF Grows
  <1>2. /\ Len(norm) \in Nat /\ seen \subseteq 1..Len(norm)
        /\ Len(norm') \in Nat /\ Len(norm) <= Len(norm')
    <2>1. Len(norm) \in Nat /\ seen \subseteq 1..Len(norm)
      BY Limits DEF TypeInv, StreamsOK, HandlesOK, Input
    <2>2. Len(norm') \in Nat
      BY DEF TypeInv, StreamsOK
    <2> QED BY <2>1, <2>2 DEF Grows
  <1>0. \A k \in 1..Len(norm) : k \in Originals' <=> k \in Originals
    <2>1. DOMAIN norm = 1..Len(norm) /\ DOMAIN norm' = 1..Len(norm')
      BY DEF TypeInv, StreamsOK
    <2> QED BY <1>1, <1>2, <2>1 DEF Originals
  <1>3. ASSUME NEW r \in Record, store[r] # 0 PROVE RowOK(r)'
    <2>1. store[r] \in 1..Len(norm)
      BY <1>2, <1>3 DEF TypeInv, MemoryOK
    <2>2. Newer(r)' = Newer(r) /\ RowValue(r)' = RowValue(r)
      BY <1>0, <1>1, <1>2, <2>1 DEF Newer, RowValue
    <2>3. \A k \in Newer(r) : norm'[k] = norm[k]
      BY <1>1, <1>2 DEF Newer
    <2>4. RowOK(r)
      BY <1>3, RowsAre DEF RowsInv
    <2> QED BY <1>0, <2>1, <2>2, <2>3, <2>4 DEF RowOK
  <1> QED BY <1>3, RowsArePrimed

LEMMA StoreRows ==
  ASSUME TypeInv, TypeInv', RowsInv, Store
  PROVE  RowsInv'
  <1>1. PICK h \in batch["storage"] :
          /\ StoreMalformed(h) \/ StoreUnchanged(h) \/ StoreChange(h) \/ StoreRaises(h)
          /\ seen' = seen \union {h}
    BY DEF Store
  <1>2. "storage" \in Agent /\ h \in 1..Len(norm) /\ Len(norm) \in Nat
    BY Limits, HandleIs DEF Input, TypeInv, StreamsOK
  <1>3. /\ norm' = norm /\ batch' = [batch EXCEPT !["storage"] = @ \ {h}]
        /\ Turn("storage", h) /\ reclaimed' = reclaimed
    BY <1>1 DEF Store, StoreMalformed, StoreUnchanged, StoreChange, StoreRaises, Begin, busVars
  <1>4. seen \subseteq Nat /\ batch["storage"] \subseteq Nat /\ h \in Nat
    BY <1>2 DEF TypeInv, HandlesOK
  <1>5. ReadInOrder'
    <2> SUFFICES ASSUME NEW g \in batch'["storage"], g \notin reclaimed, NEW k \in seen'
                 PROVE  k < g
      BY <1>3 DEF ReadInOrder
    <2>1. g \in batch["storage"] /\ g # h /\ h <= g
      BY <1>2, <1>3 DEF TypeInv, HandlesOK, Turn
    <2>2. CASE k = h
      BY <1>4, <2>1, <2>2
    <2>3. CASE k \in seen
      BY <1>3, <2>1, <2>3 DEF RowsInv, ReadInOrder
    <2> QED BY <1>1, <2>2, <2>3
  <1>6. h \in reclaimed \/ \A k \in seen : k < h
    BY DEF RowsInv, ReadInOrder
  <1> DEFINE q == norm[h][1]
             v == norm[h][2]
  <1>7. q \in Record
    BY <1>2, NormIs DEF TypeInv
  <1>0. Originals' = Originals
    BY <1>3 DEF Originals
  <1>8. \A r \in Record :
          Newer(r)' = IF r = q /\ v \notin Malformed /\ h \in Originals
                      THEN Newer(r) \union {h} ELSE Newer(r)
    BY <1>0, <1>1, <1>3 DEF Newer
  <1>9. \A r \in Record : \A k \in Newer(r) : k \in seen
    BY DEF Newer
  <1>10. \A r \in Record : store[r] # 0 => RowOK(r)
    BY RowsAre DEF RowsInv
  <1>11. ASSUME NEW r \in Record, store'[r] = store[r], store[r] # 0, r # q \/ v \in Malformed
         PROVE  RowOK(r)'
    <2>1. RowValue(r)' = RowValue(r) /\ Newer(r)' = Newer(r)
      BY <1>3, <1>8, <1>11 DEF RowValue
    <2> QED BY <1>0, <1>3, <1>10, <1>11, <2>1 DEF RowOK
  <1>12. CASE StoreMalformed(h)
    <2>1. store' = store /\ v \in Malformed
      BY <1>12 DEF StoreMalformed
    <2> QED BY <1>5, <1>11, <2>1, RowsArePrimed DEF RowsInv
  <1>13. CASE StoreUnchanged(h)
    <2>1. store' = store /\ store[q] # 0 /\ RowValue(q) = v
      BY <1>13 DEF StoreUnchanged, Unchanged
    <2>2. ASSUME NEW r \in Record, r = q, v \notin Malformed PROVE RowOK(r)'
      <3>1. PICK w : w = v
        OBVIOUS
      <3>2. Newer(r)' = Newer(r) \union {h} \/ Newer(r)' = Newer(r)
        BY <1>8, <2>2
      <3>3. RowValue(r) = w /\ RowValue(r)' = w /\ norm[h][2] = w
        BY <1>3, <2>1, <2>2, <3>1 DEF RowValue
      <3>4. RowOK(r)
        BY <1>10, <2>1, <2>2
      <3>5. CASE store[r] \in reclaimed \/ store[r] \notin Originals
        BY <1>0, <1>3, <2>1, <3>5 DEF RowOK
      <3>6. CASE \A k \in Newer(r) : (\A j \in Newer(r) : j <= k) => norm[k][2] = RowValue(r)
        <4>1. ASSUME NEW k \in Newer(r) \union {h}, \A j \in Newer(r) \union {h} : j <= k
              PROVE  norm[k][2] = w
          BY <3>3, <3>6, <4>1
        <4>2. CASE Newer(r)' = Newer(r) \union {h}
          BY <1>3, <3>3, <4>1, <4>2 DEF RowOK
        <4>3. CASE Newer(r)' = Newer(r)
          BY <1>3, <3>3, <3>6, <4>3 DEF RowOK
        <4> QED BY <3>2, <4>2, <4>3
      <3> QED BY <3>4, <3>5, <3>6 DEF RowOK
    <2>3. ASSUME NEW r \in Record, store[r] # 0 PROVE RowOK(r)'
      <3>1. CASE r = q /\ v \notin Malformed
        BY <2>2, <3>1
      <3>2. CASE r # q \/ v \in Malformed
        BY <1>11, <2>1, <2>3, <3>2
      <3> QED BY <3>1, <3>2
    <2> QED BY <1>5, <2>1, <2>3, RowsArePrimed DEF RowsInv
  <1>14. CASE StoreChange(h) \/ StoreRaises(h)
    <2>1. store' = [store EXCEPT ![q] = h] /\ v \notin Malformed
      BY <1>14 DEF StoreChange, StoreRaises, Upsert
    <2>2. store'[q] = h /\ \A r \in Record \ {q} : store'[r] = store[r]
      BY <1>7, <2>1 DEF TypeInv, MemoryOK
    <2>3. ASSUME NEW r \in Record, r = q PROVE RowOK(r)'
      <3>1. CASE h \in reclaimed
        BY <1>3, <2>2, <2>3, <3>1 DEF RowOK
      <3>3. CASE h \notin Originals
        BY <1>0, <2>2, <2>3, <3>3 DEF RowOK
      <3>2. CASE h \in Originals /\ \A k \in seen : k < h
        <4>1. Newer(r)' = Newer(r) \union {h} /\ RowValue(r)' = v
          BY <1>3, <1>8, <2>1, <2>2, <2>3, <3>2 DEF RowValue
        <4>2. ASSUME NEW k \in Newer(r) \union {h}, \A j \in Newer(r) \union {h} : j <= k
              PROVE  norm[k][2] = v
          <5>1. CASE k = h
            BY <5>1
          <5>2. CASE k \in Newer(r)
            <6>1. k < h /\ h <= k /\ k \in Nat
              BY <1>4, <1>9, <3>2, <4>2, <5>2
            <6> QED BY <1>4, <6>1
          <5> QED BY <5>1, <5>2
        <4> QED BY <1>3, <4>1, <4>2 DEF RowOK
      <3> QED BY <1>6, <3>1, <3>2, <3>3
    <2>4. ASSUME NEW r \in Record, store'[r] # 0 PROVE RowOK(r)'
      BY <1>11, <2>2, <2>3, <2>4
    <2> QED BY <1>5, <2>4, RowsArePrimed DEF RowsInv
  <1> QED BY <1>1, <1>12, <1>13, <1>14

LEMMA StepRows ==
  ASSUME TypeInv, RowsInv, [Next]_vars
  PROVE  RowsInv'
  <1>1. TypeInv' /\ Grown /\ "storage" \in Agent
    BY StepTyped, Limits
  <1>2. ASSUME UNCHANGED <<store, seen>>, reclaimed \subseteq reclaimed', ReadInOrder'
        PROVE  RowsInv'
    BY <1>1, <1>2, RowsFrame DEF Grown, RowsInv
  <1>3. ASSUME UNCHANGED <<store, seen, reclaimed>>, batch'["storage"] = batch["storage"]
        PROVE  RowsInv'
    <2>1. ReadInOrder'
      BY <1>3 DEF RowsInv, ReadInOrder
    <2> QED BY <1>2, <1>3, <2>1
  <1>4. CASE UNCHANGED vars \/ (\E p \in Feed : Scrape(p)) \/ (\E n \in DOMAIN changes : Age(n)) \/ Elapse
    BY <1>3, <1>4 DEF vars, memoryVars, historyVars, runnerVars, Scrape, Age, Elapse
  <1>5. ASSUME NEW a \in Agent, a # "storage", Step(a) \/ Crash(a) PROVE RowsInv'
    <2>1. batch'["storage"] = batch["storage"]
      BY <1>1, <1>5, OtherAgent
    <2>2. UNCHANGED <<store, seen, reclaimed>>
      BY <1>5 DEF Step, Read, Reclaim, Publish, Ack, React, Crash, StoreAfter, memoryVars, historyVars
    <2> QED BY <1>3, <2>1, <2>2
  <1>6. CASE Publish("storage") \/ Ack("storage")
    BY <1>3, <1>6 DEF Publish, Ack, memoryVars, historyVars
  <1>7. CASE Read("storage")
    <2>1. /\ UNCHANGED <<store, seen, reclaimed>>
          /\ batch'["storage"] = (offset["storage"] + 1)..ReadUpTo("storage")
      BY <1>1, <1>7 DEF Read, memoryVars, historyVars, TypeInv, HandlesOK
    <2>2. offset["storage"] \in Nat /\ seen \subseteq 1..offset["storage"]
      BY <1>1 DEF TypeInv, HandlesOK
    <2>3. \A g \in batch'["storage"] : \A k \in seen : k < g
      BY <2>1, <2>2
    <2>4. ReadInOrder'
      BY <2>1, <2>3 DEF ReadInOrder
    <2> QED BY <1>2, <2>1, <2>4
  <1>8. CASE Reclaim("storage")
    <2>1. /\ UNCHANGED <<store, seen>>
          /\ batch'["storage"] = FirstOf(orphan["storage"])
          /\ reclaimed' = reclaimed \union FirstOf(orphan["storage"])
      BY <1>1, <1>8 DEF Reclaim, memoryVars, TypeInv, HandlesOK
    <2>2. ReadInOrder'
      BY <2>1 DEF ReadInOrder
    <2> QED BY <1>2, <2>1, <2>2
  <1>9. CASE Crash("storage")
    <2>1. (\A r \in Record : store'[r] = 0) /\ batch'["storage"] = {}
      BY <1>1, <1>9 DEF Crash, StoreAfter, TypeInv, HandlesOK
    <2> QED BY <2>1 DEF RowsInv, RowBehindOnlyByReplay, ReadInOrder
  <1>10. ASSUME NEW a \in Agent, Step(a) \/ Crash(a) PROVE RowsInv'
    <2>1. CASE a # "storage"
      BY <1>5, <1>10, <2>1
    <2>2. CASE a = "storage"
      BY <1>1, <1>6, <1>7, <1>8, <1>9, <1>10, <2>2, StoreRows, Limits DEF Step
    <2> QED BY <2>1, <2>2
  <1> QED BY <1>4, <1>10 DEF Next

\* The store falls behind a newer payload this life of the agent has upserted
\* only through an entry reclaimed from a dead life (storage.py upsert, which
\* keeps canonical_version and never compares it; runner.py step).
THEOREM RowsFallBehindOnlyByReplay == Spec => []RowBehindOnlyByReplay
  <1>1. Init => TypeInv /\ RowsInv
    BY InitTyped DEF Init, RowsInv, RowBehindOnlyByReplay, ReadInOrder
  <1>2. TypeInv /\ RowsInv /\ [Next]_vars => TypeInv' /\ RowsInv'
    BY StepTyped, StepRows
  <1>3. RowsInv => RowBehindOnlyByReplay
    BY DEF RowsInv
  <1> QED BY <1>1, <1>2, <1>3, PTL DEF Spec


-----------------------------------------------------------------------------
(* The debounce is backed by a message *)

\* What a publication does to the outputs and to the other topics.
LEMMA PublishSends ==
  ASSUME TypeInv, NEW a \in Agent, Publish(a)
  PROVE  /\ todo'[a] = Tail(todo[a]) /\ Range(todo[a]) = Range(todo'[a]) \union {Head(todo[a])}
         /\ BagToSet(sent') = IF Head(todo[a]).topic \in {"match.normalized", "freshness.events.v1"}
                              THEN BagToSet(sent) ELSE BagToSet(sent) \union {Head(todo[a])}
  <1>1. todo[a] # << >> /\ todo[a] \in Seq(Message) /\ todo'[a] = Tail(todo[a])
    BY DEF Publish, TypeInv, OutputsOK
  <1>2. Range(todo[a]) = Range(Tail(todo[a])) \union {Head(todo[a])}
    BY <1>1, TailIs
  <1>3. ASSUME NEW o PROVE BagToSet(sent (+) SetToBag({o})) = BagToSet(sent) \union {o}
    BY DEF BagToSet, SetToBag, (+)
  <1>4. sent' = IF Head(todo[a]).topic \in {"match.normalized", "freshness.events.v1"}
                THEN sent ELSE sent (+) SetToBag({Head(todo[a])})
    BY DEF Publish
  <1> QED BY <1>1, <1>2, <1>3, <1>4

\* No message is taken back.
LEMMA SentGrows ==
  ASSUME TypeInv, [Next]_vars
  PROVE  BagToSet(sent) \subseteq BagToSet(sent')
  <1>1. ASSUME NEW a \in Agent, Step(a) \/ Crash(a) PROVE BagToSet(sent) \subseteq BagToSet(sent')
    <2>1. CASE Publish(a)
      BY <2>1, PublishSends
    <2>2. CASE Read(a) \/ Reclaim(a) \/ Ack(a) \/ Crash(a)
      BY <2>2 DEF Read, Reclaim, Ack, Crash, busVars
    <2>3. CASE Store \/ React(a)
      BY <2>3 DEF Store, StoreMalformed, StoreUnchanged, StoreChange, StoreRaises, React, Ignore, ReactLive,
                  ReactTrainer, TrainerRaises, TrainerUnhashable, Begin, busVars
    <2> QED BY <1>1, <2>1, <2>2, <2>3 DEF Step
  <1>2. CASE UNCHANGED vars \/ (\E p \in Feed : Scrape(p)) \/ (\E n \in DOMAIN changes : Age(n)) \/ Elapse
    BY <1>2 DEF vars, busVars, Scrape, Age, Elapse
  <1> QED BY <1>1, <1>2 DEF Next

\* Predictor p has its message for change n, sent or about to be.
Backed(p, n) ==
    Out("models.events.v1", n, p) \in BagToSet(sent) \union Range(todo["trainer"])

\* Every stamp that no raising reaction left is backed; without a trainer
\* there is no stamp.
StampsBacked ==
    /\ \A p \in Predictor : trained[p] # 0 /\ p \notin wasted => Backed(p, trained[p])
    /\ "trainer" \in Reactor \/ \A p \in Predictor : trained[p] = 0

\* A step that stamps nothing and drops no output of the trainer.
LEMMA BackedFrame ==
  ASSUME StampsBacked, UNCHANGED <<trained, wasted>>,
         "trainer" \in Reactor => \A p, n : Backed(p, n) => Backed(p, n)'
  PROVE  StampsBacked'
  BY DEF StampsBacked

\* A reaction of the trainer: what it had to publish was published.
LEMMA TrainerBacks ==
  ASSUME TypeInv, StampsBacked, "trainer" \in Reactor, React("trainer")
  PROVE  StampsBacked'
  <1>1. PICK h \in batch["trainer"] :
          \/ Ignore("trainer", h)
          \/ ReactTrainer(h) \/ TrainerRaises(h) \/ TrainerUnhashable(h)
    BY DEF React
  <1>2. PICK n : n = fresh[h].change
    OBVIOUS
  <1>3. n \in Nat /\ n # 0 /\ "trainer" \in Agent
    BY <1>2, EventIs
  <1>4. /\ cur["trainer"] = 0 /\ sent' = sent
    BY <1>1 DEF Ignore, ReactTrainer, TrainerRaises, TrainerUnhashable, Begin, busVars
  <1>5. todo["trainer"] = << >> /\ Range(<< >>) = {}
    BY <1>3, <1>4 DEF TypeInv, OutputsOK, Range
  <1>6. \A p, k : Backed(p, k) => Backed(p, k)'
    BY <1>4, <1>5 DEF Backed
  <1>7. CASE Ignore("trainer", h) \/ TrainerUnhashable(h)
    BY <1>6, <1>7, BackedFrame DEF Ignore, TrainerUnhashable
  <1>8. CASE ReactTrainer(h)
    <2>1. PICK q \in Listed(Due(Predictor)) :
            Begin("trainer", h, [i \in DOMAIN q |-> Out("models.events.v1", n, q[i])])
      BY <1>2, <1>8 DEF ReactTrainer
    <2>2. PICK outs : outs = [i \in DOMAIN q |-> Out("models.events.v1", n, q[i])]
      OBVIOUS
    <2>3. q \in Seq(Due(Predictor)) /\ Due(Predictor) \subseteq Arg /\ Range(q) = Due(Predictor)
      <3>1. Due(Predictor) \subseteq Predictor /\ Predictor \subseteq Arg
        BY DEF Due, Arg
      <3> QED BY <3>1, ListedIs
    <2>4. /\ outs \in Seq(Message) /\ Len(outs) = Len(q)
          /\ \A i \in 1..Len(q) : outs[i] = Out("models.events.v1", n, q[i])
      <3>1. "models.events.v1" \in Topic /\ "models.events.v1" # "freshness.events.v1"
        BY DEF Topic
      <3>2. \A f : f = [i \in DOMAIN q |-> Out("models.events.v1", n, q[i])] =>
              /\ f \in Seq(Message) /\ Len(f) = Len(q)
              /\ \A i \in 1..Len(q) : f[i] = Out("models.events.v1", n, q[i])
        <4>1. PICK S : S = Due(Predictor)
          OBVIOUS
        <4>2. S \subseteq Arg /\ q \in Seq(S)
          BY <2>3, <4>1
        <4>3. \A f : f = [i \in DOMAIN q |-> Out("models.events.v1", n, q[i])] =>
                /\ f \in Seq(Message) /\ Len(f) = Len(q)
                /\ \A i \in 1..Len(q) : f[i] = Out("models.events.v1", n, q[i])
                /\ \A k \in Nat : n <= k => \A i \in 1..Len(f) : Sound(f[i], k)
          BY <1>3, <3>1, <4>2, OutsOf, Zenon
        <4> QED BY <4>3, Zenon
      <3> QED BY <2>2, <3>2, Zenon
    <2>5. todo'["trainer"] = outs
      BY <1>3, <2>1, <2>2 DEF Begin, TypeInv, OutputsOK
    <2>6. ASSUME NEW p \in Due(Predictor) PROVE Backed(p, n)'
      <3>1. PICK i \in 1..Len(q) : q[i] = p
        BY <2>3, RangeIs
      <3>2. Out("models.events.v1", n, p) \in Range(outs)
        BY <2>4, <3>1, RangeIs
      <3> QED BY <2>5, <3>2 DEF Backed
    <2>7. trained' = Stamp(Due(Predictor), n) /\ wasted' = wasted \ Due(Predictor)
      BY <1>2, <1>8 DEF ReactTrainer
    <2>8. \A p \in Predictor : trained'[p] = IF p \in Due(Predictor) THEN n ELSE trained[p]
      BY <2>7 DEF Stamp
    <2>9. ASSUME NEW p \in Predictor, trained'[p] # 0, p \notin wasted'
          PROVE  Backed(p, trained[p])' 
      <3>1. CASE p \in Due(Predictor)
        BY <2>6, <2>8, <3>1 DEF Backed
      <3>2. CASE p \notin Due(Predictor)
        <4>1. trained'[p] = trained[p] /\ p \notin wasted
          BY <2>7, <2>8, <2>9, <3>2
        <4>2. Backed(p, trained[p])
          BY <2>9, <4>1 DEF StampsBacked
        <4> QED BY <1>4, <1>5, <4>1, <4>2 DEF Backed
      <3> QED BY <3>1, <3>2
    <2> QED BY <2>9 DEF StampsBacked
  <1>9. CASE TrainerRaises(h)
    <2>1. PICK S : trained' = Stamp(S, n) /\ wasted' = wasted \union S
      BY <1>2, <1>9, Zenon DEF TrainerRaises
    <2>2. \A p \in Predictor : trained'[p] = IF p \in S THEN n ELSE trained[p]
      BY <2>1 DEF Stamp
    <2>3. ASSUME NEW p \in Predictor, trained'[p] # 0, p \notin wasted'
          PROVE  Backed(p, trained[p])'
      <3>1. trained'[p] = trained[p] /\ p \notin wasted
        BY <2>1, <2>2, <2>3
      <3>2. Backed(p, trained[p])
        BY <2>3, <3>1 DEF StampsBacked
      <3> QED BY <1>4, <1>5, <3>1, <3>2 DEF Backed
    <2> QED BY <2>3 DEF StampsBacked
  <1> QED BY <1>1, <1>7, <1>8, <1>9

LEMMA StepBacks ==
  ASSUME TypeInv, StampsBacked, [Next]_vars
  PROVE  StampsBacked'
  <1>1. BagToSet(sent) \subseteq BagToSet(sent')
    BY SentGrows
  <1>2. CASE UNCHANGED vars \/ (\E p \in Feed : Scrape(p)) \/ (\E n \in DOMAIN changes : Age(n))
    <2>1. UNCHANGED <<trained, wasted, todo>>
      BY <1>2 DEF vars, memoryVars, historyVars, runnerVars, Scrape, Age
    <2> QED BY <1>1, <2>1, BackedFrame DEF Backed
  <1>3. CASE Elapse
    BY <1>3 DEF Elapse, StampsBacked
  <1>4. ASSUME NEW a \in Agent, a # "trainer", Step(a) \/ Crash(a) PROVE StampsBacked'
    <2>1. UNCHANGED <<trained, wasted>>
      BY <1>4, Limits DEF Step, Read, Reclaim, Publish, Ack, Store, React, Ignore, ReactLive, Crash,
                          TrainedAfter, memoryVars, historyVars
    <2>2. "trainer" \in Reactor => todo'["trainer"] = todo["trainer"]
      BY <1>4, OtherAgent, Limits
    <2> QED BY <1>1, <2>1, <2>2, BackedFrame DEF Backed
  <1>5. ASSUME "trainer" \in Reactor, Step("trainer") \/ Crash("trainer") PROVE StampsBacked'
    <2>1. CASE Read("trainer") \/ Reclaim("trainer") \/ Ack("trainer")
      <3>1. UNCHANGED <<trained, wasted, todo>>
        BY <2>1 DEF Read, Reclaim, Ack, memoryVars, historyVars
      <3> QED BY <1>1, <3>1, BackedFrame DEF Backed
    <2>2. CASE Publish("trainer")
      <3>1. UNCHANGED <<trained, wasted>> /\ "trainer" \in Agent
        BY <1>5, <2>2, Limits DEF Publish, memoryVars, historyVars
      <3>2. ASSUME NEW p, NEW n, Backed(p, n) PROVE Backed(p, n)'
        <4>1. Out("models.events.v1", n, p).topic \notin {"match.normalized", "freshness.events.v1"}
          BY DEF Out
        <4> QED BY <2>2, <3>1, <3>2, <4>1, PublishSends DEF Backed
      <3> QED BY <3>1, <3>2, BackedFrame
    <2>3. CASE Crash("trainer")
      BY <1>5, <2>3 DEF Crash, TrainedAfter, StampsBacked
    <2> QED BY <1>5, <2>1, <2>2, <2>3, TrainerBacks, Limits DEF Step
  <1>6. \A a \in Agent : Step(a) \/ Crash(a) => StampsBacked'
    BY <1>4, <1>5, Limits
  <1> QED BY <1>2, <1>3, <1>6 DEF Next

\* The debounce holds a predictor back only when its model.trained message was
\* sent or is about to be, or when the reaction that stamped it raised for a
\* later predictor (reactor.py TrainerReactor.react).
THEOREM DebouncesAreBacked == Spec => []DebounceBacked
  <1>1. Init => TypeInv /\ StampsBacked
    BY InitTyped DEF Init, StampsBacked
  <1>2. TypeInv /\ StampsBacked /\ [Next]_vars => TypeInv' /\ StampsBacked'
    BY StepTyped, StepBacks
  <1>3. StampsBacked => DebounceBacked
    BY DEF StampsBacked, Backed, DebounceBacked, BagIn
  <1> QED BY <1>1, <1>2, <1>3, PTL DEF Spec

-----------------------------------------------------------------------------
(* An acknowledged event has its requests *)

\* S holds a request for every market of the n-th change of log.
Among(S, log, n) ==
    \A m \in Range(Markets(PlaneOf[log[n].rec])) : Request(EventId(log[n]), m) \in S

\* The requests on the bus and the ones about to be.
Soon ==
    {o \in BagToSet(sent) \union Range(todo["live"]) : o.topic = "predict.request"}

\* The event of the n-th change of log is for the live reactor, and not too old.
Wanted(n, log, age) == n > age /\ PlaneOf[log[n].rec] \in AllowedPlanes("live")

KnownCovered ==
    \A n \in 1..Len(changes) : Contains(ledger["live"], IdOf(n)) => Among(Soon, changes, n)

CurCovered ==
    cur["live"] # 0 /\ Wanted(fresh[cur["live"]].change, changes, old)
        => Among(Soon, changes, fresh[cur["live"]].change)

AckedCovered ==
    \A h \in Acked("live") :
        Wanted(fresh[h].change, changes, old) => Among(BagToSet(sent), changes, fresh[h].change)

\* What the ledger knows and what is being processed is requested or about to
\* be; what is acknowledged is requested.
LiveInv == KnownCovered /\ CurCovered /\ AckedCovered

LEMMA AmongGrows ==
  ASSUME NEW S, NEW T, S \subseteq T, NEW log \in Seq(ChangeRecord), NEW longer \in Seq(ChangeRecord),
         Grows(log, longer), NEW n \in 1..Len(log), Among(S, log, n)
  PROVE  Among(T, longer, n)
  <1>1. longer[n] = log[n]
    BY DEF Grows
  <1> QED BY <1>1 DEF Among

\* Only predict.request messages count.
LEMMA AmongRequests ==
  ASSUME NEW S, NEW T, NEW log, NEW n, Among(S, log, n),
         \A o \in S : o.topic = "predict.request" => o \in T
  PROVE  Among(T, log, n)
  <1>1. \A id, m : Request(id, m).topic = "predict.request"
    BY DEF Request, Out
  <1> QED BY <1>1 DEF Among

\* Two changes with one event id have the same record, and the same requests.
LEMMA AmongSame ==
  ASSUME NEW S, NEW log, NEW n, NEW k, EventId(log[n]) = EventId(log[k]), Among(S, log, n)
  PROVE  Among(S, log, k)
  <1>1. log[n].rec = log[k].rec
    BY DEF EventId
  <1> QED BY <1>1 DEF Among

LEMMA WantedKept ==
  ASSUME TypeInv, TypeInv', Grown, old <= old', NEW h \in 1..Len(fresh), Wanted(fresh'[h].change, changes', old')
  PROVE  Wanted(fresh[h].change, changes, old)
  <1>1. fresh'[h] = fresh[h]
    BY DEF Grown, Grows
  <1>2. PICK n : n = fresh[h].change
    OBVIOUS
  <1>3. n \in 1..Len(changes) /\ changes'[n] = changes[n]
    BY <1>2 DEF TypeInv, StreamsOK, Grown, Grows
  <1>4. n > old' /\ PlaneOf[changes[n].rec] \in AllowedPlanes("live")
    BY <1>1, <1>2, <1>3 DEF Wanted
  <1>5. n > old
    BY <1>3, <1>4 DEF TypeInv, MemoryOK
  <1> QED BY <1>2, <1>4, <1>5 DEF Wanted

\* A covered event stays covered while the set of requests grows.
LEMMA EventKept ==
  ASSUME TypeInv, TypeInv', Grown, NEW h \in 1..Len(fresh), NEW S, NEW T, S \subseteq T,
         Among(S, changes, fresh[h].change)
  PROVE  Among(T, changes', fresh'[h].change)
  <1>1. fresh'[h] = fresh[h]
    BY DEF Grown, Grows
  <1>2. fresh[h].change \in 1..Len(changes)
    BY DEF TypeInv, StreamsOK
  <1>3. changes \in Seq(ChangeRecord) /\ changes' \in Seq(ChangeRecord) /\ Grows(changes, changes')
    BY DEF TypeInv, StreamsOK, Grown
  <1> QED BY <1>1, <1>2, <1>3, AmongGrows

LEMMA KnownKept ==
  ASSUME TypeInv, TypeInv', Grown, "live" \in Reactor, KnownCovered, Soon \subseteq Soon',
         ledger'["live"] = ledger["live"]
  PROVE  KnownCovered'
  <1> SUFFICES ASSUME NEW n \in 1..Len(changes'), Contains(ledger["live"], EventId(changes'[n]))
               PROVE  Among(Soon', changes', n)
    BY DEF KnownCovered, IdOf
  <1>1. ledger["live"] \in Seq(EventIds)
    BY DEF TypeInv, MemoryOK
  <1>2. EventId(changes'[n]) \in EventIds
    BY <1>1 DEF Contains
  <1>3. PICK k \in 1..Len(changes) : EventId(changes[k]) = EventId(changes'[n])
    <2>1. DOMAIN changes = 1..Len(changes)
      BY DEF TypeInv, StreamsOK
    <2>2. EventIds = {EventId(changes[k]) : k \in DOMAIN changes}
      BY DEF EventIds, IdOf
    <2> QED BY <1>2, <2>1, <2>2
  <1>4. Among(Soon, changes, k)
    BY <1>3 DEF KnownCovered, IdOf
  <1>5. changes \in Seq(ChangeRecord) /\ changes' \in Seq(ChangeRecord) /\ Grows(changes, changes')
    BY DEF TypeInv, StreamsOK, Grown
  <1>6. Among(Soon', changes', k) /\ changes'[k] = changes[k]
    BY <1>4, <1>5, AmongGrows DEF Grows
  <1> QED BY <1>3, <1>6, AmongSame

\* The handle in _process is one of the stream's.
LEMMA CurIs ==
  ASSUME TypeInv, "live" \in Reactor
  PROVE  /\ cur["live"] # 0 => cur["live"] \in 1..Len(fresh)
         /\ Acked("live") \subseteq 1..Len(fresh)
  <1>1. "live" \in Agent /\ Input("live") = fresh
    BY Limits DEF Input
  <1>2. /\ offset["live"] \in Nat /\ offset["live"] <= Len(fresh) /\ Len(fresh) \in Nat
        /\ Held("live") \subseteq 1..offset["live"]
    BY <1>1 DEF TypeInv, HandlesOK, StreamsOK
  <1>3. cur["live"] # 0 => cur["live"] \in Held("live")
    BY DEF Held
  <1> QED BY <1>2, <1>3 DEF Acked

LEMMA CurKept ==
  ASSUME TypeInv, TypeInv', Grown, "live" \in Reactor, CurCovered, Soon \subseteq Soon',
         old <= old', cur'["live"] = cur["live"]
  PROVE  CurCovered'
  <1> SUFFICES ASSUME cur["live"] # 0, Wanted(fresh'[cur["live"]].change, changes', old')
               PROVE  Among(Soon', changes', fresh'[cur["live"]].change)
    BY DEF CurCovered
  <1>1. PICK h : h = cur["live"]
    OBVIOUS
  <1>2. h \in 1..Len(fresh) /\ Wanted(fresh'[h].change, changes', old')
    BY <1>1, CurIs
  <1>3. Wanted(fresh[h].change, changes, old)
    BY <1>2, WantedKept
  <1>4. Among(Soon, changes, fresh[h].change)
    BY <1>1, <1>3 DEF CurCovered
  <1> QED BY <1>1, <1>2, <1>4, EventKept

LEMMA AckedKept ==
  ASSUME TypeInv, TypeInv', Grown, "live" \in Reactor, AckedCovered, old <= old',
         BagToSet(sent) \subseteq BagToSet(sent'), NEW h \in Acked("live"),
         Wanted(fresh'[h].change, changes', old')
  PROVE  Among(BagToSet(sent'), changes', fresh'[h].change)
  <1>1. h \in 1..Len(fresh)
    BY CurIs
  <1>2. Among(BagToSet(sent), changes, fresh[h].change)
    BY <1>1, WantedKept DEF AckedCovered
  <1> QED BY <1>1, <1>2, EventKept

\* A step that neither starts nor completes a reaction of the live reactor.
LEMMA LiveFrame ==
  ASSUME TypeInv, TypeInv', Grown, "live" \in Reactor, LiveInv, old <= old',
         BagToSet(sent) \subseteq BagToSet(sent'), Soon \subseteq Soon',
         ledger'["live"] = ledger["live"], cur'["live"] = cur["live"],
         Acked("live")' = Acked("live")
  PROVE  LiveInv'
  <1>1. KnownCovered' /\ CurCovered'
    BY KnownKept, CurKept DEF LiveInv
  <1>2. AckedCovered'
    BY AckedKept DEF LiveInv, AckedCovered
  <1> QED BY <1>1, <1>2 DEF LiveInv

\* The outputs are out: the event is acknowledged.
LEMMA AckLive ==
  ASSUME TypeInv, TypeInv', Grown, "live" \in Reactor, LiveInv, Ack("live")
  PROVE  LiveInv'
  <1>1. /\ "live" \in Agent /\ cur["live"] # 0 /\ todo["live"] = << >>
        /\ cur' = [cur EXCEPT !["live"] = 0]
        /\ UNCHANGED <<fresh, sent, offset, orphan, batch, todo, ledger, old, changes>>
    BY Limits DEF Ack, busVars, memoryVars, historyVars
  <1>2. Soon' = Soon /\ cur'["live"] = 0 /\ old <= old'
    BY <1>1 DEF Soon, TypeInv, HandlesOK, MemoryOK
  <1>3. KnownCovered' /\ CurCovered'
    BY <1>1, <1>2, KnownKept DEF LiveInv, CurCovered
  <1>4. ASSUME NEW h \in Acked("live")', Wanted(fresh'[h].change, changes', old')
        PROVE  Among(BagToSet(sent'), changes', fresh'[h].change)
    <2>1. h \in Acked("live") \/ h = cur["live"]
      BY <1>1, <1>2 DEF Acked, Held
    <2>2. CASE h \in Acked("live")
      BY <1>1, <1>2, <1>4, <2>2, AckedKept DEF LiveInv
    <2>3. CASE h = cur["live"]
      <3>1. Among(Soon, changes, fresh[h].change)
        BY <1>1, <1>4, <2>3 DEF LiveInv, CurCovered
      <3>2. \A o \in Soon : o \in BagToSet(sent)
        BY <1>1 DEF Soon, Range
      <3>3. Among(BagToSet(sent), changes, fresh[h].change)
        BY <3>1, <3>2, AmongRequests
      <3> QED BY <1>1, <3>3
    <2> QED BY <2>1, <2>2, <2>3
  <1> QED BY <1>3, <1>4 DEF LiveInv, AckedCovered

\* A crash loses the ledger and acknowledges nothing.
LEMMA CrashLive ==
  ASSUME TypeInv, TypeInv', Grown, "live" \in Reactor, LiveInv, Crash("live")
  PROVE  LiveInv'
  <1>1. /\ "live" \in Agent
        /\ cur' = [cur EXCEPT !["live"] = 0] /\ batch' = [batch EXCEPT !["live"] = {}]
        /\ orphan' = [orphan EXCEPT !["live"] = Held("live")]
        /\ UNCHANGED <<fresh, sent, offset, old, changes>>
    BY Limits DEF Crash
  <1>2. cur'["live"] = 0 /\ batch'["live"] = {} /\ orphan'["live"] = Held("live")
        /\ ledger'["live"] = << >> /\ old <= old'
    BY <1>1 DEF Crash, LedgerAfter, TypeInv, HandlesOK, MemoryOK
  <1>3. Acked("live")' = Acked("live")
    BY <1>1, <1>2 DEF Acked, Held
  <1>4. KnownCovered' /\ CurCovered'
    <2>1. \A e : ~Contains(<< >>, e)
      BY DEF Contains
    <2> QED BY <1>2, <2>1 DEF KnownCovered, CurCovered
  <1>5. AckedCovered'
    BY <1>1, <1>2, <1>3, AckedKept DEF LiveInv, AckedCovered
  <1> QED BY <1>4, <1>5 DEF LiveInv

\* The requests of a change cover it.
LEMMA RequestsCover ==
  ASSUME TypeInv, NEW n \in 1..Len(changes), NEW S, Range(Requests(n)) \subseteq S
  PROVE  Among(S, changes, n)
  <1>1. PICK q : q = Markets(PlaneOf[changes[n].rec])
    OBVIOUS
  <1>2. /\ q \in Seq(Market) /\ Requests(n) \in Seq(Message) /\ Len(Requests(n)) = Len(q)
        /\ \A i \in 1..Len(q) : Requests(n)[i] = Request(EventId(changes[n]), q[i])
    BY <1>1, RequestsAre
  <1> SUFFICES ASSUME NEW m \in Range(q)
               PROVE  Request(EventId(changes[n]), m) \in S
    BY <1>1 DEF Among
  <1>3. PICK i \in 1..Len(q) : q[i] = m
    BY <1>2, RangeIs
  <1>4. Request(EventId(changes[n]), m) \in Range(Requests(n))
    BY <1>2, <1>3, RangeIs
  <1> QED BY <1>4

\* The ledger after a mark holds what it held, and the new id.
LEMMA MarkedHolds ==
  ASSUME NEW S, NEW l \in Seq(S), NEW id, Len(l) <= LedgerSize,
         NEW e, Contains(Marked(l, id), e)
  PROVE  Contains(l, e) \/ e = id
  <1> DEFINE T == {l[i] : i \in 1..Len(l)} \union {id}
  <1>1. l \in Seq(T) /\ id \in T
    <2>1. \A i \in 1..Len(l) : l[i] \in T
      OBVIOUS
    <2> HIDE DEF T
    <2> QED BY <2>1, SeqOfType DEF T
  <1>2. Marked(l, id) \in Seq(T)
    <2> HIDE DEF T
    <2> QED BY <1>1, MarkedIs
  <1>3. e \in T
    <2> HIDE DEF T
    <2> QED BY <1>2 DEF Contains
  <1> QED BY <1>3 DEF Contains

\* The live reactor takes an event: it ignores it, or reacts and marks it.
LEMMA ReactLiveCovers ==
  ASSUME TypeInv, TypeInv', Grown, "live" \in Reactor, LiveInv, React("live")
  PROVE  LiveInv'
  <1>1. PICK h \in batch["live"] : Ignore("live", h) \/ ReactLive(h)
    BY DEF React
  <1>2. PICK outs : Begin("live", h, outs)
    BY <1>1 DEF Ignore, ReactLive
  <1>3. PICK n : n = fresh[h].change
    OBVIOUS
  <1>4. n \in 1..Len(changes) /\ "live" \in Agent /\ h # 0 /\ h \in 1..Len(fresh)
    BY <1>3, EventIs
  <1>5. /\ cur["live"] = 0 /\ cur'["live"] = h /\ batch'["live"] = batch["live"] \ {h}
        /\ todo'["live"] = outs /\ UNCHANGED <<fresh, sent, offset, orphan, changes, old>>
    BY <1>2, <1>4 DEF Begin, busVars, React, TypeInv, HandlesOK, OutputsOK
  <1>6. todo["live"] = << >> /\ Range(<< >>) = {}
    BY <1>4, <1>5 DEF TypeInv, OutputsOK, Range
  <1>7. Soon \subseteq Soon' /\ old <= old'
    BY <1>5, <1>6 DEF Soon, TypeInv, MemoryOK
  <1>8. Acked("live")' = Acked("live")
    BY <1>1, <1>4, <1>5 DEF Acked, Held
  <1>9. AckedCovered'
    BY <1>5, <1>7, <1>8, AckedKept DEF LiveInv, AckedCovered
  <1>10. CASE Ignore("live", h)
    <2>1. KnownCovered'
      BY <1>7, <1>10, KnownKept DEF Ignore, LiveInv
    <2>2. ASSUME Wanted(n, changes, old) PROVE Among(Soon, changes, n)
      <3>1. GuardedOut("live", n)
        BY <1>3, <1>10 DEF Ignore
      <3>2. n \in Nat /\ old \in Nat /\ n > old
        BY <1>4, <2>2 DEF Wanted, TypeInv, MemoryOK
      <3>3. ~(n <= old)
        BY <3>2
      <3>4. InScope("live", n)
        BY <2>2 DEF Wanted, InScope
      <3>5. Known("live", n)
        BY <3>1, <3>3, <3>4, Zenon DEF GuardedOut
      <3> QED BY <1>4, <3>5 DEF Known, LiveInv, KnownCovered
    <2>3. CurCovered'
      <3>1. ASSUME Wanted(n, changes, old) PROVE Among(Soon', changes', fresh'[h].change)
        BY <1>3, <1>4, <1>7, <2>2, <3>1, EventKept
      <3> QED BY <1>3, <1>5, <3>1 DEF CurCovered
    <2> QED BY <1>9, <2>1, <2>3 DEF LiveInv
  <1>11. CASE ReactLive(h)
    <2>1. /\ todo'["live"] = Requests(n)
          /\ ledger'["live"] = Marked(ledger["live"], IdOf(n))
      BY <1>3, <1>4, <1>11 DEF ReactLive, Begin, Mark, TypeInv, OutputsOK, MemoryOK
    <2>2. Among(Soon', changes, n)
      <3>1. Among(Range(Requests(n)), changes, n)
        BY <1>4, RequestsCover
      <3>2. \A o \in Range(Requests(n)) : o.topic = "predict.request" => o \in Soon'
        BY <2>1 DEF Soon
      <3> QED BY <3>1, <3>2, AmongRequests
    <2>3. CurCovered'
      BY <1>3, <1>5, <2>2 DEF CurCovered
    <2>4. ASSUME NEW k \in 1..Len(changes), Contains(ledger'["live"], EventId(changes[k]))
          PROVE  Among(Soon', changes, k)
      <3>1. ledger["live"] \in Seq(EventIds) /\ Len(ledger["live"]) <= LedgerSize
        BY DEF TypeInv, MemoryOK
      <3>2. Contains(ledger["live"], IdOf(k)) \/ EventId(changes[k]) = EventId(changes[n])
        BY <2>1, <2>4, <3>1, MarkedHolds DEF IdOf
      <3>3. CASE Contains(ledger["live"], IdOf(k))
        <4>1. Among(Soon, changes, k)
          BY <3>3 DEF LiveInv, KnownCovered
        <4> QED BY <1>7, <4>1, AmongRequests
      <3>4. CASE EventId(changes[k]) = EventId(changes[n])
        BY <2>2, <3>4, AmongSame
      <3> QED BY <3>2, <3>3, <3>4
    <2>5. KnownCovered'
      BY <1>5, <2>4 DEF KnownCovered, IdOf
    <2> QED BY <1>9, <2>3, <2>5 DEF LiveInv
  <1> QED BY <1>1, <1>10, <1>11

\* The live reactor's ledger is its own.
LEMMA OtherLedger ==
  ASSUME TypeInv, "live" \in Reactor, NEW a \in Agent, a # "live", Step(a) \/ Crash(a)
  PROVE  ledger'["live"] = ledger["live"] /\ forgets' = forgets
  <1>1. CASE Read(a) \/ Reclaim(a) \/ Publish(a) \/ Ack(a) \/ (a = "storage" /\ Store)
    BY <1>1 DEF Read, Reclaim, Publish, Ack, Store, memoryVars, historyVars
  <1>2. CASE Crash(a)
    BY <1>2 DEF Crash, LedgerAfter
  <1>3. CASE a \in Reactor /\ React(a)
    <2>1. PICK h \in batch[a] :
            \/ Ignore(a, h)
            \/ ReactTrainer(h) /\ a = "trainer"
            \/ TrainerRaises(h) \/ TrainerUnhashable(h)
      BY <1>3 DEF React
    <2>2. \/ ledger' = ledger
          \/ \E id : ledger' = [ledger EXCEPT ![a] = Marked(@, id)]
      BY <2>1 DEF Ignore, ReactTrainer, TrainerRaises, TrainerUnhashable, Mark
    <2>3. forgets' = forgets
      BY <2>1 DEF Ignore, ReactTrainer, TrainerRaises, TrainerUnhashable, Mark
    <2> QED BY <2>2, <2>3 DEF TypeInv, MemoryOK
  <1> QED BY <1>1, <1>2, <1>3 DEF Step

LEMMA StepCovers ==
  ASSUME TypeInv, LiveInv, [Next]_vars, "live" \in Reactor
  PROVE  LiveInv'
  <1>1. TypeInv' /\ Grown /\ BagToSet(sent) \subseteq BagToSet(sent') /\ "live" \in Agent
    BY StepTyped, SentGrows, Limits
  <1>2. old \in Nat /\ old <= old
    BY DEF TypeInv, MemoryOK
  <1>3. ASSUME UNCHANGED <<offset, orphan, batch, cur, todo, ledger>>, old <= old'
        PROVE  LiveInv'
    <2>1. Soon \subseteq Soon' /\ Acked("live")' = Acked("live")
      BY <1>1, <1>3 DEF Soon, Acked, Held
    <2> QED BY <1>1, <1>3, <2>1, LiveFrame
  <1>4. CASE UNCHANGED vars \/ (\E p \in Feed : Scrape(p)) \/ Elapse
    BY <1>2, <1>3, <1>4 DEF vars, busVars, memoryVars, runnerVars, Scrape, Elapse
  <1>5. CASE \E n \in DOMAIN changes : Age(n)
    <2>1. PICK n \in DOMAIN changes : Age(n)
      BY <1>5
    <2>2. n \in Nat /\ old < n /\ old' = n
      BY <2>1 DEF Age, TypeInv, StreamsOK
    <2> QED BY <1>2, <1>3, <2>1, <2>2 DEF Age, busVars, memoryVars, runnerVars
  <1>6. ASSUME NEW a \in Agent, a # "live", Step(a) \/ Crash(a) PROVE LiveInv'
    <2>1. /\ offset'["live"] = offset["live"] /\ orphan'["live"] = orphan["live"]
          /\ batch'["live"] = batch["live"] /\ cur'["live"] = cur["live"]
          /\ todo'["live"] = todo["live"]
      BY <1>1, <1>6, OtherAgent
    <2>2. Soon \subseteq Soon' /\ Acked("live")' = Acked("live")
      BY <1>1, <2>1 DEF Soon, Acked, Held
    <2>3. old' = old
      BY <1>6 DEF Step, Read, Reclaim, Publish, Ack, Store, React, Crash
    <2>4. ledger'["live"] = ledger["live"]
      BY <1>6, OtherLedger
    <2> QED BY <1>1, <1>2, <2>1, <2>2, <2>3, <2>4, LiveFrame
  <1>7. CASE Read("live")
    <2>1. PICK k : k = ReadUpTo("live")
      OBVIOUS
    <2>2. /\ cur["live"] = 0 /\ batch["live"] = {} /\ offset'["live"] = k
          /\ batch'["live"] = (offset["live"] + 1)..k
          /\ UNCHANGED <<sent, orphan, cur, todo, ledger, old>>
      BY <1>1, <1>7, <2>1 DEF Read, Waiting, memoryVars, TypeInv, HandlesOK
    <2>3. offset["live"] \in Nat /\ k \in Nat /\ offset["live"] <= k
      <3>1. Len(Input("live")) \in Nat /\ offset["live"] \in Nat /\ offset["live"] <= Len(Input("live"))
        BY <1>1 DEF Input, TypeInv, StreamsOK, HandlesOK
      <3> QED BY <2>1, <3>1, Limits DEF ReadUpTo
    <2>4. orphan["live"] \subseteq 1..offset["live"]
      BY <1>1 DEF TypeInv, HandlesOK, Held
    <2>5. Acked("live")' = Acked("live")
      <3>1. Acked("live") = (1..offset["live"]) \ orphan["live"]
        BY <2>2 DEF Acked, Held
      <3>2. Acked("live")' = (1..k) \ (orphan["live"] \union ((offset["live"] + 1)..k))
        BY <2>2 DEF Acked, Held
      <3> QED BY <2>3, <2>4, <3>1, <3>2
    <2>6. Soon \subseteq Soon'
      BY <2>2 DEF Soon
    <2> QED BY <1>1, <1>2, <2>2, <2>5, <2>6, LiveFrame
  <1>8. CASE Reclaim("live")
    <2>1. PICK F : F = FirstOf(orphan["live"])
      OBVIOUS
    <2>2. F \subseteq orphan["live"]
      BY <2>1 DEF FirstOf
    <2>3. /\ batch["live"] = {} /\ batch'["live"] = F /\ orphan'["live"] = orphan["live"] \ F
          /\ UNCHANGED <<sent, offset, cur, todo, ledger, old>>
      BY <1>1, <1>8, <2>1 DEF Reclaim, Waiting, memoryVars, TypeInv, HandlesOK
    <2>4. Acked("live")' = Acked("live") /\ Soon \subseteq Soon'
      BY <2>2, <2>3 DEF Acked, Held, Soon
    <2> QED BY <1>1, <1>2, <2>3, <2>4, LiveFrame
  <1>9. CASE Publish("live")
    <2>1. UNCHANGED <<offset, orphan, batch, cur, ledger, old>>
      BY <1>9 DEF Publish, memoryVars
    <2>2. Soon \subseteq Soon'
      BY <1>1, <1>9, PublishSends DEF Soon
    <2>3. Acked("live")' = Acked("live")
      BY <2>1 DEF Acked, Held
    <2> QED BY <1>1, <1>2, <2>1, <2>2, <2>3, LiveFrame
  <1>10. ASSUME NEW a \in Agent, Step(a) \/ Crash(a) PROVE LiveInv'
    <2>1. CASE a # "live"
      BY <1>6, <1>10, <2>1
    <2>2. CASE a = "live"
      BY <1>1, <1>7, <1>8, <1>9, <1>10, <2>2, AckLive, CrashLive, ReactLiveCovers DEF Step
    <2> QED BY <2>1, <2>2
  <1> QED BY <1>4, <1>5, <1>10 DEF Next

\* An event the live reactor's group has acknowledged, in scope and not aged
\* out, has all its requests on the bus: the ledger never swallows a reaction
\* that a crash cut short, because it is as volatile as the outputs that were
\* lost (reactor.py ReactorBase.handle, InMemoryLedger).
THEOREM AckedEventsAreReacted == Spec => []AckedEventReacted
  <1> DEFINE Inv == "live" \in Reactor => LiveInv
  <1>1. Init => TypeInv /\ Inv
    <2> SUFFICES ASSUME Init, "live" \in Reactor PROVE LiveInv
      BY InitTyped
    <2>1. changes = << >> /\ cur["live"] = 0 /\ offset["live"] = 0 /\ Len(<< >>) = 0
      BY Limits DEF Init
    <2>2. Acked("live") = {}
      BY <2>1 DEF Acked
    <2> QED BY <2>1, <2>2 DEF LiveInv, KnownCovered, CurCovered, AckedCovered
  <1>2. TypeInv /\ Inv /\ [Next]_vars => TypeInv' /\ Inv'
    BY StepTyped, StepCovers
  <1>3. TypeInv /\ Inv => AckedEventReacted
    <2> SUFFICES ASSUME LiveInv, NEW h \in Acked("live"), fresh[h].change > old,
                        InScope("live", fresh[h].change),
                        NEW m \in Range(Markets(PlaneOf[changes[fresh[h].change].rec]))
                 PROVE  BagIn(Request(IdOf(fresh[h].change), m), sent)
      BY DEF AckedEventReacted
    <2>1. Among(BagToSet(sent), changes, fresh[h].change)
      BY DEF LiveInv, AckedCovered, Wanted, InScope
    <2> QED BY <2>1 DEF Among, BagIn, IdOf
  <1> HIDE DEF Inv
  <1> QED BY <1>1, <1>2, <1>3, PTL DEF Spec

-----------------------------------------------------------------------------
(* A request is repeated only for an id the ledger has lost *)

\* Every count of a bag is a number.
Counted(B) == \A e \in DOMAIN B : B[e] \in Nat

Distinct(q) == \A i, j \in 1..Len(q) : q[i] = q[j] => i = j

\* The copies of a request in B, and the one still to be published from q, are
\* paid for by the times its id was forgotten, and by the ledger l that holds it.
PaidFor(B, q, F, l) ==
    \A id, m : Copies(Request(id, m), B) + (IF Request(id, m) \in Range(q) THEN 1 ELSE 0)
                 <= Copies(id, F) + (IF Contains(l, id) THEN 1 ELSE 0)

\* The requests are the live reactor's, each once among its outputs.
RequestsPaid ==
    /\ Counted(sent) /\ Counted(forgets)
    /\ PaidFor(sent, todo["live"], forgets, ledger["live"])
    /\ Distinct(todo["live"])
    /\ \A a \in Agent \ {"live"} : \A o \in Range(todo[a]) : o.topic # "predict.request"

\* One more copy of each member of a set.
LEMMA CopiesAdd ==
  ASSUME NEW B, Counted(B), NEW S
  PROVE  /\ Counted(B (+) SetToBag(S))
         /\ \A e : /\ Copies(e, B) \in Nat
                   /\ Copies(e, B (+) SetToBag(S)) = Copies(e, B) + (IF e \in S THEN 1 ELSE 0)
  <1>1. /\ B (+) SetToBag(S) = [e \in DOMAIN B \union S |->
                                 (IF e \in DOMAIN B THEN B[e] ELSE 0) + (IF e \in S THEN 1 ELSE 0)]
    BY DEF (+), SetToBag
  <1>2. \A e : Copies(e, B) \in Nat
    BY DEF Copies, BagIn, BagToSet, Counted
  <1>3. Counted(B (+) SetToBag(S))
    BY <1>1 DEF Counted
  <1>4. ASSUME NEW e
        PROVE  Copies(e, B (+) SetToBag(S)) = Copies(e, B) + (IF e \in S THEN 1 ELSE 0)
    BY <1>1 DEF Copies, BagIn, BagToSet, Counted
  <1> QED BY <1>2, <1>3, <1>4

\* Two requests are the same for one id and one market only.
LEMMA RequestIs ==
  /\ \A id, m : Request(id, m).topic = "predict.request" /\ Request(id, m).arg = <<id, m>>
  /\ \A id, m, id2, m2 : Request(id, m) = Request(id2, m2) => id = id2 /\ m = m2
  BY DEF Request, Out

\* The head of the outputs is published, on another topic or as a request.
LEMMA PublishPaid ==
  ASSUME NEW B, NEW F, NEW l, NEW q \in Seq(Message), q # << >>, Counted(B), Counted(F),
         Distinct(q), PaidFor(B, q, F, l)
  PROVE  /\ PaidFor(B, Tail(q), F, l) /\ PaidFor(B (+) SetToBag({Head(q)}), Tail(q), F, l)
         /\ Distinct(Tail(q))
  <1>1. /\ Tail(q) \in Seq(Message) /\ Len(q) \in Nat /\ Len(q) >= 1 /\ Len(Tail(q)) = Len(q) - 1
        /\ Head(q) = q[1]
        /\ \A i \in 1..Len(Tail(q)) : i + 1 \in 1..Len(q) /\ Tail(q)[i] = q[i + 1]
        /\ Range(q) = Range(Tail(q)) \union {Head(q)}
    BY TailIs
  <1>2. Distinct(Tail(q))
    BY <1>1 DEF Distinct
  <1>3. Head(q) \notin Range(Tail(q))
    <2> SUFFICES ASSUME Head(q) \in Range(Tail(q)) PROVE FALSE
      OBVIOUS
    <2>1. PICK i \in 1..Len(Tail(q)) : Tail(q)[i] = Head(q)
      BY <1>1, RangeIs
    <2>2. i + 1 \in 1..Len(q) /\ 1 \in 1..Len(q) /\ q[i + 1] = q[1] /\ i + 1 # 1
      BY <1>1, <2>1
    <2> QED BY <2>2 DEF Distinct
  <1>4. ASSUME NEW id, NEW m
        PROVE  LET o == Request(id, m)
                   r == Copies(id, F) + (IF Contains(l, id) THEN 1 ELSE 0) IN
               /\ Copies(o, B) + (IF o \in Range(Tail(q)) THEN 1 ELSE 0) <= r
               /\ Copies(o, B (+) SetToBag({Head(q)})) + (IF o \in Range(Tail(q)) THEN 1 ELSE 0) <= r
    <2>1. PICK o : o = Request(id, m)
      OBVIOUS
    <2>2. PICK r : r = Copies(id, F) + (IF Contains(l, id) THEN 1 ELSE 0)
      OBVIOUS
    <2>3. r \in Nat /\ Copies(o, B) \in Nat
          /\ Copies(o, B (+) SetToBag({Head(q)})) = Copies(o, B) + (IF o \in {Head(q)} THEN 1 ELSE 0)
      BY <2>2, CopiesAdd
    <2>4. Copies(o, B) + (IF o \in Range(q) THEN 1 ELSE 0) <= r
      BY <2>1, <2>2 DEF PaidFor
    <2>5. CASE o = Head(q)
      BY <1>1, <1>3, <2>1, <2>2, <2>3, <2>4, <2>5
    <2>6. CASE o # Head(q)
      BY <1>1, <2>1, <2>2, <2>3, <2>4, <2>6
    <2> QED BY <2>5, <2>6
  <1> QED BY <1>2, <1>4 DEF PaidFor

\* The ids of S are forgotten: those the ledger no longer holds are among them.
LEMMA ForgetPaid ==
  ASSUME NEW B, NEW F, NEW l, NEW k, NEW q, NEW p, NEW S, Counted(B), Counted(F), PaidFor(B, q, F, l),
         Range(p) \subseteq Range(q), \A e : Contains(l, e) => Contains(k, e) \/ e \in S
  PROVE  PaidFor(B, p, F (+) SetToBag(S), k)
  <1> SUFFICES ASSUME NEW id, NEW m
               PROVE  Copies(Request(id, m), B) + (IF Request(id, m) \in Range(p) THEN 1 ELSE 0)
                        <= Copies(id, F (+) SetToBag(S)) + (IF Contains(k, id) THEN 1 ELSE 0)
    BY DEF PaidFor
  <1>1. Copies(Request(id, m), B) \in Nat /\ Copies(id, F) \in Nat
        /\ Copies(id, F (+) SetToBag(S)) = Copies(id, F) + (IF id \in S THEN 1 ELSE 0)
    BY CopiesAdd
  <1>2. Copies(Request(id, m), B) + (IF Request(id, m) \in Range(q) THEN 1 ELSE 0)
          <= Copies(id, F) + (IF Contains(l, id) THEN 1 ELSE 0)
    BY DEF PaidFor
  <1>3. Copies(Request(id, m), B) + (IF Request(id, m) \in Range(p) THEN 1 ELSE 0)
          <= Copies(id, F) + (IF Contains(l, id) THEN 1 ELSE 0)
    BY <1>1, <1>2
  <1>4. (IF Contains(l, id) THEN 1 ELSE 0) <= (IF id \in S THEN 1 ELSE 0) + (IF Contains(k, id) THEN 1 ELSE 0)
    OBVIOUS
  <1> QED BY <1>1, <1>3, <1>4

\* A reaction to an id the ledger did not hold, with nothing left to publish.
LEMMA ReactPaid ==
  ASSUME NEW B, NEW F, NEW l, NEW k, NEW q, NEW S, NEW new, Counted(B), Counted(F),
         PaidFor(B, << >>, F, l), ~Contains(l, new), Contains(k, new),
         \A e : Contains(l, e) => Contains(k, e) \/ e \in S,
         \A id, m : Request(id, m) \in Range(q) => id = new
  PROVE  PaidFor(B, q, F (+) SetToBag(S), k)
  <1> SUFFICES ASSUME NEW id, NEW m
               PROVE  Copies(Request(id, m), B) + (IF Request(id, m) \in Range(q) THEN 1 ELSE 0)
                        <= Copies(id, F (+) SetToBag(S)) + (IF Contains(k, id) THEN 1 ELSE 0)
    BY DEF PaidFor
  <1>1. Copies(Request(id, m), B) \in Nat /\ Copies(id, F) \in Nat
        /\ Copies(id, F (+) SetToBag(S)) = Copies(id, F) + (IF id \in S THEN 1 ELSE 0)
    BY CopiesAdd
  <1>2. Copies(Request(id, m), B) <= Copies(id, F) + (IF Contains(l, id) THEN 1 ELSE 0)
    <2>1. Range(<< >>) = {}
      BY DEF Range
    <2>2. Copies(Request(id, m), B) + (IF Request(id, m) \in Range(<< >>) THEN 1 ELSE 0)
            <= Copies(id, F) + (IF Contains(l, id) THEN 1 ELSE 0)
      BY DEF PaidFor
    <2> QED BY <1>1, <2>1, <2>2
  <1>3. CASE id = new
    BY <1>1, <1>2, <1>3
  <1>4. CASE id # new
    BY <1>1, <1>2, <1>4
  <1> QED BY <1>3, <1>4

\* The markets of a plane differ.
LEMMA MarketsDiffer == \A plane : Distinct(Markets(plane))
  <1> SUFFICES ASSUME NEW plane PROVE Distinct(Markets(plane))
    OBVIOUS
  <1>1. Distinct(<<"1x2", "ah">>)
    BY DEF Distinct
  <1>2. Distinct(<<"ah", "ou_2_5", "btts">>)
    BY DEF Distinct
  <1>3. Distinct(<< >>)
    BY DEF Distinct
  <1> QED BY <1>1, <1>2, <1>3 DEF Markets

\* A marked id is in the ledger.
LEMMA MarkedHas ==
  ASSUME NEW S, NEW l \in Seq(S), NEW id, Len(l) <= LedgerSize
  PROVE  Contains(Marked(l, id), id)
  <1>1. PICK T : T = S \union {id}
    OBVIOUS
  <1>2. ASSUME NEW q \in Seq(T) PROVE Contains(Append(q, id), id)
    <2>1. Append(q, id) \in Seq(T) /\ Len(Append(q, id)) = Len(q) + 1 /\ Len(q) \in Nat
          /\ Append(q, id)[Len(q) + 1] = id
      BY <1>1
    <2>2. Len(q) + 1 \in 1..Len(Append(q, id))
      BY <2>1
    <2> QED BY <2>1, <2>2 DEF Contains
  <1>3. l \in Seq(T)
    BY <1>1
  <1>4. CASE Contains(l, id)
    <2>1. PICK i : i = CHOOSE k \in DOMAIN l : l[k] = id
      OBVIOUS
    <2>2. i \in 1..Len(l)
      BY <1>4, <2>1 DEF Contains
    <2>3. RemoveAt(l, i) \in Seq(T)
      BY <1>3, <2>2, RemoveAtIs
    <2> QED BY <1>2, <1>4, <2>1, <2>3 DEF Marked, Renewed
  <1>5. CASE ~Contains(l, id)
    <2>1. ~(Len(l) < LedgerSize) => l # << >>
      BY Limits
    <2>2. ~(Len(l) < LedgerSize) => Tail(l) \in Seq(T)
      BY <1>3, <2>1, TailIs
    <2> QED BY <1>2, <1>3, <1>5, <2>2 DEF Marked
  <1> QED BY <1>4, <1>5

\* The live reactor takes an event: it ignores it, or reacts, pays for the
\* requests with the id it marks, and notes the id the ledger drops for it.
LEMMA ReactLivePaid ==
  ASSUME TypeInv, "live" \in Reactor, RequestsPaid, React("live")
  PROVE  RequestsPaid'
  <1>1. PICK h \in batch["live"] : Ignore("live", h) \/ ReactLive(h)
    BY DEF React
  <1>2. PICK n : n = fresh[h].change
    OBVIOUS
  <1>3. n \in 1..Len(changes) /\ "live" \in Agent
    BY <1>2, EventIs
  <1>4. cur["live"] = 0 /\ sent' = sent
    BY <1>1 DEF Ignore, ReactLive, Begin, busVars
  <1>5. todo["live"] = << >> /\ Distinct(<< >>)
    BY <1>3, <1>4 DEF TypeInv, OutputsOK, Distinct
  <1>6. \A a \in Agent \ {"live"} : todo'[a] = todo[a]
    BY <1>1, <1>3 DEF Ignore, ReactLive, Begin, TypeInv, OutputsOK
  <1>7. CASE Ignore("live", h)
    <2>1. todo'["live"] = << >> /\ UNCHANGED <<ledger, forgets>>
      BY <1>3, <1>7 DEF Ignore, Begin, TypeInv, OutputsOK
    <2> QED BY <1>4, <1>5, <1>6, <2>1 DEF RequestsPaid
  <1>8. CASE ReactLive(h)
    <2>1. PICK id, l, k : /\ id = EventId(changes[n]) /\ l = ledger["live"]
                          /\ k = Marked(ledger["live"], id)
      OBVIOUS
    <2>2. /\ todo'["live"] = Requests(n) /\ ledger'["live"] = k
          /\ forgets' = forgets (+) SetToBag(Range(l) \ Range(k)) /\ ~Contains(l, id)
      BY <1>2, <1>3, <1>8, <2>1 DEF ReactLive, Begin, Mark, GuardedOut, Known, IdOf, TypeInv, OutputsOK, MemoryOK
    <2>3. l \in Seq(EventIds) /\ Len(l) <= LedgerSize /\ id \in EventIds
      <3>1. id = IdOf(n) /\ n \in DOMAIN changes
        BY <1>3, <2>1 DEF IdOf, TypeInv, StreamsOK
      <3> QED BY <2>1, <3>1 DEF TypeInv, MemoryOK, EventIds
    <2>4. Contains(k, id) /\ k \in Seq(EventIds)
      BY <2>1, <2>3, MarkedHas, MarkedIs
    <2>5. \A e : Contains(l, e) => Contains(k, e) \/ e \in Range(l) \ Range(k)
      <3>1. \A e : Contains(l, e) <=> e \in Range(l)
        BY <2>3, RangeIs DEF Contains
      <3>2. \A e : Contains(k, e) <=> e \in Range(k)
        BY <2>4, RangeIs DEF Contains
      <3> QED BY <3>1, <3>2
    <2>6. PICK q : q = Markets(PlaneOf[changes[n].rec])
      OBVIOUS
    <2>7. /\ q \in Seq(Market) /\ Distinct(q)
          /\ Requests(n) \in Seq(Message) /\ Len(Requests(n)) = Len(q)
          /\ \A i \in 1..Len(q) : Requests(n)[i] = Request(id, q[i])
      BY <1>3, <2>1, <2>6, RequestsAre, MarketsDiffer
    <2>8. Distinct(Requests(n))
      BY <2>7, RequestIs DEF Distinct
    <2>9. \A x, m : Request(x, m) \in Range(Requests(n)) => x = id
      <3> SUFFICES ASSUME NEW x, NEW m, Request(x, m) \in Range(Requests(n)) PROVE x = id
        OBVIOUS
      <3>1. PICK i \in 1..Len(Requests(n)) : Requests(n)[i] = Request(x, m)
        BY <2>7, RangeIs
      <3> QED BY <2>7, <3>1, RequestIs
    <2>10. PaidFor(sent, << >>, forgets, l) /\ Counted(sent) /\ Counted(forgets)
      BY <1>5, <2>1 DEF RequestsPaid
    <2>11. PaidFor(sent, Requests(n), forgets (+) SetToBag(Range(l) \ Range(k)), k)
      BY <2>2, <2>4, <2>5, <2>9, <2>10, ReactPaid
    <2>12. Counted(forgets')
      BY <2>2, <2>10, CopiesAdd
    <2> QED BY <1>4, <1>6, <2>2, <2>8, <2>10, <2>11, <2>12 DEF RequestsPaid
  <1> QED BY <1>1, <1>7, <1>8

\* The process of the live reactor dies with its ledger and its outputs.
LEMMA CrashPaid ==
  ASSUME TypeInv, "live" \in Reactor, RequestsPaid, Crash("live")
  PROVE  RequestsPaid'
  <1>1. /\ "live" \in Agent /\ todo'["live"] = << >> /\ ledger'["live"] = << >> /\ sent' = sent
        /\ forgets' = forgets (+) SetToBag(Range(ledger["live"]))
        /\ \A a \in Agent \ {"live"} : todo'[a] = todo[a]
    BY Limits DEF Crash, LedgerAfter, TypeInv, OutputsOK
  <1>2. Range(<< >>) = {} /\ Distinct(<< >>)
    BY DEF Range, Distinct
  <1>3. \A e : Contains(ledger["live"], e) => e \in Range(ledger["live"])
    BY DEF Contains, Range, TypeInv, MemoryOK
  <1>4. Counted(sent) /\ Counted(forgets) /\ PaidFor(sent, todo["live"], forgets, ledger["live"])
    BY DEF RequestsPaid
  <1>5. PaidFor(sent, << >>, forgets (+) SetToBag(Range(ledger["live"])), << >>)
    BY <1>2, <1>3, <1>4, ForgetPaid
  <1>6. Counted(forgets')
    BY <1>1, <1>4, CopiesAdd
  <1> QED BY <1>1, <1>2, <1>4, <1>5, <1>6 DEF RequestsPaid

\* An output is published.
LEMMA PublishKeepsPaid ==
  ASSUME TypeInv, "live" \in Reactor, RequestsPaid, NEW a \in Agent, Publish(a)
  PROVE  RequestsPaid'
  <1>1. PICK q : q = todo[a]
    OBVIOUS
  <1>2. /\ q \in Seq(Message) /\ q # << >> /\ todo'[a] = Tail(q) /\ "live" \in Agent
        /\ \A b \in Agent \ {a} : todo'[b] = todo[b]
        /\ UNCHANGED <<ledger, forgets>>
        /\ sent' = sent \/ sent' = sent (+) SetToBag({Head(q)})
    BY <1>1, Limits DEF Publish, memoryVars, historyVars, TypeInv, OutputsOK
  <1>3. Range(q) = Range(Tail(q)) \union {Head(q)}
    BY <1>2, TailIs
  <1>4. Counted(sent) /\ Counted(forgets) /\ PaidFor(sent, todo["live"], forgets, ledger["live"])
    BY DEF RequestsPaid
  <1>5. Counted(sent')
    BY <1>2, <1>4, CopiesAdd
  <1>6. CASE a = "live"
    <2>1. /\ PaidFor(sent, Tail(q), forgets, ledger["live"]) /\ Distinct(Tail(q))
          /\ PaidFor(sent (+) SetToBag({Head(q)}), Tail(q), forgets, ledger["live"])
      BY <1>1, <1>2, <1>4, <1>6, PublishPaid DEF RequestsPaid
    <2>2. PaidFor(sent', todo'["live"], forgets', ledger'["live"])
      BY <1>2, <1>6, <2>1
    <2> QED BY <1>2, <1>4, <1>5, <1>6, <2>1, <2>2 DEF RequestsPaid
  <1>7. CASE a # "live"
    <2>1. /\ Head(q).topic # "predict.request"
          /\ \A o \in Range(Tail(q)) : o.topic # "predict.request"
      BY <1>1, <1>3, <1>7 DEF RequestsPaid
    <2>2. \A id, m : Copies(Request(id, m), sent') = Copies(Request(id, m), sent)
      <3> SUFFICES ASSUME NEW id, NEW m
                   PROVE  Copies(Request(id, m), sent') = Copies(Request(id, m), sent)
        OBVIOUS
      <3>1. Request(id, m) \notin {Head(q)}
        BY <2>1, RequestIs
      <3> QED BY <1>2, <1>4, <3>1, CopiesAdd
    <2>3. PaidFor(sent', todo["live"], forgets, ledger["live"])
      BY <1>4, <2>2 DEF PaidFor
    <2>4. \A b \in Agent \ {"live"} : \A o \in Range(todo'[b]) : o.topic # "predict.request"
      BY <1>2, <2>1 DEF RequestsPaid
    <2> QED BY <1>2, <1>4, <1>5, <1>7, <2>3, <2>4 DEF RequestsPaid
  <1> QED BY <1>6, <1>7

\* No other handler makes requests.
LEMMA OtherOutputs ==
  ASSUME TypeInv, NEW a \in Agent, a # "live", (a = "storage" /\ Store) \/ (a \in Reactor /\ React(a))
  PROVE  sent' = sent /\ \A o \in Range(todo'[a]) : o.topic # "predict.request"
  <1>1. ASSUME NEW h, NEW outs, Begin(a, h, outs), \A o \in Range(outs) : o.topic # "predict.request"
        PROVE  sent' = sent /\ \A o \in Range(todo'[a]) : o.topic # "predict.request"
    BY <1>1 DEF Begin, busVars, TypeInv, OutputsOK
  <1>2. Range(<< >>) = {} /\ \A x : Range(<<x>>) = {x}
    BY DEF Range
  <1>3. \A n, k : Out("match.stored", n, k).topic = "match.stored"
                  /\ Out("freshness.events.v1", n, k).topic = "freshness.events.v1"
                  /\ Out("match.outcome.v1", n, k).topic = "match.outcome.v1"
                  /\ Out("freshness.events.v1.dlq", n, k).topic = "freshness.events.v1.dlq"
                  /\ Out("models.events.v1", n, k).topic = "models.events.v1"
    BY DEF Out
  <1>4. CASE a = "storage" /\ Store
    <2>1. PICK h \in batch["storage"] :
            StoreMalformed(h) \/ StoreUnchanged(h) \/ StoreChange(h) \/ StoreRaises(h)
      BY <1>4 DEF Store
    <2>2. CASE StoreMalformed(h)
      BY <1>1, <1>2, <1>4, <2>2 DEF StoreMalformed
    <2>3. CASE StoreUnchanged(h)
      BY <1>1, <1>2, <1>3, <1>4, <2>3 DEF StoreUnchanged
    <2>4. CASE StoreChange(h)
      <3>1. PICK n, kind, v : Begin("storage", h, Announcement(n, kind, v))
        <4>1. Begin("storage", h, Announcement(Len(changes'),
                     Change(h, norm[h][1], norm[h][2]).kind, norm[h][2]))
          BY <2>4 DEF StoreChange
        <4> QED BY <4>1, Zenon
      <3>2. ASSUME NEW o \in Range(Announcement(n, kind, v)) PROVE o.topic # "predict.request"
        <4>1. PICK x, y, z : /\ x = Out("match.stored", n, kind) /\ y = Out("freshness.events.v1", n, 0)
                             /\ z = Out("match.outcome.v1", n, v)
          OBVIOUS
        <4>2. Announcement(n, kind, v) = <<x, y>> \o (IF v \in Terminal THEN <<z>> ELSE << >>)
          BY <4>1 DEF Announcement
        <4>3. Announcement(n, kind, v) \in Seq({x, y, z})
          <5>1. PICK u, w : u = <<x, y>> /\ w = IF v \in Terminal THEN <<z>> ELSE << >>
            OBVIOUS
          <5>2. PICK S : S = {x, y, z}
            OBVIOUS
          <5>3. x \in S /\ y \in S /\ z \in S
            BY <5>2
          <5>6. <<x, y>> \in Seq(S) /\ <<z>> \in Seq(S) /\ << >> \in Seq(S)
            BY <5>3
          <5>4. u \o w \in Seq(S)
            BY <5>1, <5>6, SeqConcat
          <5>5. Announcement(n, kind, v) = u \o w
            BY <4>2, <5>1
          <5> QED BY <5>2, <5>4, <5>5
        <4>4. o \in {x, y, z}
          BY <4>3, RangeIs
        <4> QED BY <1>3, <4>1, <4>4
      <3> QED BY <1>1, <1>4, <3>1, <3>2
    <2>5. CASE StoreRaises(h)
      <3>1. Begin("storage", h, StoreFailure(norm[h]))
        BY <2>5 DEF StoreRaises
      <3>2. h \in 1..Len(norm)
        BY <1>4, HandleIs DEF Input, TypeInv
      <3>3. norm[h] \in Entry
        BY <3>2, NormIs DEF TypeInv
      <3> QED BY <1>1, <1>4, <3>1, <3>3, StoreFailureIs
    <2> QED BY <2>1, <2>2, <2>3, <2>4, <2>5
  <1>5. CASE a \in Reactor /\ React(a)
    <2>1. PICK h \in batch[a] :
            \/ Ignore(a, h)
            \/ a = "trainer" /\ (ReactTrainer(h) \/ TrainerRaises(h) \/ TrainerUnhashable(h))
      BY <1>5 DEF React
    <2>2. CASE Ignore(a, h)
      BY <1>1, <1>2, <2>2 DEF Ignore
    <2>3. CASE a = "trainer" /\ ReactTrainer(h)
      <3>1. PICK n, q : Begin("trainer", h, [i \in DOMAIN q |-> Out("models.events.v1", n, q[i])])
        BY <2>3 DEF ReactTrainer
      <3>2. \A o \in Range([i \in DOMAIN q |-> Out("models.events.v1", n, q[i])]) :
              o.topic # "predict.request"
        BY <1>3 DEF Range
      <3> QED BY <1>1, <2>3, <3>1, <3>2
    <2>4. CASE a = "trainer" /\ (TrainerRaises(h) \/ TrainerUnhashable(h))
      <3>1. PICK n, t : Begin("trainer", h, Failure(n, t))
        BY <2>4 DEF TrainerRaises, TrainerUnhashable
      <3>2. \A o \in Range(Failure(n, t)) : o.topic # "predict.request"
        BY <1>2, <1>3 DEF Failure
      <3> QED BY <1>1, <2>4, <3>1, <3>2
    <2> QED BY <2>1, <2>2, <2>3, <2>4
  <1> QED BY <1>4, <1>5

LEMMA StepPaid ==
  ASSUME TypeInv, RequestsPaid, [Next]_vars, "live" \in Reactor
  PROVE  RequestsPaid'
  <1>1. "live" \in Agent
    BY Limits
  <1>2. CASE UNCHANGED vars \/ (\E p \in Feed : Scrape(p)) \/ (\E n \in DOMAIN changes : Age(n)) \/ Elapse
    <2>1. UNCHANGED <<sent, forgets, todo, ledger>>
      BY <1>2 DEF vars, busVars, memoryVars, historyVars, runnerVars, Scrape, Age, Elapse
    <2> QED BY <2>1 DEF RequestsPaid
  <1>3. ASSUME NEW a \in Agent, Read(a) \/ Reclaim(a) \/ Ack(a) PROVE RequestsPaid'
    <2>1. UNCHANGED <<sent, forgets, todo, ledger>>
      BY <1>3 DEF Read, Reclaim, Ack, busVars, memoryVars, historyVars
    <2> QED BY <2>1 DEF RequestsPaid
  <1>4. ASSUME NEW a \in Agent, a # "live",
               Crash(a) \/ (a = "storage" /\ Store) \/ (a \in Reactor /\ React(a))
        PROVE  RequestsPaid'
    <2>1. ledger'["live"] = ledger["live"] /\ forgets' = forgets
      BY <1>4, OtherLedger DEF Step
    <2>2. \A b \in Agent \ {a} : todo'[b] = todo[b]
      BY <1>4, OtherAgent DEF Step
    <2>3. sent' = sent /\ \A o \in Range(todo'[a]) : o.topic # "predict.request"
      <3>1. CASE Crash(a)
        <4>1. sent' = sent /\ todo'[a] = << >> /\ Range(<< >>) = {}
          BY <3>1 DEF Crash, TypeInv, OutputsOK, Range
        <4> QED BY <4>1
      <3>2. CASE (a = "storage" /\ Store) \/ (a \in Reactor /\ React(a))
        BY <1>4, <3>2, OtherOutputs
      <3> QED BY <1>4, <3>1, <3>2
    <2> QED BY <1>1, <1>4, <2>1, <2>2, <2>3 DEF RequestsPaid
  <1>5. ASSUME NEW a \in Agent, Step(a) \/ Crash(a) PROVE RequestsPaid'
    <2>1. CASE a # "live"
      BY <1>3, <1>4, <1>5, <2>1, PublishKeepsPaid DEF Step
    <2>2. CASE a = "live"
      BY <1>1, <1>3, <1>5, <2>2, PublishKeepsPaid, ReactLivePaid, CrashPaid DEF Step
    <2> QED BY <2>1, <2>2
  <1> QED BY <1>2, <1>5 DEF Next

\* A request for one event and market is on the bus at most once more than the
\* ledger of the live reactor has lost the event's id: whatever retries, replays
\* and crashes repeat the event, a request is repeated only for a forgotten id
\* (reactor.py ReactorBase.handle, InMemoryLedger.mark_processed).
THEOREM RequestsFollowTheLedger == Spec => []RequestOncePerMemory
  <1> DEFINE Inv == "live" \in Reactor => RequestsPaid
  <1>1. Init => TypeInv /\ Inv
    <2> SUFFICES ASSUME Init, "live" \in Reactor PROVE RequestsPaid
      BY InitTyped
    <2>1. /\ sent = EmptyBag /\ forgets = EmptyBag /\ \A a \in Agent : todo[a] = << >>
          /\ "live" \in Agent /\ ledger["live"] = << >>
      BY Limits DEF Init
    <2>2. Range(<< >>) = {} /\ Distinct(<< >>) /\ Counted(EmptyBag) /\ \A e : Copies(e, EmptyBag) = 0
      BY DEF Range, Distinct, Counted, Copies, BagIn, BagToSet, EmptyBag, SetToBag
    <2>3. \A e : ~Contains(<< >>, e)
      BY DEF Contains
    <2>4. PaidFor(EmptyBag, << >>, EmptyBag, << >>)
      BY <2>2, <2>3 DEF PaidFor
    <2> QED BY <2>1, <2>2, <2>4 DEF RequestsPaid
  <1>2. TypeInv /\ Inv /\ [Next]_vars => TypeInv' /\ Inv'
    BY StepTyped, StepPaid
  <1>3. Inv => RequestOncePerMemory
    <2> SUFFICES ASSUME RequestsPaid, NEW id, NEW m
                 PROVE  Copies(Request(id, m), sent) <= 1 + Copies(id, forgets)
      BY DEF RequestOncePerMemory
    <2>1. Copies(Request(id, m), sent) \in Nat /\ Copies(id, forgets) \in Nat
      BY CopiesAdd DEF RequestsPaid
    <2>2. Copies(Request(id, m), sent) + (IF Request(id, m) \in Range(todo["live"]) THEN 1 ELSE 0)
            <= Copies(id, forgets) + (IF Contains(ledger["live"], id) THEN 1 ELSE 0)
      BY DEF RequestsPaid, PaidFor
    <2> QED BY <2>1, <2>2
  <1> HIDE DEF Inv
  <1> QED BY <1>1, <1>2, <1>3, PTL DEF Spec


=============================================================================
