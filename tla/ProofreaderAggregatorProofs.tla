---------------------- MODULE ProofreaderAggregatorProofs ----------------------
(***************************************************************************)
(* Theorems about ProofreaderAggregator for any number of predictions and  *)
(* replicas, any quorum and any bounds: types, exact tallies, approvals    *)
(* backed by a quorum, given once and over no reject, and the fate of      *)
(* every candidate.                                                        *)
(***************************************************************************)
EXTENDS ProofreaderAggregator, FiniteSetTheorems, TLAPS

USE AggregatorAssumption

-----------------------------------------------------------------------------
(* Entries and their tallies.                                              *)

Exact(e) == /\ e.accepts = Cardinality(Voting(e, "accept"))
            /\ e.rejects = Cardinality(Voting(e, "reject"))

\* A set of voters is finite, so a tally is a natural number.
LEMMA VotersFinite ==
    ASSUME NEW e, NEW v
    PROVE  IsFiniteSet(Voting(e, v)) /\ Cardinality(Voting(e, v)) \in Nat
<1>1. Voting(e, v) \in SUBSET Replica
  BY DEF Voting
<1>2. IsFiniteSet(Voting(e, v))
  BY <1>1, FS_Subset
<1> QED BY <1>2, FS_CardinalityType

\* A fresh entry is well formed.
LEMMA BlankExact == Blank \in Entry /\ Exact(Blank)
<1>1. Voting(Blank, "accept") = {} /\ Voting(Blank, "reject") = {}
  BY DEF Voting, Blank
<1>2. Blank \in Entry
  BY DEF Blank, Entry
<1> QED BY <1>1, <1>2, FS_EmptySet DEF Exact, Blank

\* Recording the candidate changes no tally.
LEMMA SetFinalExact ==
    ASSUME NEW e \in Entry, Exact(e)
    PROVE  SetFinal(e) \in Entry /\ Exact(SetFinal(e))
<1>1. SetFinal(e) \in Entry
  BY DEF SetFinal, Entry
<1>2. \A v : Voting(SetFinal(e), v) = Voting(e, v)
  BY DEF SetFinal, Voting
<1> QED BY <1>1, <1>2 DEF Exact, SetFinal

\* One replica changes its verdict from prev to v: how the voters for w change.
LEMMA VotersChange ==
    ASSUME NEW e \in Entry, NEW r \in Replica, NEW v \in Verdicts,
           NEW w \in Verdicts
    PROVE  Cardinality(Voting(SetVerdict(e, r, v), w)) =
             Cardinality(Voting(e, w)) - Bit(e.verdicts[r] = w) + Bit(v = w)
<1> DEFINE new == Voting(SetVerdict(e, r, v), w)
           old == Voting(e, w)
<1>1. \A q \in Replica : SetVerdict(e, r, v).verdicts[q] =
                           IF q = r THEN v ELSE e.verdicts[q]
  BY DEF SetVerdict, Entry
<1>2. new = IF v = w THEN old \cup {r} ELSE old \ {r}
  BY <1>1 DEF Voting
<1>3. IsFiniteSet(old) /\ Cardinality(old) \in Nat
  BY VotersFinite
<1>4. r \in old <=> e.verdicts[r] = w
  BY DEF Voting
<1>5. /\ Cardinality(old \cup {r}) =
           IF r \in old THEN Cardinality(old) ELSE Cardinality(old) + 1
      /\ Cardinality(old \ {r}) =
           IF r \in old THEN Cardinality(old) - 1 ELSE Cardinality(old)
  BY <1>3, FS_AddElement, FS_RemoveElement
<1> HIDE DEF new, old
<1>6. Cardinality(new) = Cardinality(old) - Bit(e.verdicts[r] = w) + Bit(v = w)
  <2>1. CASE v = w
    BY <1>2, <1>3, <1>4, <1>5, <2>1 DEF Bit
  <2>2. CASE v # w
    BY <1>2, <1>3, <1>4, <1>5, <2>2 DEF Bit
  <2> QED BY <2>1, <2>2
<1> QED BY <1>6 DEF new, old

\* set_verdict keeps the tallies exact, also when a replica repeats or changes
\* its verdict.
LEMMA SetVerdictExact ==
    ASSUME NEW e \in Entry, Exact(e), NEW r \in Replica, NEW v \in Verdicts
    PROVE  SetVerdict(e, r, v) \in Entry /\ Exact(SetVerdict(e, r, v))
<1>1. SetVerdict(e, r, v) \in Entry
  BY DEF SetVerdict, Entry, Bit
<1>2. "accept" \in Verdicts /\ "reject" \in Verdicts
  BY DEF Verdicts
<1>3. /\ SetVerdict(e, r, v).accepts =
           e.accepts - Bit(e.verdicts[r] = "accept") + Bit(v = "accept")
      /\ SetVerdict(e, r, v).rejects =
           e.rejects - Bit(e.verdicts[r] = "reject") + Bit(v = "reject")
  BY DEF SetVerdict
<1> QED BY <1>1, <1>2, <1>3, VotersChange DEF Exact

-----------------------------------------------------------------------------
(* The ledger.                                                             *)

\* Marking keeps the ledger bounded, keeps every other id in it or records it
\* as forgotten, and puts the id in.
LEMMA MarkStep ==
    ASSUME TypeOK, NEW p \in Prediction, Mark(p)
    PROVE  /\ ledger' \in Seq(Prediction)
           /\ Len(ledger') <= LedgerSize
           /\ forgotten' \subseteq Prediction
           /\ forgotten \subseteq forgotten'
           /\ InLedger(p)'
           /\ \A q \in Prediction : InLedger(q) => InLedger(q)' \/ q \in forgotten'
<1>1. CASE Len(ledger) < LedgerSize
  <2>1. ledger' = Append(ledger, p) /\ forgotten' = forgotten
    BY <1>1 DEF Mark
  <2>2. /\ ledger' \in Seq(Prediction) /\ Len(ledger') = Len(ledger) + 1
        /\ ledger'[Len(ledger) + 1] = p
        /\ \A i \in 1..Len(ledger) : ledger'[i] = ledger[i]
    BY <2>1 DEF TypeOK
  <2>3. InLedger(p)'
    BY <2>2 DEF InLedger, TypeOK
  <2>4. ASSUME NEW q \in Prediction, InLedger(q) PROVE InLedger(q)'
    BY <2>2, <2>4 DEF InLedger, TypeOK
  <2> QED BY <1>1, <2>1, <2>2, <2>3, <2>4 DEF TypeOK
<1>2. CASE ~(Len(ledger) < LedgerSize)
  <2>1. /\ ledger' = Append(Tail(ledger), p)
        /\ forgotten' = forgotten \cup {Head(ledger)}
    BY <1>2 DEF Mark
  <2>2. ledger # << >> /\ Len(ledger) = LedgerSize /\ Len(ledger) \in Nat \ {0}
    BY <1>2 DEF TypeOK
  <2>3. /\ Tail(ledger) \in Seq(Prediction) /\ Len(Tail(ledger)) = Len(ledger) - 1
        /\ \A i \in 1..(Len(ledger) - 1) : Tail(ledger)[i] = ledger[i + 1]
        /\ Head(ledger) = ledger[1] /\ Head(ledger) \in Prediction
    BY <2>2 DEF TypeOK
  <2>4. /\ ledger' \in Seq(Prediction) /\ Len(ledger') = Len(ledger)
        /\ ledger'[Len(ledger)] = p
        /\ \A i \in 1..(Len(ledger) - 1) : ledger'[i] = Tail(ledger)[i]
    BY <2>1, <2>2, <2>3
  <2>5. InLedger(p)'
    BY <2>2, <2>4 DEF InLedger
  <2>6. ASSUME NEW q \in Prediction, InLedger(q)
        PROVE  InLedger(q)' \/ q \in forgotten'
    <3>1. PICK i \in 1..Len(ledger) : ledger[i] = q
      BY <2>6 DEF InLedger
    <3>2. CASE i = 1
      BY <2>1, <2>3, <3>1, <3>2
    <3>3. CASE i > 1
      <4>1. i - 1 \in 1..Len(ledger') /\ ledger'[i - 1] = q
        BY <2>2, <2>3, <2>4, <3>1, <3>3
      <4> QED BY <4>1 DEF InLedger
    <3> QED BY <2>2, <3>1, <3>2, <3>3
  <2> QED BY <2>1, <2>2, <2>3, <2>4, <2>5, <2>6 DEF TypeOK
<1> QED BY <1>1, <1>2

-----------------------------------------------------------------------------
(***************************************************************************)
(* The inductive invariant.  LedgerKnows is what the single-publication    *)
(* guard rests on; TallyExact is why a quorum of the counters is a quorum  *)
(* of replicas.                                                            *)
(***************************************************************************)
LedgerKnows == \A a \in approvals : InLedger(a.id) \/ a.id \in forgotten

Inv == TypeOK /\ TallyExact /\ ApprovalBacked /\ LedgerKnows /\ ApprovedOnce

\* The part of the invariant that finalization touches.
Approval == [id : Prediction, by : Nat, against : Nat]

PublicationPart ==
    /\ ledger \in Seq(Prediction) /\ Len(ledger) <= LedgerSize
    /\ approvals \subseteq Approval
    /\ twice \subseteq Prediction
    /\ flags \subseteq Kinds \X Prediction
    /\ forgotten \subseteq Prediction
    /\ ApprovalBacked /\ LedgerKnows /\ ApprovedOnce

\* Approving a prediction that the ledger does not know yet.
LEMMA ApproveStep ==
    ASSUME Inv, NEW p \in Prediction, NEW e \in Entry, Exact(e),
           e.rejects = 0, e.accepts >= Quorum,
           ~InLedger(p), Mark(p), Approve(p, e)
    PROVE  /\ approvals' \subseteq Approval /\ twice' \subseteq Prediction
           /\ (ApprovalBacked /\ LedgerKnows /\ ApprovedOnce)'
<1> DEFINE new == [id |-> p, by |-> Cardinality(Voting(e, "accept")),
                   against |-> Cardinality(Voting(e, "reject"))]
<1>1. /\ approvals' = approvals \cup {new}
      /\ twice' = IF p \in Approved THEN twice \cup {p} ELSE twice
  BY DEF Approve
<1>2. /\ new \in Approval /\ new.id = p
      /\ new.by = e.accepts /\ new.against = e.rejects
  BY VotersFinite DEF Approval, Exact
<1>3. new.by >= Quorum /\ new.against = 0
  BY <1>2
<1> HIDE DEF new
<1>4. /\ forgotten \subseteq forgotten' /\ InLedger(p)'
      /\ \A q \in Prediction : InLedger(q) => InLedger(q)' \/ q \in forgotten'
  BY MarkStep DEF Inv
<1>5. approvals' \subseteq Approval /\ twice' \subseteq Prediction
  BY <1>1, <1>2 DEF Inv, TypeOK, Approval
<1>6. ApprovalBacked'
  BY <1>1, <1>3 DEF Inv, ApprovalBacked
<1>7. LedgerKnows'
  <2> SUFFICES ASSUME NEW a \in approvals' PROVE InLedger(a.id)' \/ a.id \in forgotten'
    BY DEF LedgerKnows
  <2>1. CASE a \in approvals
    <3>1. a.id \in Prediction /\ (InLedger(a.id) \/ a.id \in forgotten)
      BY <2>1 DEF Inv, TypeOK, LedgerKnows
    <3> QED BY <1>4, <3>1
  <2>2. CASE a = new
    <3>1. a.id = p
      BY <1>2, <2>2
    <3> QED BY <1>4, <3>1
  <2> QED BY <1>1, <2>1, <2>2
<1>8. ApprovedOnce'
  <2>1. p \in Approved => p \in forgotten
    BY DEF Inv, LedgerKnows, Approved
  <2> QED BY <1>1, <1>4, <2>1 DEF Inv, ApprovedOnce
<1> QED BY <1>5, <1>6, <1>7, <1>8

\* Marking without approving.
LEMMA MarkOnly ==
    ASSUME Inv, NEW p \in Prediction, Mark(p), UNCHANGED <<approvals, twice>>
    PROVE  /\ approvals' \subseteq Approval /\ twice' \subseteq Prediction
           /\ (ApprovalBacked /\ LedgerKnows /\ ApprovedOnce)'
<1>1. /\ forgotten \subseteq forgotten'
      /\ \A q \in Prediction : InLedger(q) => InLedger(q)' \/ q \in forgotten'
  BY MarkStep DEF Inv
<1>2. LedgerKnows'
  <2> SUFFICES ASSUME NEW a \in approvals PROVE InLedger(a.id)' \/ a.id \in forgotten'
    BY DEF LedgerKnows
  <2>1. a.id \in Prediction /\ (InLedger(a.id) \/ a.id \in forgotten)
    BY DEF Inv, TypeOK, LedgerKnows
  <2> QED BY <1>1, <2>1
<1> QED
  BY <1>1, <1>2 DEF Inv, TypeOK, ApprovalBacked, ApprovedOnce, Approval

\* _finalize keeps the publication part, whatever flags are already raised.
LEMMA FinalizeStep ==
    ASSUME Inv, NEW p \in Prediction, NEW e \in Entry, Exact(e),
           NEW raised \in SUBSET (Kinds \X Prediction), Finalize(p, e, raised)
    PROVE  PublicationPart'
<1> USE DEF ledgerVars
<1>1. flags' \subseteq Kinds \X Prediction
  BY DEF Finalize, Conclude, Kinds, Inv, TypeOK
<1>2. CASE InLedger(p) /\ UNCHANGED <<ledgerVars, approvals, twice>>
  BY <1>1, <1>2 DEF PublicationPart, Inv, TypeOK, ApprovalBacked, LedgerKnows,
                    ApprovedOnce, InLedger, Approval
<1>3. CASE ~InLedger(p) /\ Mark(p) /\ Conclude(p, e, raised)
  <2>1. /\ ledger' \in Seq(Prediction) /\ Len(ledger') <= LedgerSize
        /\ forgotten' \subseteq Prediction
    BY <1>3, MarkStep DEF Inv
  <2>2. CASE UNCHANGED <<approvals, twice>>
    BY <1>1, <1>3, <2>1, <2>2, MarkOnly DEF PublicationPart
  <2>3. CASE e.rejects = 0 /\ e.accepts >= Quorum /\ Approve(p, e)
    BY <1>1, <1>3, <2>1, <2>3, ApproveStep DEF PublicationPart
  <2> QED BY <1>3, <2>2, <2>3 DEF Conclude
<1> QED BY <1>2, <1>3 DEF Finalize

\* A step that publishes nothing and only raises flags.
LEMMA QuietStep ==
    ASSUME Inv, UNCHANGED <<ledger, forgotten, approvals, twice>>,
           flags' \subseteq Kinds \X Prediction
    PROVE  PublicationPart'
BY DEF PublicationPart, Inv, TypeOK, ApprovalBacked, LedgerKnows, ApprovedOnce,
       InLedger, Approval

-----------------------------------------------------------------------------
(* The pending table.                                                      *)

EntryPart == /\ pending \in Seq(Prediction)
             /\ Len(pending) <= MaxPending
             /\ entry \in [Prediction -> Entry]
             /\ \A p \in Prediction : Exact(entry[p])

\* Making room for p keeps _pending within its cap, and p is in it.
LEMMA RoomStep ==
    ASSUME TypeOK, NEW p \in Prediction
    PROVE  /\ Room(p) \in Seq(Prediction) /\ Len(Room(p)) <= MaxPending
           /\ \E i \in 1..Len(Room(p)) : Room(p)[i] = p
<1>1. CASE p \in Held
  <2>1. Room(p) = pending
    BY <1>1 DEF Room
  <2>2. PICK i \in DOMAIN pending : pending[i] = p
    BY <1>1 DEF Held, Range
  <2> QED BY <2>1, <2>2 DEF TypeOK
<1>2. CASE p \notin Held /\ Full
  <2>1. Room(p) = Append(Tail(pending), p)
    BY <1>2 DEF Room
  <2>2. Len(pending) = MaxPending /\ pending # << >>
    BY <1>2 DEF Full, TypeOK
  <2>3. Tail(pending) \in Seq(Prediction) /\ Len(Tail(pending)) = MaxPending - 1
    BY <2>2 DEF TypeOK
  <2>4. /\ Append(Tail(pending), p) \in Seq(Prediction)
        /\ Len(Append(Tail(pending), p)) = MaxPending
        /\ Append(Tail(pending), p)[MaxPending] = p
    BY <2>3
  <2> QED BY <2>1, <2>4
<1>3. CASE p \notin Held /\ ~Full
  <2>1. Room(p) = Append(pending, p)
    BY <1>3 DEF Room
  <2>2. Len(pending) \in Nat /\ Len(pending) + 1 <= MaxPending
    BY <1>3 DEF Full, TypeOK
  <2>3. /\ Append(pending, p) \in Seq(Prediction)
        /\ Len(Append(pending, p)) = Len(pending) + 1
        /\ Append(pending, p)[Len(pending) + 1] = p
    BY DEF TypeOK
  <2> QED BY <2>1, <2>2, <2>3
<1> QED BY <1>1, <1>2, <1>3

\* Taking one element out of a sequence.
LEMMA RemoveAtType ==
    ASSUME NEW S, NEW q \in Seq(S), NEW i \in 1..Len(q)
    PROVE  RemoveAt(q, i) \in Seq(S) /\ Len(RemoveAt(q, i)) = Len(q) - 1
<1>1. /\ SubSeq(q, 1, i - 1) \in Seq(S) /\ Len(SubSeq(q, 1, i - 1)) = i - 1
  OBVIOUS
<1>2. /\ SubSeq(q, i + 1, Len(q)) \in Seq(S)
      /\ Len(SubSeq(q, i + 1, Len(q))) = Len(q) - i
  OBVIOUS
<1>3. \A a, b \in Seq(S) : a \o b \in Seq(S) /\ Len(a \o b) = Len(a) + Len(b)
  OBVIOUS
<1>4. Len(q) \in Nat /\ (i - 1) + (Len(q) - i) = Len(q) - 1
  OBVIOUS
<1>5. RemoveAt(q, i) = SubSeq(q, 1, i - 1) \o SubSeq(q, i + 1, Len(q))
  BY DEF RemoveAt
<1> QED BY <1>1, <1>2, <1>3, <1>4, <1>5

\* A handler's update of one entry.
LEMMA RecordStep ==
    ASSUME Inv, NEW p \in Prediction, NEW e \in Entry, Exact(e), Record(p, e)
    PROVE  PublicationPart' /\ EntryPart'
<1> DEFINE gone == Evicted(p)
           raised == flags \cup {<<"overflow", q>> : q \in gone}
<1>1. gone \subseteq Prediction
  BY DEF Evicted, Full, Inv, TypeOK
<1>2. raised \in SUBSET (Kinds \X Prediction)
  BY <1>1 DEF Kinds, Inv, TypeOK
<1>3. PublicationPart'
  <2>1. CASE Decided(e) /\ Finalize(p, e, raised)
    BY <1>2, <2>1, FinalizeStep
  <2>2. CASE flags' = raised /\ UNCHANGED <<ledgerVars, approvals, twice>>
    BY <1>2, <2>2, QuietStep DEF ledgerVars
  <2> QED BY <2>1, <2>2 DEF Record
<1>4. pending' \in Seq(Prediction) /\ Len(pending') <= MaxPending
  <2>1. /\ Room(p) \in Seq(Prediction) /\ Len(Room(p)) <= MaxPending
        /\ \E i \in 1..Len(Room(p)) : Room(p)[i] = p
    BY RoomStep DEF Inv
  <2>2. Place(Room(p), p) \in 1..Len(Room(p))
    BY <2>1 DEF Place
  <2>3. /\ RemoveAt(Room(p), Place(Room(p), p)) \in Seq(Prediction)
        /\ Len(RemoveAt(Room(p), Place(Room(p), p))) = Len(Room(p)) - 1
    BY <2>1, <2>2, RemoveAtType
  <2>4. pending' = IF Decided(e) THEN RemoveAt(Room(p), Place(Room(p), p)) ELSE Room(p)
    BY DEF Record
  <2>5. Len(Room(p)) \in Nat
    BY <2>1
  <2> QED BY <2>1, <2>3, <2>4, <2>5
<1>5. \E done : entry' = [q \in Prediction |-> IF q \in done THEN Blank
                                              ELSE IF q = p THEN e ELSE entry[q]]
  BY DEF Record
<1>6. entry' \in [Prediction -> Entry] /\ \A q \in Prediction : Exact(entry'[q])
  <2>1. entry \in [Prediction -> Entry] /\ \A q \in Prediction : Exact(entry[q])
    BY DEF Inv, TypeOK, TallyExact, Exact
  <2> QED BY <1>5, <2>1, BlankExact
<1>7. \A q \in Prediction : Exact(entry[q])'
  BY <1>6 DEF Exact, Voting
<1> QED BY <1>3, <1>4, <1>6, <1>7 DEF EntryPart

-----------------------------------------------------------------------------
\* The initial state satisfies the invariant.
LEMMA InvInit == Init => Inv
<1> SUFFICES ASSUME Init PROVE Inv
  OBVIOUS
<1>1. TypeOK
  BY BlankExact DEF Init, TypeOK, Verdicts
<1>2. TallyExact
  BY BlankExact DEF Init, TallyExact, Exact
<1> QED BY <1>1, <1>2 DEF Init, Inv, ApprovalBacked, LedgerKnows, ApprovedOnce

\* Inv is inductive.
LEMMA InvNext == Inv /\ [Next]_vars => Inv'
<1> SUFFICES ASSUME Inv, [Next]_vars PROVE Inv'
  OBVIOUS
<1> USE DEF ledgerVars
<1>0. /\ entry \in [Prediction -> Entry] /\ \A q \in Prediction : Exact(entry[q])
      /\ pending \in Seq(Prediction) /\ Len(pending) <= MaxPending
      /\ seen \subseteq Prediction
      /\ opinion \in [Prediction -> [Replica -> Verdicts \cup {"none"}]]
  BY DEF Inv, TypeOK, TallyExact, Exact
<1>a. ASSUME PublicationPart', EntryPart', seen' \subseteq Prediction,
             opinion' \in [Prediction -> [Replica -> Verdicts \cup {"none"}]]
      PROVE  Inv'
  BY <1>a DEF PublicationPart, EntryPart, Inv, TypeOK, TallyExact, Exact, Approval
<1>1. ASSUME NEW p \in Prediction, HandleFinal(p) PROVE Inv'
  <2>1. SetFinal(entry[p]) \in Entry /\ Exact(SetFinal(entry[p]))
    BY <1>0, SetFinalExact
  <2>2. PublicationPart' /\ EntryPart'
    BY <1>1, <2>1, RecordStep DEF HandleFinal
  <2> QED BY <1>0, <1>1, <1>a, <2>2 DEF HandleFinal
<1>2. ASSUME NEW p \in Prediction, LateVerdict(p) PROVE Inv'
  <2>1. PublicationPart'
    <3>1. flags' \subseteq Kinds \X Prediction
      BY <1>2 DEF LateVerdict, vars, Inv, TypeOK
    <3> QED BY <1>2, <3>1, QuietStep DEF LateVerdict, vars
  <2>2. EntryPart'
    BY <1>0, <1>2 DEF LateVerdict, vars, EntryPart, Exact, Voting
  <2> QED BY <1>0, <1>2, <1>a, <2>1, <2>2 DEF LateVerdict, vars
<1>3. ASSUME NEW p \in Prediction, NEW r \in Replica, NEW v \in Verdicts,
             HandleVerdict(p, r, v)
      PROVE  Inv'
  <2>1. SetVerdict(entry[p], r, v) \in Entry /\ Exact(SetVerdict(entry[p], r, v))
    BY <1>0, SetVerdictExact
  <2>2. PublicationPart' /\ EntryPart'
    BY <1>3, <2>1, RecordStep DEF HandleVerdict
  <2>3. opinion' \in [Prediction -> [Replica -> Verdicts \cup {"none"}]]
    BY <1>0, <1>3 DEF HandleVerdict
  <2> QED BY <1>0, <1>3, <1>a, <2>2, <2>3 DEF HandleVerdict
<1>4. ASSUME FlushExpired PROVE Inv'
  <2>1. pending # << >> /\ Head(pending) \in Prediction
    BY <1>0, <1>4 DEF FlushExpired
  <2>2. PICK p \in Prediction : p = Head(pending)
    BY <2>1
  <2>3. PublicationPart'
    <3>1. Finalize(p, entry[p], flags) /\ flags \in SUBSET (Kinds \X Prediction)
      BY <1>4, <2>2 DEF FlushExpired, Inv, TypeOK
    <3> QED BY <1>0, <3>1, FinalizeStep
  <2>4. pending' = Tail(pending) /\ entry' = [entry EXCEPT ![p] = Blank]
    BY <1>4, <2>2 DEF FlushExpired
  <2>5. pending' \in Seq(Prediction) /\ Len(pending') <= MaxPending
    BY <1>0, <2>1, <2>4
  <2>6. entry' \in [Prediction -> Entry] /\ \A q \in Prediction : Exact(entry'[q])
    BY <1>0, <2>4, BlankExact
  <2>7. \A q \in Prediction : Exact(entry[q])'
    BY <2>6 DEF Exact, Voting
  <2>8. EntryPart'
    BY <2>5, <2>6, <2>7 DEF EntryPart
  <2> QED BY <1>0, <1>4, <1>a, <2>3, <2>8 DEF FlushExpired
<1>5. CASE UNCHANGED vars
  <2>1. PublicationPart'
    BY <1>5, QuietStep DEF vars, Inv, TypeOK
  <2>2. EntryPart'
    BY <1>0, <1>5 DEF vars, EntryPart, Exact, Voting
  <2> QED BY <1>0, <1>5, <1>a, <2>1, <2>2 DEF vars
<1> QED BY <1>1, <1>2, <1>3, <1>4, <1>5 DEF Next

\* Type correctness; in particular _pending and the ledger keep their bounds.
THEOREM TypeCorrect == Spec => []TypeOK
<1>1. Inv => TypeOK
  BY DEF Inv
<1> QED BY <1>1, InvInit, InvNext, PTL DEF Spec

\* The running tallies are exact after any sequence of verdicts.
THEOREM TalliesAreExact == Spec => []TallyExact
<1>1. Inv => TallyExact
  BY DEF Inv
<1> QED BY <1>1, InvInit, InvNext, PTL DEF Spec

\* Every approval has a quorum of distinct replicas behind it and no recorded
\* reject against it.
THEOREM ApprovalsAreBacked == Spec => []ApprovalBacked
<1>1. Inv => ApprovalBacked
  BY DEF Inv
<1> QED BY <1>1, InvInit, InvNext, PTL DEF Spec

\* A prediction is approved twice only if the bounded ledger forgot it.
THEOREM SingleApproval == Spec => []ApprovedOnce
<1>1. Inv => ApprovedOnce
  BY DEF Inv
<1> QED BY <1>1, InvInit, InvNext, PTL DEF Spec
-----------------------------------------------------------------------------
(***************************************************************************)
(* What becomes of candidates and of rejects.  An entry that is not in     *)
(* _pending carries nothing (BlankOutside), so a handler that evicts never *)
(* finalizes in the same call, and its overflow flag is always sent.  A    *)
(* reject that its replica has not withdrawn is in the prediction's entry  *)
(* until the ledger knows the prediction (RejectsKept).                    *)
(***************************************************************************)
Overflowed(p) == <<"overflow", p>> \in flags
Known(p) == InLedger(p) \/ p \in forgotten

BlankOutside == \A p \in Prediction : p \notin Held => entry[p] = Blank

RejectsKept ==
    \A p \in Prediction, r \in Replica :
        opinion[p][r] = "reject" =>
            entry[p].verdicts[r] = "reject" \/ Known(p) \/ Overflowed(p)

FateInv == Inv /\ BlankOutside /\ RejectsKept /\ RejectIsFatal /\ CandidateAccounted

\* The elements of a sequence.
LEMMA HeldIs == \A p : p \in Held <=> \E i \in DOMAIN pending : pending[i] = p
BY DEF Held, Range

\* Taking one element out of a sequence keeps the others.
LEMMA RemoveAtKeeps ==
    ASSUME NEW S, NEW q \in Seq(S), NEW i \in 1..Len(q), NEW j \in 1..Len(q), i # j
    PROVE  q[j] \in Range(RemoveAt(q, i))
<1> DEFINE a == SubSeq(q, 1, i - 1)
           b == SubSeq(q, i + 1, Len(q))
<1>1. a \in Seq(S) /\ Len(a) = i - 1 /\ \A k \in 1..(i - 1) : a[k] = q[k]
  OBVIOUS
<1>2. b \in Seq(S) /\ Len(b) = Len(q) - i /\ \A k \in 1..(Len(q) - i) : b[k] = q[i + k]
  OBVIOUS
<1>3. RemoveAt(q, i) = a \o b
  BY DEF RemoveAt
<1> HIDE DEF a, b
<1>4. /\ a \o b \in Seq(S) /\ Len(a \o b) = Len(a) + Len(b)
      /\ \A k \in 1..Len(a) : (a \o b)[k] = a[k]
      /\ \A k \in 1..Len(b) : (a \o b)[Len(a) + k] = b[k]
  <2>0. a \in Seq(S) /\ b \in Seq(S)
    BY <1>1, <1>2
  <2>1. \A k \in 1..(Len(a) + Len(b)) :
           (a \o b)[k] = IF k <= Len(a) THEN a[k] ELSE b[k - Len(a)]
    BY <2>0
  <2>2. a \o b \in Seq(S) /\ Len(a \o b) = Len(a) + Len(b) /\ Len(a) \in Nat /\ Len(b) \in Nat
    BY <2>0
  <2>3. ASSUME NEW k \in 1..Len(b) PROVE (a \o b)[Len(a) + k] = b[k]
    <3>1. /\ Len(a) + k \in 1..(Len(a) + Len(b)) /\ ~(Len(a) + k <= Len(a))
          /\ (Len(a) + k) - Len(a) = k
      BY <2>2
    <3> QED BY <2>1, <3>1
  <2>4. ASSUME NEW k \in 1..Len(a) PROVE (a \o b)[k] = a[k]
    BY <2>1, <2>2
  <2> QED BY <2>2, <2>3, <2>4
<1>5. Len(q) \in Nat
  OBVIOUS
<1>6. CASE j < i
  <2>1. j \in 1..Len(a) /\ j \in DOMAIN (a \o b) /\ (a \o b)[j] = q[j]
    BY <1>1, <1>2, <1>4, <1>5, <1>6
  <2> QED BY <1>3, <2>1 DEF Range
<1>7. CASE j > i
  <2>1. PICK k \in 1..Len(b) : j = i + k
    <3>1. j - i \in 1..Len(b) /\ j = i + (j - i)
      BY <1>2, <1>5, <1>7
    <3> QED BY <3>1
  <2>2. b[k] = q[j]
    BY <1>2, <2>1
  <2>3. (a \o b)[Len(a) + k] = q[j]
    BY <1>4, <2>2
  <2>4. Len(a) + k \in DOMAIN (a \o b)
    BY <1>1, <1>2, <1>4, <1>5
  <2> QED BY <1>3, <2>3, <2>4 DEF Range
<1> QED BY <1>6, <1>7

\* Making room for p loses nobody but the evicted entry.
LEMMA RoomKeeps ==
    ASSUME TypeOK, NEW p \in Prediction
    PROVE  \A q : q \in Held \ Evicted(p) => \E i \in 1..Len(Room(p)) : Room(p)[i] = q
<1> SUFFICES ASSUME NEW q \in Held \ Evicted(p)
             PROVE  \E i \in 1..Len(Room(p)) : Room(p)[i] = q
  OBVIOUS
<1>1. PICK i \in 1..Len(pending) : pending[i] = q
  BY HeldIs DEF TypeOK
<1>2. CASE p \in Held
  BY <1>1, <1>2 DEF Room
<1>3. CASE p \notin Held /\ Full
  <2>1. Room(p) = Append(Tail(pending), p) /\ Evicted(p) = {Head(pending)}
    BY <1>3 DEF Room, Evicted
  <2>2. Len(pending) = MaxPending /\ pending # << >> /\ Head(pending) = pending[1]
    BY <1>3 DEF Full, TypeOK
  <2>3. i # 1
    BY <1>1, <2>1, <2>2
  <2>4. /\ Tail(pending) \in Seq(Prediction) /\ Len(Tail(pending)) = MaxPending - 1
        /\ Tail(pending)[i - 1] = q
    BY <1>1, <2>2, <2>3 DEF TypeOK
  <2>5. /\ i - 1 \in 1..Len(Append(Tail(pending), p))
        /\ Append(Tail(pending), p)[i - 1] = q
    BY <1>1, <2>2, <2>3, <2>4
  <2> QED BY <2>1, <2>5
<1>4. CASE p \notin Held /\ ~Full
  <2>1. Room(p) = Append(pending, p)
    BY <1>4 DEF Room
  <2>2. /\ i \in 1..Len(Append(pending, p))
        /\ Append(pending, p)[i] = q
    BY <1>1 DEF TypeOK
  <2> QED BY <2>1, <2>2
<1> QED BY <1>2, <1>3, <1>4

\* What _finalize leaves behind: nothing known is unknown after it, the flags
\* only grow, the prediction is in the ledger and has a trace, and it is
\* approved only without a reject.
LEMMA FinalizeTrace ==
    ASSUME Inv, NEW p \in Prediction, NEW e, NEW raised, flags \subseteq raised,
           Finalize(p, e, raised)
    PROVE  /\ flags \subseteq flags' /\ approvals \subseteq approvals'
           /\ forgotten \subseteq forgotten' /\ InLedger(p)'
           /\ \A q \in Prediction : Known(q) => Known(q)'
           /\ \/ p \in Approved'
              \/ \E f \in flags' : f[2] = p
              \/ KeyMissing
           /\ \/ approvals' = approvals
              \/ ~InLedger(p) /\ e.rejects = 0 /\ \A a \in approvals' \ approvals : a.id = p
<1> USE DEF ledgerVars
<1>1. CASE InLedger(p) /\ flags' = raised \cup {<<"duplicate_approval", p>>}
           /\ UNCHANGED <<ledgerVars, approvals, twice>>
  <2>1. \E f \in flags' : f[2] = p
    <3>1. <<"duplicate_approval", p>> \in flags' /\ <<"duplicate_approval", p>>[2] = p
      BY <1>1
    <3> QED BY <3>1
  <2>2. InLedger(p)' /\ \A q : InLedger(q) => InLedger(q)'
    BY <1>1 DEF InLedger
  <2>3. flags \subseteq flags' /\ approvals' = approvals /\ forgotten' = forgotten
    BY <1>1
  <2> QED BY <2>1, <2>2, <2>3 DEF Known
<1>2. CASE ~InLedger(p) /\ Mark(p) /\ Conclude(p, e, raised)
  <2>1. /\ forgotten \subseteq forgotten' /\ InLedger(p)'
        /\ \A q \in Prediction : Known(q) => Known(q)'
    BY <1>2, MarkStep DEF Inv, Known
  <2>2. ASSUME NEW k, flags' = raised \cup {<<k, p>>}, UNCHANGED <<approvals, twice>>
        PROVE  /\ flags \subseteq flags' /\ approvals' = approvals
               /\ \E f \in flags' : f[2] = p
    <3>1. <<k, p>> \in flags' /\ <<k, p>>[2] = p
      BY <2>2
    <3> QED BY <2>2, <3>1
  <2>3. CASE e.rejects = 0 /\ Approve(p, e) /\ flags' = raised
    <3> DEFINE new == [id |-> p, by |-> Cardinality(Voting(e, "accept")),
                       against |-> Cardinality(Voting(e, "reject"))]
    <3>1. approvals' = approvals \cup {new} /\ new.id = p
      BY <2>3 DEF Approve
    <3> HIDE DEF new
    <3>2. p \in Approved' /\ \A a \in approvals' \ approvals : a.id = p
      BY <3>1 DEF Approved
    <3>3. approvals \subseteq approvals' /\ flags \subseteq flags'
      BY <2>3, <3>1
    <3> QED BY <1>2, <2>1, <2>3, <3>2, <3>3
  <2>4. CASE KeyMissing /\ UNCHANGED <<approvals, twice, flags>>
    BY <2>1, <2>4
  <2>5. CASE flags' = raised \cup {<<"rejected", p>>} /\ UNCHANGED <<approvals, twice>>
    BY <2>1, <2>2, <2>5
  <2>6. CASE flags' = raised \cup {<<"no_quorum", p>>} /\ UNCHANGED <<approvals, twice>>
    BY <2>1, <2>2, <2>6
  <2> QED BY <1>2, <2>3, <2>4, <2>5, <2>6 DEF Conclude
<1> QED BY <1>1, <1>2 DEF Finalize

\* What a handler call leaves behind, when it finalizes only what was pending.
LEMMA RecordTrace ==
    ASSUME Inv, NEW p \in Prediction, NEW e, Record(p, e), Decided(e) => p \in Held
    PROVE  /\ flags \subseteq flags' /\ approvals \subseteq approvals'
           /\ forgotten \subseteq forgotten'
           /\ \A q \in Prediction : Known(q) => Known(q)'
           /\ \A q \in Prediction \ {p} :
                /\ q \in Held => q \in Held' \/ (Overflowed(q)' /\ entry'[q] = Blank)
                /\ entry'[q] = entry[q] \/ (Overflowed(q)' /\ entry'[q] = Blank)
           /\ \/ /\ Decided(e) /\ entry'[p] = Blank /\ InLedger(p)'
                 /\ p \in Approved' \/ (\E f \in flags' : f[2] = p) \/ KeyMissing
              \/ ~Decided(e) /\ p \in Held' /\ entry'[p] = e
           /\ \/ approvals' = approvals
              \/ ~InLedger(p) /\ e.rejects = 0 /\ \A a \in approvals' \ approvals : a.id = p
<1> DEFINE gone == Evicted(p)
           raised == flags \cup {<<"overflow", q>> : q \in gone}
           done == IF Decided(e) THEN gone \cup {p} ELSE gone
<1>1. gone \subseteq Held /\ p \notin gone /\ (Decided(e) => gone = {})
  <2>1. CASE p \in Held
    BY <2>1 DEF Evicted
  <2>2. CASE p \notin Held /\ Full
    <3>1. pending # << >> /\ Head(pending) = pending[1] /\ 1 \in DOMAIN pending
      BY <2>2 DEF Full, Inv, TypeOK
    <3>2. Head(pending) \in Held
      BY <3>1, HeldIs
    <3> QED BY <2>2, <3>2 DEF Evicted
  <2>3. CASE p \notin Held /\ ~Full
    BY <2>3 DEF Evicted
  <2> QED BY <2>1, <2>2, <2>3
<1>2. entry' = [q \in Prediction |-> IF q \in done THEN Blank ELSE IF q = p THEN e ELSE entry[q]]
  BY DEF Record
<1>3. /\ Room(p) \in Seq(Prediction)
      /\ \E i \in 1..Len(Room(p)) : Room(p)[i] = p
      /\ \A q : q \in Held \ gone => \E i \in 1..Len(Room(p)) : Room(p)[i] = q
  BY RoomStep, RoomKeeps DEF Inv
<1>4. ASSUME NEW q \in gone PROVE <<"overflow", q>> \in raised
  OBVIOUS
<1>5. flags \subseteq raised
  OBVIOUS
<1>6. \/ Decided(e) /\ Finalize(p, e, raised)
      \/ ~Decided(e) /\ flags' = raised /\ UNCHANGED <<ledger, forgotten, approvals, twice>>
  BY DEF Record, ledgerVars
<1>7. pending' = IF Decided(e) THEN RemoveAt(Room(p), Place(Room(p), p)) ELSE Room(p)
  BY DEF Record
<1>8. CASE Decided(e)
  <2>1. gone = {} /\ done = {p}
    BY <1>1, <1>8
  <2>2. entry'[p] = Blank /\ \A q \in Prediction \ {p} : entry'[q] = entry[q]
    BY <1>2, <2>1
  <2>3. ASSUME NEW q \in Held, q # p PROVE q \in Held'
    <3>1. PICK j \in 1..Len(Room(p)) : Room(p)[j] = q
      BY <1>3, <2>1
    <3>2. Place(Room(p), p) \in 1..Len(Room(p)) /\ Room(p)[Place(Room(p), p)] = p
      BY <1>3 DEF Place
    <3>3. q \in Range(RemoveAt(Room(p), Place(Room(p), p)))
      BY <1>3, <2>3, <3>1, <3>2, RemoveAtKeeps
    <3> QED BY <1>7, <1>8, <3>3 DEF Held
  <2>4. Finalize(p, e, raised)
    BY <1>6, <1>8
  <2> HIDE DEF gone, raised, done
  <2> QED BY <1>5, <1>8, <2>2, <2>3, <2>4, FinalizeTrace
<1>9. CASE ~Decided(e)
  <2>1. done = gone /\ pending' = Room(p) /\ flags' = raised
        /\ UNCHANGED <<ledger, forgotten, approvals, twice>>
    BY <1>6, <1>7, <1>9
  <2>2. \A q \in Held \ gone : q \in Held'
    BY <1>3, <2>1 DEF Held, Range
  <2>3. p \in Held'
    BY <1>3, <2>1 DEF Held, Range
  <2>4. entry'[p] = e
    BY <1>1, <1>2, <2>1
  <2>5. \A q \in Prediction \ {p} : entry'[q] = entry[q] \/ (q \in gone /\ entry'[q] = Blank)
    BY <1>2, <2>1
  <2>6. \A q \in gone : Overflowed(q)'
    BY <1>4, <2>1 DEF Overflowed
  <2>7. \A q \in Prediction \ {p} : q \in gone => entry'[q] = Blank
    BY <1>2, <2>1
  <2>8. \A q : Known(q) => Known(q)'
    BY <2>1 DEF Known, InLedger
  <2> HIDE DEF gone, raised, done
  <2> QED BY <1>5, <1>9, <2>1, <2>2, <2>3, <2>4, <2>5, <2>6, <2>7, <2>8
<1> QED BY <1>8, <1>9

\* An entry that carries nothing is not decided by its first message.
LEMMA BlankUndecided ==
    /\ ~Decided(SetFinal(Blank))
    /\ \A r \in Replica, v \in Verdicts : ~Decided(SetVerdict(Blank, r, v))
BY DEF Decided, SetFinal, SetVerdict, Blank

\* No reject among the verdicts of an entry whose count of rejects is exact.
LEMMA NoRejects ==
    ASSUME NEW e \in Entry, Exact(e), e.rejects = 0, NEW r \in Replica
    PROVE  e.verdicts[r] # "reject"
<1>1. IsFiniteSet(Voting(e, "reject")) /\ Cardinality(Voting(e, "reject")) = 0
  BY VotersFinite DEF Exact
<1>2. Voting(e, "reject") = {}
  BY <1>1, FS_EmptySet
<1> QED BY <1>2 DEF Voting

\* CandidateAccounted, prediction by prediction.
Accounted(p) ==
    \/ p \in Held \/ p \in Approved \/ (\E f \in flags : f[2] = p)
    \/ KeyMissing /\ Known(p)

LEMMA AccountedIs == CandidateAccounted <=> \A p \in seen : Accounted(p)
BY DEF CandidateAccounted, Accounted, Known

\* A call of a handler that ends in Record keeps the fate of every prediction.
\* The verdicts of p's entry and the opinions on p change together.
LEMMA FateRecord ==
    ASSUME FateInv, NEW p \in Prediction, NEW e \in Entry, Exact(e),
           Record(p, e), Decided(e) => p \in Held, ~InLedger(p),
           seen' \subseteq seen \cup {p},
           opinion' \in [Prediction -> [Replica -> Verdicts \cup {"none"}]],
           \A q \in Prediction \ {p} : opinion'[q] = opinion[q],
           \A r \in Replica : opinion'[p][r] = "reject" =>
               e.verdicts[r] = "reject" \/ Known(p) \/ Overflowed(p)
    PROVE  (BlankOutside /\ RejectsKept /\ RejectIsFatal /\ CandidateAccounted)'
<1>1. /\ flags \subseteq flags' /\ approvals \subseteq approvals'
      /\ forgotten \subseteq forgotten'
      /\ \A q \in Prediction : Known(q) => Known(q)'
      /\ \A q \in Prediction \ {p} :
           /\ q \in Held => q \in Held' \/ (Overflowed(q)' /\ entry'[q] = Blank)
           /\ entry'[q] = entry[q] \/ (Overflowed(q)' /\ entry'[q] = Blank)
      /\ \/ /\ Decided(e) /\ entry'[p] = Blank /\ InLedger(p)'
            /\ p \in Approved' \/ (\E f \in flags' : f[2] = p) \/ KeyMissing
         \/ ~Decided(e) /\ p \in Held' /\ entry'[p] = e
      /\ \/ approvals' = approvals
         \/ ~InLedger(p) /\ e.rejects = 0 /\ \A a \in approvals' \ approvals : a.id = p
  BY RecordTrace DEF FateInv
<1>2. \A q : Overflowed(q) => Overflowed(q)'
  BY <1>1 DEF Overflowed
<1>3. BlankOutside'
  <2> SUFFICES ASSUME NEW q \in Prediction, q \notin Held' PROVE entry'[q] = Blank
    BY DEF BlankOutside
  <2>1. q \notin Held => entry[q] = Blank
    BY DEF FateInv, BlankOutside
  <2> QED BY <1>1, <2>1
<1>4. RejectsKept'
  <2> SUFFICES ASSUME NEW q \in Prediction, NEW r \in Replica, opinion'[q][r] = "reject"
               PROVE  entry'[q].verdicts[r] = "reject" \/ Known(q)' \/ Overflowed(q)'
    BY DEF RejectsKept
  <2>1. CASE q # p
    <3>1. entry[q].verdicts[r] = "reject" \/ Known(q) \/ Overflowed(q)
      BY <2>1 DEF FateInv, RejectsKept
    <3> QED BY <1>1, <1>2, <2>1, <3>1
  <2>2. CASE q = p
    <3>1. e.verdicts[r] = "reject" \/ Known(p) \/ Overflowed(p)
      BY <2>2
    <3>2. InLedger(p)' => Known(p)'
      BY DEF Known
    <3> QED BY <1>1, <1>2, <2>2, <3>1, <3>2
  <2> QED BY <2>1, <2>2
<1>5. RejectIsFatal'
  <2> SUFFICES ASSUME NEW a \in approvals', NEW r \in Replica, opinion'[a.id][r] = "reject"
               PROVE  Overflowed(a.id)' \/ a.id \in forgotten'
    BY DEF RejectIsFatal, Approved, Overflowed
  <2>1. CASE a \in approvals
    <3>1. a.id \in Prediction /\ a.id \in Approved
      BY <2>1 DEF FateInv, Inv, TypeOK, Approved
    <3>2. a.id = p => a.id \in forgotten
      BY <2>1 DEF FateInv, Inv, LedgerKnows
    <3>3. a.id # p => Overflowed(a.id) \/ a.id \in forgotten
      BY <3>1 DEF FateInv, RejectIsFatal, Overflowed
    <3> QED BY <1>1, <1>2, <3>2, <3>3
  <2>2. CASE a \notin approvals
    <3>1. a.id = p /\ e.rejects = 0
      BY <1>1, <2>2
    <3>2. Known(p) \/ Overflowed(p)
      BY <3>1, NoRejects
    <3> QED BY <1>1, <1>2, <3>1, <3>2 DEF Known
  <2> QED BY <2>1, <2>2
<1>6. CandidateAccounted'
  <2> SUFFICES ASSUME NEW q \in seen' PROVE Accounted(q)'
    BY DEF CandidateAccounted, Accounted, Known
  <2>1. CASE q # p
    <3>1. q \in Prediction /\ Accounted(q)
      BY <2>1, AccountedIs DEF FateInv, Inv, TypeOK
    <3>2. Overflowed(q)' => \E f \in flags' : f[2] = q
      <4>1. <<"overflow", q>>[2] = q
        OBVIOUS
      <4> QED BY <4>1 DEF Overflowed
    <3>3. q \in Approved => q \in Approved'
      BY <1>1 DEF Approved
    <3> QED BY <1>1, <2>1, <3>1, <3>2, <3>3 DEF Accounted
  <2>2. CASE q = p
    <3>1. InLedger(p)' => Known(p)'
      BY DEF Known
    <3> QED BY <1>1, <2>2, <3>1 DEF Accounted
  <2> QED BY <2>1, <2>2
<1> QED BY <1>3, <1>4, <1>5, <1>6

\* FateInv is inductive.
LEMMA FateNext == FateInv /\ [Next]_vars => FateInv'
<1> SUFFICES ASSUME FateInv, [Next]_vars PROVE FateInv'
  OBVIOUS
<1>0. Inv'
  BY InvNext DEF FateInv
<1>a. /\ entry \in [Prediction -> Entry] /\ \A q \in Prediction : Exact(entry[q])
      /\ opinion \in [Prediction -> [Replica -> Verdicts \cup {"none"}]]
  BY DEF FateInv, Inv, TypeOK, TallyExact, Exact
<1>b. opinion' \in [Prediction -> [Replica -> Verdicts \cup {"none"}]]
  BY <1>0 DEF Inv, TypeOK
<1>1. ASSUME NEW p \in Prediction, HandleFinal(p) PROVE FateInv'
  <2> DEFINE e == SetFinal(entry[p])
  <2>1. e \in Entry /\ Exact(e) /\ e.verdicts = entry[p].verdicts
    BY <1>a, SetFinalExact DEF SetFinal
  <2>2. Decided(e) => p \in Held
    BY BlankUndecided DEF FateInv, BlankOutside
  <2>3. Record(p, e) /\ ~InLedger(p) /\ seen' \subseteq seen \cup {p} /\ opinion' = opinion
    BY <1>1 DEF HandleFinal
  <2>4. \A r \in Replica : opinion'[p][r] = "reject" =>
            e.verdicts[r] = "reject" \/ Known(p) \/ Overflowed(p)
    BY <2>1, <2>3 DEF FateInv, RejectsKept
  <2> HIDE DEF e
  <2> QED BY <1>0, <1>b, <2>1, <2>2, <2>3, <2>4, FateRecord DEF FateInv
<1>2. ASSUME NEW p \in Prediction, NEW r \in Replica, NEW v \in Verdicts,
             HandleVerdict(p, r, v)
      PROVE  FateInv'
  <2> DEFINE e == SetVerdict(entry[p], r, v)
  <2>0. e \in Entry /\ Exact(e)
    BY <1>a, SetVerdictExact
  <2>1. \A s \in Replica : e.verdicts[s] = IF s = r THEN v ELSE entry[p].verdicts[s]
    BY <1>a DEF SetVerdict, Entry
  <2>2. Decided(e) => p \in Held
    BY BlankUndecided DEF FateInv, BlankOutside
  <2>3. Record(p, e) /\ ~InLedger(p) /\ seen' = seen
    BY <1>2 DEF HandleVerdict
  <2>4. /\ \A q \in Prediction \ {p} : opinion'[q] = opinion[q]
        /\ \A s \in Replica : opinion'[p][s] = IF s = r THEN v ELSE opinion[p][s]
    BY <1>2, <1>a DEF HandleVerdict
  <2>5. \A s \in Replica : opinion'[p][s] = "reject" =>
            e.verdicts[s] = "reject" \/ Known(p) \/ Overflowed(p)
    BY <2>1, <2>4 DEF FateInv, RejectsKept
  <2> HIDE DEF e
  <2> QED BY <1>0, <1>b, <2>0, <2>2, <2>3, <2>4, <2>5, FateRecord DEF FateInv
<1>3. ASSUME FlushExpired PROVE FateInv'
  <2>1. pending # << >> /\ Head(pending) \in Prediction
    BY <1>3 DEF FlushExpired, FateInv, Inv, TypeOK
  <2>2. PICK p \in Prediction : p = Head(pending)
    BY <2>1
  <2>3. /\ Finalize(p, entry[p], flags) /\ pending' = Tail(pending)
        /\ entry' = [entry EXCEPT ![p] = Blank] /\ opinion' = opinion /\ seen' = seen
    BY <1>3, <2>2 DEF FlushExpired
  <2>4. /\ flags \subseteq flags' /\ approvals \subseteq approvals'
        /\ forgotten \subseteq forgotten' /\ InLedger(p)'
        /\ \A q \in Prediction : Known(q) => Known(q)'
        /\ p \in Approved' \/ (\E f \in flags' : f[2] = p) \/ KeyMissing
        /\ \/ approvals' = approvals
           \/ /\ ~InLedger(p) /\ entry[p].rejects = 0
              /\ \A a \in approvals' \ approvals : a.id = p
    BY <2>3, FinalizeTrace DEF FateInv
  <2>5. \A q : q \in Held /\ q # p => q \in Held'
    <3> SUFFICES ASSUME NEW q \in Held, q # p PROVE q \in Held'
      OBVIOUS
    <3>1. PICK i \in 1..Len(pending) : pending[i] = q
      BY HeldIs DEF FateInv, Inv, TypeOK
    <3>2. pending \in Seq(Prediction) /\ i # 1
      BY <2>1, <2>2, <3>1 DEF FateInv, Inv, TypeOK
    <3>3. i - 1 \in DOMAIN Tail(pending) /\ Tail(pending)[i - 1] = q
      BY <2>1, <3>1, <3>2
    <3> QED BY <2>3, <3>3 DEF Held, Range
  <2>6. entry'[p] = Blank /\ \A q \in Prediction \ {p} : entry'[q] = entry[q]
    BY <1>a, <2>3
  <2>7. InLedger(p)' => Known(p)'
    BY DEF Known
  <2>8. \A q : Overflowed(q) => Overflowed(q)'
    BY <2>4 DEF Overflowed
  <2>9. BlankOutside'
    BY <2>5, <2>6 DEF BlankOutside, FateInv
  <2>10. RejectsKept'
    BY <2>3, <2>4, <2>6, <2>7, <2>8 DEF RejectsKept, FateInv
  <2>11. RejectIsFatal'
    <3> SUFFICES ASSUME NEW a \in approvals', NEW r \in Replica, opinion[a.id][r] = "reject"
                 PROVE  Overflowed(a.id)' \/ a.id \in forgotten'
      BY <2>3 DEF RejectIsFatal, Approved, Overflowed
    <3>1. CASE a \in approvals
      BY <2>4, <2>8, <3>1 DEF FateInv, RejectIsFatal, Approved, Overflowed
    <3>2. CASE a \notin approvals
      <4>1. a.id = p /\ entry[p].rejects = 0 /\ ~InLedger(p)
        BY <2>4, <3>2
      <4>2. entry[p].verdicts[r] # "reject"
        BY <1>a, <4>1, NoRejects
      <4>3. p \in forgotten \/ Overflowed(p)
        BY <4>1, <4>2 DEF FateInv, RejectsKept, Known
      <4> QED BY <2>4, <2>8, <4>1, <4>3
    <3> QED BY <3>1, <3>2
  <2>12. CandidateAccounted'
    <3> SUFFICES ASSUME NEW q \in seen PROVE Accounted(q)'
      BY <2>3 DEF CandidateAccounted, Accounted, Known
    <3>1. q \in Prediction /\ Accounted(q)
      BY AccountedIs DEF FateInv, Inv, TypeOK
    <3>2. q \in Approved => q \in Approved'
      BY <2>4 DEF Approved
    <3> QED BY <2>4, <2>5, <2>7, <3>1, <3>2 DEF Accounted
  <2> QED BY <1>0, <2>9, <2>10, <2>11, <2>12 DEF FateInv
<1>4. CASE UNCHANGED vars
  BY <1>0, <1>4 DEF vars, FateInv, BlankOutside, RejectsKept, RejectIsFatal,
       CandidateAccounted, Held, Known, InLedger, Overflowed, Approved
<1>5. ASSUME NEW p \in Prediction, LateVerdict(p) PROVE FateInv'
  BY <1>4, <1>5 DEF LateVerdict
<1> QED BY <1>1, <1>2, <1>3, <1>4, <1>5 DEF Next

\* The initial state satisfies FateInv.
LEMMA FateInit == Init => FateInv
<1> SUFFICES ASSUME Init PROVE FateInv
  OBVIOUS
<1>1. Inv
  BY InvInit
<1>2. RejectsKept
  BY DEF Init, RejectsKept
<1> QED
  BY <1>1, <1>2 DEF Init, FateInv, BlankOutside, RejectIsFatal, CandidateAccounted, Approved

\* A reject its replica has not withdrawn is never overruled, in whatever order
\* candidate, verdicts, redeliveries and evictions come, unless an overflow flag
\* tells that the entry was evicted or the bounded ledger forgot the decision.
THEOREM RejectsAreFatal == Spec => []RejectIsFatal
<1>1. FateInv => RejectIsFatal
  BY DEF FateInv
<1> QED BY <1>1, FateInit, FateNext, PTL DEF Spec

\* No recorded candidate disappears without a trace, except one that was marked
\* before the load of the signing key raised.
THEOREM CandidatesAreAccounted == Spec => []CandidateAccounted
<1>1. FateInv => CandidateAccounted
  BY DEF FateInv
<1> QED BY <1>1, FateInit, FateNext, PTL DEF Spec


=============================================================================
