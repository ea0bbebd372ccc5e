--------------------------- MODULE ConsensusProofs ---------------------------
(* Theorems about Consensus for every value of its constants. *)
EXTENDS Consensus, TLAPS

Window == [st : {"closed", "open", "ready"}, voters : SUBSET Predictor,
           version : 0..MaxVersion, elapsed : BOOLEAN]

\* The two constant windows are windows without votes.
LEMMA ConstantWindows ==
    /\ Closed \in Window /\ Opened \in Window
    /\ Closed.voters = {} /\ Opened.voters = {}
  BY ConsensusAssumption DEF Closed, Opened, Window

\* The initial state is well typed.
LEMMA TypeInit == Init => TypeOK
  <1> SUFFICES ASSUME Init PROVE TypeOK
    OBVIOUS
  <1>1. window \in [Key -> Window]
    BY ConstantWindows DEF Init
  <1>2. ledger \in Seq(Ids) /\ Len(ledger) = 0 /\ outbox \in Seq(Outcome)
    BY DEF Init
  <1> QED
    BY <1>1, <1>2, ConsensusAssumption DEF Init, TypeOK, Window

\* Marking a prediction keeps the ledger bounded, puts the id in, adds no
\* other, and records what leaves the ledger as forgotten.
LEMMA MarkStep ==
    ASSUME TypeOK, NEW id \in Ids, Mark(id)
    PROVE  /\ ledger' \in Seq(Ids)
           /\ Len(ledger') <= LedgerSize
           /\ forgotten' \subseteq Ids
           /\ InLedger(id)'
           /\ \A x \in Ids : InLedger(x) \/ x \in forgotten => InLedger(x)' \/ x \in forgotten'
           /\ \A i \in 1..Len(ledger') : ledger'[i] = id \/ InLedger(ledger'[i])
  <1> USE ConsensusAssumption
  <1>1. CASE Len(ledger) < LedgerSize
    <2>1. ledger' = Append(ledger, id) /\ forgotten' = forgotten \ {id}
      BY <1>1 DEF Mark
    <2>2. /\ ledger' \in Seq(Ids) /\ Len(ledger') = Len(ledger) + 1
          /\ ledger'[Len(ledger) + 1] = id
          /\ \A i \in 1..Len(ledger) : ledger'[i] = ledger[i]
      BY <2>1 DEF TypeOK
    <2>3. InLedger(id)'
      BY <2>2 DEF InLedger, TypeOK
    <2>4. ASSUME NEW x \in Ids, InLedger(x) PROVE InLedger(x)'
      BY <2>2, <2>4 DEF InLedger, TypeOK
    <2>5. ASSUME NEW i \in 1..Len(ledger') PROVE ledger'[i] = id \/ InLedger(ledger'[i])
      <3>1. i \in 1..Len(ledger) \/ i = Len(ledger) + 1
        BY <2>2 DEF TypeOK
      <3>2. CASE i \in 1..Len(ledger)
        BY <2>2, <3>2 DEF InLedger
      <3> QED
        BY <2>2, <3>1, <3>2
    <2>6. ASSUME NEW x \in Ids, x \in forgotten PROVE InLedger(x)' \/ x \in forgotten'
      BY <2>1, <2>3, <2>6
    <2> QED
      BY <1>1, <2>1, <2>2, <2>3, <2>4, <2>5, <2>6 DEF TypeOK
  <1>2. CASE ~(Len(ledger) < LedgerSize)
    <2>1. ledger' = Append(Tail(ledger), id) /\ forgotten' = (forgotten \ {id}) \union {Head(ledger)}
      BY <1>2 DEF Mark
    <2>2. ledger # << >> /\ Len(ledger) = LedgerSize /\ Len(ledger) \in Nat \ {0}
      BY <1>2 DEF TypeOK
    <2>3. /\ Tail(ledger) \in Seq(Ids) /\ Len(Tail(ledger)) = Len(ledger) - 1
          /\ \A i \in 1..(Len(ledger) - 1) : Tail(ledger)[i] = ledger[i + 1]
          /\ Head(ledger) = ledger[1] /\ Head(ledger) \in Ids
      BY <2>2 DEF TypeOK
    <2>4. /\ ledger' \in Seq(Ids) /\ Len(ledger') = Len(ledger)
          /\ ledger'[Len(ledger)] = id
          /\ \A i \in 1..(Len(ledger) - 1) : ledger'[i] = Tail(ledger)[i]
      BY <2>1, <2>2, <2>3
    <2>5. InLedger(id)'
      BY <2>2, <2>4 DEF InLedger
    <2>6. ASSUME NEW x \in Ids, InLedger(x) PROVE InLedger(x)' \/ x \in forgotten'
      <3>1. PICK i \in 1..Len(ledger) : ledger[i] = x
        BY <2>6 DEF InLedger
      <3>2. CASE i = 1
        BY <2>1, <2>3, <3>1, <3>2
      <3>3. CASE i > 1
        <4>1. i - 1 \in 1..Len(ledger') /\ ledger'[i - 1] = x
          BY <2>2, <2>3, <2>4, <3>1, <3>3
        <4> QED
          BY <4>1 DEF InLedger
      <3> QED
        BY <2>2, <3>1, <3>2, <3>3
    <2>7. ASSUME NEW i \in 1..Len(ledger') PROVE ledger'[i] = id \/ InLedger(ledger'[i])
      <3>1. CASE i = Len(ledger)
        BY <2>4, <3>1
      <3>2. CASE i # Len(ledger)
        <4>1. i + 1 \in 1..Len(ledger) /\ ledger'[i] = ledger[i + 1]
          BY <2>2, <2>3, <2>4, <3>2
        <4> QED
          BY <4>1 DEF InLedger
      <3> QED
        BY <3>1, <3>2
    <2>8. ASSUME NEW x \in Ids, x \in forgotten PROVE InLedger(x)' \/ x \in forgotten'
      BY <2>1, <2>5, <2>8
    <2> QED
      BY <2>1, <2>2, <2>3, <2>4, <2>5, <2>6, <2>7, <2>8 DEF TypeOK
  <1> QED
    BY <1>1, <1>2

-----------------------------------------------------------------------------
(***************************************************************************)
(* What the guards rest on.  LedgerKnows: an issued prediction is in the   *)
(* ledger, or the ledger has forgotten it.  VotesKept: the votes of a      *)
(* window are those that were accepted into it, none if there is no window.*)
(***************************************************************************)
Issued == Published \union Returned
LedgerKnows == \A id \in Issued : InLedger(id) \/ id \in forgotten
Kept(a, w) == a = w.voters /\ (w.st = "closed" => a = {})
VotesKept == \A k \in Key : Kept(accepted[k], window[k])

PublicationPart ==
    /\ ledger \in Seq(Ids) /\ Len(ledger) <= LedgerSize
    /\ outbox \in Seq(Outcome) /\ outcomes \subseteq Outcome
    /\ repeated \subseteq Ids /\ forgotten \subseteq Ids /\ spoiled \subseteq Ids
    /\ LedgerKnows /\ OncePerPrediction /\ MarkedIsPublished /\ AcceptedVotesFused

OnceInv == TypeOK /\ PublicationPart /\ VotesKept

\* What was issued are prediction_ids, each with its key.
LEMMA IssuedAreIds ==
    ASSUME TypeOK PROVE Issued \subseteq Ids /\ {id[1] : id \in Returned} \subseteq Key
  <1>1. \A o \in Outcome : o.id \in Ids
    BY DEF Outcome, Ids
  <1>2. Published \subseteq Ids
    BY <1>1 DEF Published, TypeOK
  <1>3. \A i \in 1..Len(outbox) : outbox[i] \in Outcome
    BY DEF TypeOK
  <1>4. Returned \subseteq Ids
    BY <1>1, <1>3 DEF Returned
  <1>5. \A id \in Ids : id[1] \in Key
    BY DEF Ids
  <1> QED
    BY <1>2, <1>4, <1>5 DEF Issued

\* The prediction_id of a window.
LEMMA IdOfWindow ==
    ASSUME TypeOK, NEW k \in Key, NEW w \in Window
    PROVE  IdOf(k, w) \in Ids /\ IdOf(k, w)[1] = k /\ IdOf(k, w)[2] \in 1..MaxVersion
  BY DEF TypeOK, Window, Ids, IdOf

\* Finalizing a window with the votes accepted for it keeps the publication
\* part of the invariant.
LEMMA FinalizeStep ==
    ASSUME OnceInv, NEW k \in Key, NEW w \in Window, Finalize(k, w, w.voters),
           outcomes' = outcomes
    PROVE  PublicationPart'
  <1>0. PICK id \in Ids : id = IdOf(k, w)
    BY IdOfWindow DEF OnceInv
  <1>1. Issued \subseteq Ids
    BY IssuedAreIds DEF OnceInv
  <1>2. CASE InLedger(id)
    <2>1. UNCHANGED <<ledger, forgotten, outbox, repeated, spoiled>>
      BY <1>0, <1>2 DEF Finalize, issueVars, ledgerVars
    <2> QED
      BY <2>1 DEF OnceInv, PublicationPart, LedgerKnows, OncePerPrediction, MarkedIsPublished,
                  AcceptedVotesFused, Issued, Published, Returned, InLedger
  <1>3. CASE ~InLedger(id)
    <2>1. Mark(id)
      BY <1>0, <1>3 DEF Finalize
    <2>2. /\ ledger' \in Seq(Ids) /\ Len(ledger') <= LedgerSize
          /\ forgotten' \subseteq Ids
          /\ InLedger(id)'
          /\ \A x \in Ids : InLedger(x) \/ x \in forgotten => InLedger(x)' \/ x \in forgotten'
          /\ \A i \in 1..Len(ledger') : ledger'[i] = id \/ InLedger(ledger'[i])
      BY <2>1, MarkStep DEF OnceInv
    <2>3. \A i \in 1..Len(ledger') : ledger'[i] = id \/ ledger'[i] \in Issued \union spoiled
      BY <2>2 DEF InLedger, OnceInv, PublicationPart, MarkedIsPublished, Issued
    <2>4. CASE FusionRaises(k, w)
      <3>1. /\ outbox' = << >> /\ spoiled' = spoiled \union Returned \union {id}
            /\ repeated' = repeated
        BY <1>0, <1>3, <2>4 DEF Finalize
      <3>2. /\ outbox' \in Seq(Outcome) /\ Len(outbox') = 0 /\ Returned' = {}
            /\ Published' = Published
        BY <3>1 DEF Returned, Published
      <3>3. LedgerKnows'
        BY <1>1, <2>2, <3>2 DEF LedgerKnows, Issued, OnceInv, PublicationPart
      <3>4. MarkedIsPublished'
        BY <2>3, <3>1, <3>2 DEF MarkedIsPublished, Issued
      <3>5. AcceptedVotesFused'
        BY <3>2 DEF AcceptedVotesFused, OnceInv, PublicationPart
      <3>6. spoiled' \subseteq Ids
        BY <1>1, <3>1 DEF OnceInv, PublicationPart, Issued
      <3> QED
        BY <2>2, <3>1, <3>2, <3>3, <3>4, <3>5, <3>6 DEF PublicationPart, OnceInv, OncePerPrediction
    <2>5. CASE ~FusionRaises(k, w)
      <3> DEFINE new == [id |-> id, full |-> w.voters = w.voters]
      <3>0. new \in Outcome /\ new.id = id /\ new.full
        BY DEF Outcome, Ids
      <3>1. /\ outbox' = Append(outbox, new)
            /\ spoiled' = spoiled \ {id}
            /\ repeated' = IF id \in (Published \union Returned) \ forgotten
                           THEN repeated \union {id} ELSE repeated
        BY <1>0, <1>3, <2>5 DEF Finalize
      <3> HIDE DEF new
      <3>2. /\ outbox' \in Seq(Outcome) /\ Len(outbox') = Len(outbox) + 1
            /\ outbox'[Len(outbox) + 1] = new
            /\ \A i \in 1..Len(outbox) : outbox'[i] = outbox[i]
            /\ Len(outbox) \in Nat
        BY <3>0, <3>1 DEF OnceInv, TypeOK
      <3>3. Returned' = Returned \union {id} /\ Published' = Published
        <4>1. Returned' \subseteq Returned \union {id}
          BY <3>0, <3>2 DEF Returned
        <4>2. Returned \subseteq Returned' /\ id \in Returned'
          BY <3>0, <3>2 DEF Returned
        <4> QED
          BY <4>1, <4>2 DEF Published
      <3>4. LedgerKnows'
        BY <1>1, <2>2, <3>3 DEF LedgerKnows, Issued, OnceInv, PublicationPart
      <3>5. repeated' = repeated
        BY <1>3, <3>1 DEF OnceInv, PublicationPart, LedgerKnows, Issued
      <3>6. MarkedIsPublished'
        BY <2>3, <3>1, <3>3 DEF MarkedIsPublished, Issued
      <3>7. AcceptedVotesFused'
        BY <3>0, <3>2 DEF AcceptedVotesFused, OnceInv, PublicationPart
      <3>8. spoiled' \subseteq Ids
        BY <3>1 DEF OnceInv, PublicationPart
      <3> QED
        BY <2>2, <3>2, <3>4, <3>5, <3>6, <3>7, <3>8 DEF PublicationPart, OnceInv, OncePerPrediction
    <2> QED
      BY <2>4, <2>5
  <1> QED
    BY <1>2, <1>3

\* The keys a raising fusion takes with it.
LEMMA LostAreKeys ==
    ASSUME TypeOK, NEW k \in Key, NEW w \in Window
    PROVE  LostWith(k, w) \subseteq Key
  BY IssuedAreIds DEF LostWith

\* Windows that go, in any number, leave what is kept in step.
LEMMA WindowsGo ==
    ASSUME OnceInv, NEW K \in SUBSET Key,
           window' = [j \in Key |-> IF j \in K THEN Closed ELSE window[j]],
           accepted' = [j \in Key |-> IF j \in K THEN {} ELSE accepted[j]]
    PROVE  window' \in [Key -> Window] /\ accepted' \in [Key -> SUBSET Predictor] /\ VotesKept'
  <1>1. window' \in [Key -> Window] /\ accepted' \in [Key -> SUBSET Predictor]
    BY ConstantWindows DEF OnceInv, TypeOK, Window
  <1> SUFFICES ASSUME NEW j \in Key PROVE Kept(accepted[j], window[j])'
    BY <1>1 DEF VotesKept
  <1>2. CASE j \in K
    <2>1. window'[j] = Closed /\ accepted'[j] = {}
      BY <1>2
    <2> QED
      BY <2>1, ConstantWindows DEF Kept
  <1>3. CASE j \notin K
    <2>1. window'[j] = window[j] /\ accepted'[j] = accepted[j]
      BY <1>3
    <2> QED
      BY <2>1 DEF OnceInv, VotesKept
  <1> QED
    BY <1>2, <1>3

\* A step that touches neither the ledger nor the outcomes keeps it too.
LEMMA QuietStep ==
    ASSUME OnceInv, UNCHANGED <<ledger, forgotten, outbox, outcomes, repeated, spoiled>>
    PROVE  PublicationPart'
  BY DEF OnceInv, PublicationPart, LedgerKnows, OncePerPrediction, MarkedIsPublished,
         AcceptedVotesFused, Issued, Published, Returned, InLedger

\* The handling of a vote, whatever window it meets and whatever it evicts.
LEMMA CastVoteStep ==
    ASSUME OnceInv, NEW k \in Key, NEW p \in Predictor, NEW w \in Window,
           accepted[k] = w.voters, NEW E \in SUBSET Key, CastVote(k, p, w, E)
    PROVE  OnceInv'
  <1> DEFINE v == IdOf(k, w)[2]
             w1 == [st |-> "open", voters |-> AddVote(w, p), version |-> v, elapsed |-> w.elapsed]
             acc == accepted[k] \union {p}
             shut == [j \in Key |-> IF j \in E \union {k} THEN Closed ELSE window[j]]
             gone == [j \in Key |-> IF j \in E \union {k} THEN {} ELSE accepted[j]]
  <1>1. v \in 1..MaxVersion /\ w1 \in Window /\ w1.voters = acc /\ Kept(acc, w1)
    <2>1. v \in 1..MaxVersion
      BY IdOfWindow DEF OnceInv
    <2> QED
      BY <2>1 DEF OnceInv, TypeOK, Window, AddVote, Kept
  <1>2. /\ shut \in [Key -> Window] /\ gone \in [Key -> SUBSET Predictor]
        /\ \A j \in Key : Kept(gone[j], shut[j])
    <2>1. shut \in [Key -> Window] /\ gone \in [Key -> SUBSET Predictor]
      BY ConstantWindows DEF OnceInv, TypeOK, Window
    <2>2. \A j \in Key : \/ gone[j] = {} /\ shut[j] = Closed
                         \/ gone[j] = accepted[j] /\ shut[j] = window[j]
      <3> TAKE j \in Key
      <3>1. gone[j] = (IF j \in E \union {k} THEN {} ELSE accepted[j])
        OBVIOUS
      <3>2. shut[j] = (IF j \in E \union {k} THEN Closed ELSE window[j])
        OBVIOUS
      <3> HIDE DEF gone, shut
      <3>3. CASE j \in E \union {k}
        BY <3>1, <3>2, <3>3
      <3>4. CASE j \notin E \union {k}
        BY <3>1, <3>2, <3>4
      <3> QED
        BY <3>3, <3>4
    <2>3. Kept({}, Closed)
      BY ConstantWindows DEF Kept
    <2> QED
      BY <2>1, <2>2, <2>3 DEF OnceInv, VotesKept
  <1>3. \/ window' = shut /\ accepted' = gone
        \/ window' = [shut EXCEPT ![k] = w1] /\ accepted' = [gone EXCEPT ![k] = acc]
    BY DEF CastVote
  <1>4. older' \subseteq Key \X Key
    BY DEF CastVote, Without, Pending, OnceInv, TypeOK
  <1>5. dropped' \subseteq Key /\ version' = version /\ restarts' = restarts /\ outcomes' = outcomes
    <2>1. version' = version /\ restarts' = restarts /\ outcomes' = outcomes
      BY DEF CastVote
    <2>2. LostWith(k, w1) \subseteq Key
      <3>1. w1 \in Window
        BY <1>1
      <3> HIDE DEF w1
      <3> QED
        BY <3>1, LostAreKeys DEF OnceInv
    <2>3. \/ dropped' = (dropped \ {k}) \union E
          \/ dropped' = (dropped \ {k}) \union E \union LostWith(k, w1)
      BY DEF CastVote
    <2> HIDE DEF w1
    <2> QED
      BY <2>1, <2>2, <2>3 DEF OnceInv, TypeOK
  <1>6. PublicationPart'
    <2>1. CASE Finalize(k, w1, acc)
      <3>1. Finalize(k, w1, w1.voters)
        BY <1>1, <2>1
      <3> HIDE DEF w1, acc
      <3> QED
        BY <1>1, <1>5, <3>1, FinalizeStep
    <2>2. CASE UNCHANGED issueVars
      BY <1>5, <2>2, QuietStep DEF issueVars, ledgerVars
    <2> QED
      BY <2>1, <2>2 DEF CastVote
  <1>7. acc \in SUBSET Predictor
    BY DEF OnceInv, TypeOK
  <1> HIDE DEF v, w1, shut, gone, acc
  <1>8. window' \in [Key -> Window] /\ accepted' \in [Key -> SUBSET Predictor] /\ VotesKept'
    <2>1. CASE window' = shut /\ accepted' = gone
      <3>0. window' \in [Key -> Window] /\ accepted' \in [Key -> SUBSET Predictor]
        BY <1>2, <2>1
      <3> SUFFICES ASSUME NEW j \in Key PROVE Kept(accepted[j], window[j])'
        BY <3>0 DEF VotesKept
      <3> QED
        BY <1>2, <2>1
    <2>2. CASE window' = [shut EXCEPT ![k] = w1] /\ accepted' = [gone EXCEPT ![k] = acc]
      <3>0. window' \in [Key -> Window] /\ accepted' \in [Key -> SUBSET Predictor]
        BY <1>1, <1>2, <1>7, <2>2
      <3> SUFFICES ASSUME NEW j \in Key PROVE Kept(accepted[j], window[j])'
        BY <3>0 DEF VotesKept
      <3>1. CASE j = k
        BY <1>1, <1>2, <1>7, <2>2, <3>1
      <3> QED
        BY <1>1, <1>2, <1>7, <2>2, <3>1
    <2> QED
      BY <1>3, <2>1, <2>2
  <1> QED
    BY <1>4, <1>5, <1>6, <1>8 DEF OnceInv, TypeOK, PublicationPart, Window

\* Publishing the head of the outbox moves an issued prediction to the bus.
LEMMA PublishStep ==
    ASSUME OnceInv, PublishNext
    PROVE  PublicationPart'
  <1>1. /\ outbox # << >> /\ outcomes' = outcomes \union {Head(outbox)} /\ outbox' = Tail(outbox)
        /\ UNCHANGED <<ledger, forgotten, repeated, spoiled>>
    BY DEF PublishNext, ledgerVars
  <1>2. /\ outbox' \in Seq(Outcome) /\ Len(outbox) \in Nat \ {0} /\ Len(outbox') = Len(outbox) - 1
        /\ \A i \in 1..Len(outbox') : outbox'[i] = outbox[i + 1] /\ i + 1 \in 1..Len(outbox)
        /\ Head(outbox) = outbox[1] /\ Head(outbox) \in Outcome
    BY <1>1 DEF OnceInv, TypeOK
  <1>3. Issued' = Issued
    <2>1. Published' = Published \union {outbox[1].id}
      BY <1>1, <1>2 DEF Published
    <2>2. Returned' \subseteq Returned /\ outbox[1].id \in Returned
      BY <1>2 DEF Returned
    <2>3. Returned \subseteq Returned' \union {outbox[1].id}
      <3> SUFFICES ASSUME NEW i \in 1..Len(outbox), i # 1 PROVE outbox[i].id \in Returned'
        BY DEF Returned
      <3>1. i - 1 \in 1..Len(outbox') /\ outbox'[i - 1] = outbox[i]
        BY <1>2
      <3> QED
        BY <3>1 DEF Returned
    <2> QED
      BY <2>1, <2>2, <2>3 DEF Issued
  <1>4. AcceptedVotesFused'
    BY <1>1, <1>2 DEF AcceptedVotesFused, OnceInv, PublicationPart
  <1>5. LedgerKnows' /\ MarkedIsPublished'
    BY <1>1, <1>3 DEF LedgerKnows, MarkedIsPublished, OnceInv, PublicationPart, InLedger, Issued
  <1> QED
    BY <1>1, <1>2, <1>4, <1>5 DEF PublicationPart, OnceInv, OncePerPrediction

\* OnceInv is inductive.
LEMMA OnceNext == OnceInv /\ [Next]_vars => OnceInv'
  <1> USE ConsensusAssumption DEF issueVars, ledgerVars
  <1> SUFFICES ASSUME OnceInv, [Next]_vars PROVE OnceInv'
    OBVIOUS
  <1>0. /\ window \in [Key -> Window] /\ accepted \in [Key -> SUBSET Predictor]
        /\ \A k \in Key : Kept(accepted[k], window[k])
    BY DEF OnceInv, TypeOK, Window, VotesKept
  <1>1. ASSUME NEW k \in Key, NoteRequest(k) PROVE OnceInv'
    <2>1. PublicationPart'
      BY <1>1, QuietStep DEF NoteRequest
    <2>2. window' \in [Key -> Window]
      BY <1>0, <1>1, ConstantWindows DEF NoteRequest
    <2>3. older' \subseteq Key \X Key
      BY <1>1 DEF NoteRequest, Pending, OnceInv, TypeOK
    <2>4. VotesKept'
      <3> SUFFICES ASSUME NEW j \in Key PROVE Kept(accepted[j], window[j])'
        BY DEF VotesKept
      <3>1. CASE j = k
        <4>1. window'[j] = Opened /\ accepted'[j] = accepted[k] /\ window[k].st = "closed"
          BY <1>0, <1>1, <3>1 DEF NoteRequest
        <4> QED
          BY <1>0, <4>1, ConstantWindows DEF Kept, Opened
      <3>2. CASE j # k
        BY <1>0, <1>1, <3>2 DEF NoteRequest
      <3> QED
        BY <3>1, <3>2
    <2> QED
      BY <1>1, <2>1, <2>2, <2>3, <2>4 DEF NoteRequest, OnceInv, TypeOK, PublicationPart, Window
  <1>2. ASSUME NEW k \in Key, NEW p \in Predictor,
               VoteOpen(k, p) \/ VoteNew(k, p) \/ VoteEvict(k, p)
        PROVE  OnceInv'
    <2>1. CASE VoteOpen(k, p)
      <3>1. CastVote(k, p, window[k], {}) /\ window[k] \in Window
        BY <1>0, <2>1 DEF VoteOpen
      <3> QED
        BY <1>0, <3>1, CastVoteStep DEF Kept
    <2>2. CASE VoteNew(k, p)
      <3>1. CastVote(k, p, Opened, {}) /\ window[k].st = "closed"
        BY <2>2 DEF VoteNew
      <3>2. accepted[k] = Opened.voters
        BY <1>0, <3>1, ConstantWindows DEF Kept
      <3> QED
        BY <3>1, <3>2, ConstantWindows, CastVoteStep
    <2>3. CASE VoteEvict(k, p)
      <3>1. PICK e \in Pending : CastVote(k, p, Opened, {e})
        BY <2>3 DEF VoteEvict
      <3>2. {e} \in SUBSET Key
        BY DEF Pending
      <3>3. accepted[k] = Opened.voters
        BY <1>0, <2>3, ConstantWindows DEF Kept, VoteEvict
      <3> QED
        BY <3>1, <3>2, <3>3, ConstantWindows, CastVoteStep
    <2> QED
      BY <1>2, <2>1, <2>2, <2>3
  <1>3. ASSUME FlushExpired PROVE OnceInv'
    <2>1. PublicationPart'
      BY <1>3, QuietStep DEF FlushExpired
    <2>2. window' \in [Key -> Window] /\ \A k \in Key : window'[k].voters = window[k].voters
      BY <1>0, <1>3 DEF FlushExpired, Window
    <2>3. \A k \in Key : window'[k].st = "closed" => window[k].st = "closed"
      BY <1>0, <1>3 DEF FlushExpired, Window
    <2>4. VotesKept'
      <3> SUFFICES ASSUME NEW j \in Key PROVE Kept(accepted[j], window[j])'
        BY DEF VotesKept
      <3> QED
        BY <1>0, <1>3, <2>2, <2>3 DEF FlushExpired, Kept
    <2> QED
      BY <1>3, <2>1, <2>2, <2>4 DEF FlushExpired, OnceInv, TypeOK, PublicationPart, Window
  <1>4. ASSUME NEW k \in Key, FlushOne(k) PROVE OnceInv'
    <2>1. PublicationPart'
      <3>1. Finalize(k, window[k], window[k].voters) /\ window[k] \in Window /\ outcomes' = outcomes
        BY <1>0, <1>4 DEF FlushOne, Kept
      <3> QED
        BY <3>1, FinalizeStep
    <2>2. PICK K \in SUBSET Key :
            /\ window' = [j \in Key |-> IF j \in K THEN Closed ELSE window[j]]
            /\ accepted' = [j \in Key |-> IF j \in K THEN {} ELSE accepted[j]]
            /\ older' = Without(K)
            /\ dropped' = dropped \union LostWith(k, window[k]) \union (K \ {k})
      <3> DEFINE K == IF LostWith(k, window[k]) = {} THEN {k} ELSE Ready
      <3>1. K \in SUBSET Key
        BY DEF Ready
      <3>2. /\ window' = [j \in Key |-> IF j \in K THEN Closed ELSE window[j]]
            /\ accepted' = [j \in Key |-> IF j \in K THEN {} ELSE accepted[j]]
            /\ older' = Without(K)
            /\ dropped' = dropped \union LostWith(k, window[k]) \union (K \ {k})
        BY <1>4 DEF FlushOne
      <3> HIDE DEF K
      <3> QED
        BY <3>1, <3>2
    <2>3. older' \subseteq Key \X Key
      BY <2>2 DEF Without, OnceInv, TypeOK
    <2>4. window' \in [Key -> Window] /\ accepted' \in [Key -> SUBSET Predictor] /\ VotesKept'
      BY <2>2, WindowsGo
    <2>5. dropped' \subseteq Key
      <3>1. LostWith(k, window[k]) \subseteq Key
        BY <1>0, LostAreKeys DEF OnceInv
      <3> QED
        BY <2>2, <3>1 DEF OnceInv, TypeOK
    <2> QED
      BY <1>4, <2>1, <2>3, <2>4, <2>5 DEF FlushOne, OnceInv, TypeOK, PublicationPart, Window
  <1>5. ASSUME PublishNext PROVE OnceInv'
    <2>1. PublicationPart'
      BY <1>5, PublishStep
    <2> QED
      BY <1>0, <1>5, <2>1 DEF PublishNext, OnceInv, TypeOK, PublicationPart, VotesKept
  <1>6. ASSUME NEW k \in Key, Elapse(k) PROVE OnceInv'
    <2>1. PublicationPart'
      BY <1>6, QuietStep DEF Elapse
    <2>2. window' \in [Key -> Window]
      BY <1>0, <1>6 DEF Elapse, Window
    <2>3. VotesKept'
      <3> SUFFICES ASSUME NEW j \in Key PROVE Kept(accepted[j], window[j])'
        BY DEF VotesKept
      <3>1. CASE j = k
        BY <1>0, <1>6, <3>1 DEF Elapse, Kept
      <3>2. CASE j # k
        BY <1>0, <1>6, <3>2 DEF Elapse
      <3> QED
        BY <3>1, <3>2
    <2> QED
      BY <1>6, <2>1, <2>2, <2>3 DEF Elapse, OnceInv, TypeOK, PublicationPart, Window
  <1>7. ASSUME Calibrate PROVE OnceInv'
    <2>1. PublicationPart'
      BY <1>7, QuietStep DEF Calibrate
    <2> QED
      BY <1>7, <2>1 DEF Calibrate, OnceInv, TypeOK, PublicationPart, VotesKept
  <1>8. ASSUME Restart PROVE OnceInv'
    <2>1. window' \in [Key -> Window] /\ accepted' \in [Key -> SUBSET Predictor] /\ VotesKept'
      BY <1>8, ConstantWindows DEF Restart, VotesKept, Kept
    <2>2. /\ forgotten' = forgotten \union {ledger[i] : i \in 1..Len(ledger)}
          /\ outcomes' = outcomes /\ repeated' = repeated /\ spoiled' = {}
          /\ ledger' = << >> /\ outbox' = << >>
      BY <1>8 DEF Restart, LedgerAfter
    <2>3. forgotten' \subseteq Ids
      BY <2>2 DEF OnceInv, TypeOK
    <2>4. /\ ledger' \in Seq(Ids) /\ Len(ledger') = 0
          /\ outbox' \in Seq(Outcome) /\ Len(outbox') = 0 /\ Returned' = {}
      BY <2>2 DEF Returned
    <2>5. LedgerKnows'
      BY <2>2, <2>4 DEF OnceInv, PublicationPart, LedgerKnows, Issued, Published, InLedger
    <2>6. OncePerPrediction' /\ MarkedIsPublished' /\ AcceptedVotesFused'
      BY <2>2, <2>4 DEF OnceInv, PublicationPart, OncePerPrediction, MarkedIsPublished, AcceptedVotesFused
    <2>7. PublicationPart'
      BY <2>2, <2>3, <2>4, <2>5, <2>6 DEF PublicationPart, OnceInv
    <2>8. dropped' \subseteq Key
      <3>1. {id[1] : id \in Returned} \subseteq Key
        BY IssuedAreIds DEF OnceInv
      <3> QED
        BY <1>8, <3>1 DEF Restart, Pending, Ready, OnceInv, TypeOK
    <2> QED
      BY <1>8, <2>1, <2>7, <2>8 DEF Restart, OnceInv, TypeOK, PublicationPart, Window
  <1>9. CASE UNCHANGED vars
    <2>1. PublicationPart'
      BY <1>9, QuietStep DEF vars
    <2> QED
      BY <1>9, <2>1 DEF vars, OnceInv, TypeOK, PublicationPart, VotesKept
  <1> QED
    BY <1>1, <1>2, <1>3, <1>4, <1>5, <1>6, <1>7, <1>8, <1>9 DEF Next, Handle, Flush

\* The initial state satisfies the invariant.
LEMMA OnceInit == Init => OnceInv
  <1> SUFFICES ASSUME Init PROVE OnceInv
    OBVIOUS
  <1>1. LedgerKnows /\ OncePerPrediction /\ MarkedIsPublished /\ AcceptedVotesFused
    BY DEF Init, LedgerKnows, OncePerPrediction, MarkedIsPublished, AcceptedVotesFused,
           Issued, Published, Returned
  <1>2. VotesKept
    BY ConstantWindows DEF Init, VotesKept, Kept
  <1> QED
    BY <1>1, <1>2, TypeInit DEF OnceInv, PublicationPart, TypeOK

\* Type correctness of the consensus agent; in particular the ledger never
\* exceeds its maximal size.
THEOREM TypeCorrect == Spec => []TypeOK
  <1>1. OnceInv => TypeOK
    BY DEF OnceInv
  <1> QED
    BY OnceInit, OnceNext, <1>1, PTL DEF Spec

\* Single publication: for any number of requests, predictors, redeliveries,
\* calibration updates, evictions and restarts, a prediction_id is issued
\* again only if the ledger has forgotten it since.
THEOREM SinglePublication == Spec => []OncePerPrediction
  <1>1. OnceInv => OncePerPrediction
    BY DEF OnceInv, PublicationPart
  <1> QED
    BY OnceInit, OnceNext, <1>1, PTL DEF Spec

\* What mark-before-publish can hide: with a ledger that dies with the process,
\* an id the late-vote guard suppresses has its outcome on the bus or in the
\* hands of the runner, or the call that marked it raised in the fusion.
THEOREM MarksAreBacked == Spec => []MarkedIsPublished
  <1>1. OnceInv => MarkedIsPublished
    BY DEF OnceInv, PublicationPart
  <1> QED
    BY OnceInit, OnceNext, <1>1, PTL DEF Spec

\* No accepted vote is left out of the outcome of its window, whether the
\* last vote or flush_expired finalizes it.
THEOREM VotesAreFused == Spec => []AcceptedVotesFused
  <1>1. OnceInv => AcceptedVotesFused
    BY DEF OnceInv, PublicationPart
  <1> QED
    BY OnceInit, OnceNext, <1>1, PTL DEF Spec

=============================================================================
