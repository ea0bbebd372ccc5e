------------------------- MODULE ProofreaderAggregator -------------------------
(***************************************************************************)
(* src/swarm/agents/proofreader/aggregator.py: the quorum that turns a     *)
(* candidate (predict.final) and the verdicts of the proofreader replicas  *)
(* into at most one predict.approved.v1.                                   *)
(*                                                                         *)
(* The bus redelivers and reorders, so a candidate or a verdict may arrive *)
(* at any time and any number of times.  Accept and warn are counted alike *)
(* and are one value here.  The agent runs in one runner loop: a handler   *)
(* call or the finalization of one expired entry is one step.              *)
(***************************************************************************)
EXTENDS Naturals, Sequences, FiniteSets, SequencesExt

CONSTANTS Prediction,   \* prediction ids
          Replica,      \* the proofreader replicas
          Quorum,       \* cfg.proofreader_quorum
          MaxPending,   \* cfg.proofreader_aggregator_max_pending
          LedgerSize,   \* cfg.reactor_ledger_max_size
          KeyMissing    \* the citation HMAC key may be unreadable

ASSUME AggregatorAssumption ==
    /\ IsFiniteSet(Replica)
    /\ Quorum \in Nat \ {0}
    /\ MaxPending \in Nat \ {0}
    /\ LedgerSize \in Nat \ {0}
    /\ KeyMissing \in BOOLEAN

VARIABLES pending,    \* self._pending, prediction ids in insertion order
          entry,      \* the _Pending record of each of them
          ledger,     \* the ledger's prediction ids, oldest first
          \* history
          opinion,    \* the last verdict recorded from each replica
          seen,       \* predictions whose candidate was recorded
          approvals,  \* the predict.approved.v1, with the replicas for and against
          twice,      \* predictions approved a second time
          flags,      \* <<kind, prediction>> of the proof.flag messages that
                      \* tell what became of a candidate
          forgotten   \* predictions the bounded ledger has dropped

ledgerVars == <<ledger, forgotten>>
vars == <<pending, entry, ledger, opinion, seen, approvals, twice, flags, forgotten>>

Verdicts == {"accept", "reject"}
Kinds == {"no_quorum", "rejected", "duplicate_approval", "overflow"}

Entry == [final : BOOLEAN,
          verdicts : [Replica -> Verdicts \cup {"none"}],
          accepts : Int, rejects : Int]

Blank == [final |-> FALSE, verdicts |-> [r \in Replica |-> "none"],
          accepts |-> 0, rejects |-> 0]

Voting(e, v) == {r \in Replica : e.verdicts[r] = v}

Held == Range(pending)
Place(q, p) == CHOOSE i \in 1..Len(q) : q[i] = p
InLedger(p) == \E i \in 1..Len(ledger) : ledger[i] = p
Approved == {a.id : a \in approvals}

Init ==
    /\ pending = << >>
    /\ entry = [p \in Prediction |-> Blank]
    /\ ledger = << >>
    /\ opinion = [p \in Prediction |-> [r \in Replica |-> "none"]]
    /\ seen = {}
    /\ approvals = {}
    /\ twice = {}
    /\ flags = {}
    /\ forgotten = {}

-----------------------------------------------------------------------------
(* The running tallies of an entry.                                        *)

Bit(b) == IF b THEN 1 ELSE 0

\* _Pending.set_verdict: the replica's previous verdict leaves the tally, the
\* new one enters it.
SetVerdict(e, r, v) ==
    LET prev == e.verdicts[r] IN
    [final |-> e.final,
     verdicts |-> [e.verdicts EXCEPT ![r] = v],
     accepts |-> e.accepts - Bit(prev = "accept") + Bit(v = "accept"),
     rejects |-> e.rejects - Bit(prev = "reject") + Bit(v = "reject")]

SetFinal(e) ==
    [final |-> TRUE, verdicts |-> e.verdicts,
     accepts |-> e.accepts, rejects |-> e.rejects]

\* _maybe_finalize_locked: verdicts alone never finalize.
Decided(e) == e.final /\ (e.rejects > 0 \/ e.accepts >= Quorum)

-----------------------------------------------------------------------------
(* Finalization.                                                           *)

\* Mutant: the ledger is not told.
MutantMark(p) == UNCHANGED ledgerVars

\* Ledger.mark_processed of an id that is not in it: appended, and the oldest
\* one is evicted above the maximal size.
Mark(p) ==
    IF Len(ledger) < LedgerSize
    THEN ledger' = Append(ledger, p) /\ UNCHANGED forgotten
    ELSE /\ ledger' = Append(Tail(ledger), p)
         /\ forgotten' = forgotten \cup {Head(ledger)}

Approve(p, e) ==
    /\ approvals' = approvals \cup {[id |-> p,
                                     by |-> Cardinality(Voting(e, "accept")),
                                     against |-> Cardinality(Voting(e, "reject"))]}
    /\ twice' = IF p \in Approved THEN twice \cup {p} ELSE twice

\* Mutant: the quorum is looked at before the rejects.
MutantConclude(p, e, raised) ==
    \/ /\ e.final /\ e.accepts >= Quorum
       /\ Approve(p, e)
       /\ flags' = raised
    \/ /\ ~(e.final /\ e.accepts >= Quorum)
       /\ flags' = raised \cup {<<IF e.rejects > 0 THEN "rejected"
                                  ELSE "no_quorum", p>>}
       /\ UNCHANGED <<approvals, twice>>

\* _finalize after the mark.  raised is the set of flags to which it adds.  The
\* signing key is loaded after the mark: without it do nothing but raise.
Conclude(p, e, raised) ==
    \/ /\ e.rejects > 0
       /\ flags' = raised \cup {<<"rejected", p>>}
       /\ UNCHANGED <<approvals, twice>>
    \/ /\ e.rejects = 0 /\ e.final /\ e.accepts >= Quorum
       /\ Approve(p, e)
       /\ flags' = raised
    \/ \* _load_predict_citation_hmac_key raises: the handler's outputs, the
       \* overflow flag included, are gone
       /\ KeyMissing
       /\ e.rejects = 0 /\ e.final /\ e.accepts >= Quorum
       /\ UNCHANGED <<approvals, twice, flags>>
    \/ /\ e.rejects = 0 /\ ~(e.final /\ e.accepts >= Quorum)
       /\ flags' = raised \cup {<<"no_quorum", p>>}
       /\ UNCHANGED <<approvals, twice>>

\* _finalize: mark first, then publish.
Finalize(p, e, raised) ==
    \/ /\ InLedger(p)
       /\ flags' = raised \cup {<<"duplicate_approval", p>>}
       /\ UNCHANGED <<ledgerVars, approvals, twice>>
    \/ /\ ~InLedger(p)
       /\ Mark(p)
       /\ Conclude(p, e, raised)

-----------------------------------------------------------------------------
(* The handlers.                                                           *)

Full == Len(pending) >= MaxPending

\* self._pending after _evict_if_full_locked and the insertion of p.
Room(p) ==
    IF p \in Held THEN pending
    ELSE Append(IF Full THEN Tail(pending) ELSE pending, p)

\* Mutant: an eviction leaves no trace.
MutantEvicted(p) == {}

Evicted(p) == IF p \notin Held /\ Full THEN {Head(pending)} ELSE {}

\* A handler has changed p's entry to e: evict, insert, finalize if decided,
\* and flag the evictions.
Record(p, e) ==
    LET gone == Evicted(p)
        raised == flags \cup {<<"overflow", q>> : q \in gone}
        done == IF Decided(e) THEN gone \cup {p} ELSE gone
    IN  /\ pending' = IF Decided(e) THEN RemoveAt(Room(p), Place(Room(p), p))
                       ELSE Room(p)
        /\ entry' = [q \in Prediction |->
                       IF q \in done THEN Blank
                       ELSE IF q = p THEN e ELSE entry[q]]
        /\ \/ Decided(e) /\ Finalize(p, e, raised)
           \/ /\ ~Decided(e)
              /\ flags' = raised
              /\ UNCHANGED <<ledgerVars, approvals, twice>>

\* _handle_final; a candidate the ledger knows is dropped silently.
HandleFinal(p) ==
    /\ ~InLedger(p)
    /\ seen' = seen \cup {p}
    /\ Record(p, SetFinal(entry[p]))
    /\ UNCHANGED opinion

\* _handle_verdict of a prediction that is not in the ledger.
HandleVerdict(p, r, v) ==
    /\ ~InLedger(p)
    /\ opinion' = [opinion EXCEPT ![p] = [opinion[p] EXCEPT ![r] = v]]
    /\ Record(p, SetVerdict(entry[p], r, v))
    /\ UNCHANGED seen

\* A verdict after the decision is dropped; its own flag decides nothing.
LateVerdict(p) ==
    /\ InLedger(p)
    /\ UNCHANGED vars

\* flush_expired: windows open in insertion order on a monotonic clock, so the
\* oldest entry expires first; a call that finds several is several steps.
FlushExpired ==
    LET p == Head(pending) IN
    /\ pending # << >>
    /\ pending' = Tail(pending)
    /\ entry' = [entry EXCEPT ![p] = Blank]
    /\ Finalize(p, entry[p], flags)
    /\ UNCHANGED <<opinion, seen>>

Next ==
    \/ \E p \in Prediction : HandleFinal(p) \/ LateVerdict(p)
    \/ \E p \in Prediction, r \in Replica, v \in Verdicts : HandleVerdict(p, r, v)
    \/ FlushExpired

Spec == Init /\ [][Next]_vars

-----------------------------------------------------------------------------
(* Properties.                                                             *)

\* The variables have their types; _pending holds no more than its cap and the
\* ledger no more than its size.
TypeOK ==
    /\ pending \in Seq(Prediction)
    /\ Len(pending) <= MaxPending
    /\ entry \in [Prediction -> Entry]
    /\ ledger \in Seq(Prediction)
    /\ Len(ledger) <= LedgerSize
    /\ opinion \in [Prediction -> [Replica -> Verdicts \cup {"none"}]]
    /\ seen \subseteq Prediction
    /\ approvals \subseteq [id : Prediction, by : Nat, against : Nat]
    /\ twice \subseteq Prediction
    /\ flags \subseteq Kinds \X Prediction
    /\ forgotten \subseteq Prediction

\* The running tallies agree with the verdicts, whatever the order in which
\* replicas repeat or change them (set_verdict: "so the totals stay
\* consistent").
TallyExact ==
    \A p \in Prediction :
        /\ entry[p].accepts = Cardinality(Voting(entry[p], "accept"))
        /\ entry[p].rejects = Cardinality(Voting(entry[p], "reject"))

\* predict.approved.v1 names a quorum of replicas and was not sent over the
\* recorded reject of any.
ApprovalBacked ==
    \A a \in approvals : a.by >= Quorum /\ a.against = 0

\* At most one predict.approved.v1 per prediction_id under redelivery, as long
\* as the bounded ledger remembers the prediction.
ApprovedOnce == twice \subseteq forgotten

\* A candidate that was recorded is pending or has left a trace: an approval
\* or a flag (the module's docstring: every failure "emits a proof.flag").  The
\* one that leaves none was marked before the load of the signing key raised.
CandidateAccounted ==
    \A p \in seen :
        \/ p \in Held \cup Approved \cup {f[2] : f \in flags}
        \/ KeyMissing /\ (InLedger(p) \/ p \in forgotten)

\* No prediction is approved over a reject that its replica has not withdrawn
\* (the module's docstring: "A single reject vote is fatal"), in whatever order
\* candidate and verdicts arrive, unless the entry that held the reject was
\* evicted, which an overflow flag tells, or the ledger forgot the decision.
RejectIsFatal ==
    \A p \in Approved, r \in Replica :
        opinion[p][r] = "reject" =>
            <<"overflow", p>> \in flags \/ p \in forgotten

=============================================================================
