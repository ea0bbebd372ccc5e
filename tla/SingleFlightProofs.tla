--------------------------- MODULE SingleFlightProofs ---------------------------
(***************************************************************************)
(* Theorems about SingleFlight, for any set of calls and of keys.          *)
(*                                                                         *)
(* All hold with the sweeper running.  The first two and the last are      *)
(* unconditional; SingleDoer and SharedOutcome name the flights they       *)
(* exempt.                                                                 *)
(***************************************************************************)
EXTENDS SingleFlight, TLAPS

USE SingleFlightAssumption

\* A waiter holds a flight: TypeOK alone is not inductive, because Reraise
\* stores error[flight[c]].
WaiterHolds ==
    \A c \in Caller :
        pc[c] \in {"wait", "check", "read", "reraise"} => flight[c] \in Caller

TypeInv == TypeOK /\ WaiterHolds

LEMMA TypeInit == Init => TypeInv
BY DEF Init, TypeInv, WaiterHolds, TypeOK, PcValue, Outcome

LEMMA TypeNext == TypeInv /\ [Next]_vars => TypeInv'
<1> SUFFICES ASSUME TypeInv, [Next]_vars PROVE TypeInv'
  OBVIOUS
<1> USE DEF TypeInv, WaiterHolds, TypeOK, PcValue, Outcome, fields, Goto, Ends
<1>1. ASSUME NEW c \in Caller, Refuse(c) PROVE TypeInv'
  BY <1>1 DEF Refuse
<1>2. ASSUME NEW c \in Caller, Join(c) PROVE TypeInv'
  BY <1>2 DEF Join
<1>3. ASSUME NEW c \in Caller, Lead(c) PROVE TypeInv'
  BY <1>3 DEF Lead
<1>4. ASSUME NEW c \in Caller, FnReturns(c) PROVE TypeInv'
  BY <1>4 DEF FnReturns
<1>5. ASSUME NEW c \in Caller, ClearError(c) PROVE TypeInv'
  BY <1>5 DEF ClearError
<1>6. ASSUME NEW c \in Caller, FnRaises(c) PROVE TypeInv'
  BY <1>6 DEF FnRaises
<1>7. ASSUME NEW c \in Caller, RecordError(c) PROVE TypeInv'
  BY <1>7 DEF RecordError
<1>8. ASSUME NEW c \in Caller, FnAborts(c) PROVE TypeInv'
  BY <1>8 DEF FnAborts
<1>9. ASSUME NEW c \in Caller, Pop(c) PROVE TypeInv'
  BY <1>9 DEF Pop
<1>10. ASSUME NEW c \in Caller, Wake(c) PROVE TypeInv'
  BY <1>10 DEF Wake, DoerOutcome
<1>11. ASSUME NEW c \in Caller, Awake(c) PROVE TypeInv'
  BY <1>11 DEF Awake
<1>12. ASSUME NEW c \in Caller, CheckError(c) PROVE TypeInv'
  BY <1>12 DEF CheckError
<1>13. ASSUME NEW c \in Caller, Reraise(c) PROVE TypeInv'
  <2>1. outcome' \in [Caller -> Outcome]
    BY <1>13 DEF Reraise
  <2> QED BY <1>13, <2>1 DEF Reraise
<1>14. ASSUME NEW c \in Caller, ReadResult(c) PROVE TypeInv'
  BY <1>14 DEF ReadResult
<1>15. ASSUME NEW k \in Key, Age(k) PROVE TypeInv'
  BY <1>15 DEF Age
<1>16. CASE Sweep
  BY <1>16 DEF Sweep
<1>17. CASE Stop
  BY <1>17 DEF Stop
<1>18. CASE UNCHANGED vars
  BY <1>18 DEF vars
<1> QED
  BY <1>1, <1>2, <1>3, <1>4, <1>5, <1>6, <1>7, <1>8, <1>9, <1>10, <1>11,
     <1>12, <1>13, <1>14, <1>15, <1>16, <1>17, <1>18 DEF Next, Do

\* TypeOK is an invariant: in particular every call ends in one of the listed
\* outcomes and a flight's error is one of the two do() and _sweep_once write.
THEOREM TypeCorrect == Spec => []TypeOK
<1>1. TypeInv => TypeOK
  BY DEF TypeInv
<1> QED
  BY <1>1, TypeInit, TypeNext, PTL DEF Spec

-----------------------------------------------------------------------------
\* An entry of the map sits under its doer's key and its doer has not popped.
MapOwned ==
    \A k \in Key :
        inflight[k] # None => /\ key[inflight[k]] = k
                              /\ pc[inflight[k]] \in Executing \cup {"pop"}

LEMMA MapOwnedNext == TypeOK /\ MapOwned /\ [Next]_vars => MapOwned'
<1> SUFFICES ASSUME TypeOK, MapOwned, [Next]_vars PROVE MapOwned'
  OBVIOUS
<1> USE DEF TypeOK, MapOwned, Executing, fields, Goto, Ends
<1>1. ASSUME NEW c \in Caller, Refuse(c) PROVE MapOwned'
  BY <1>1 DEF Refuse
<1>2. ASSUME NEW c \in Caller, Join(c) PROVE MapOwned'
  BY <1>2 DEF Join
<1>3. ASSUME NEW c \in Caller, Lead(c) PROVE MapOwned'
  BY <1>3 DEF Lead
<1>4. ASSUME NEW c \in Caller, FnReturns(c) PROVE MapOwned'
  BY <1>4 DEF FnReturns
<1>5. ASSUME NEW c \in Caller, ClearError(c) PROVE MapOwned'
  BY <1>5 DEF ClearError
<1>6. ASSUME NEW c \in Caller, FnRaises(c) PROVE MapOwned'
  BY <1>6 DEF FnRaises
<1>7. ASSUME NEW c \in Caller, RecordError(c) PROVE MapOwned'
  BY <1>7 DEF RecordError
<1>8. ASSUME NEW c \in Caller, FnAborts(c) PROVE MapOwned'
  BY <1>8 DEF FnAborts
<1>9. ASSUME NEW c \in Caller, Pop(c) PROVE MapOwned'
  BY <1>9 DEF Pop
<1>10. ASSUME NEW c \in Caller, Wake(c) PROVE MapOwned'
  BY <1>10 DEF Wake
<1>11. ASSUME NEW c \in Caller, Awake(c) PROVE MapOwned'
  BY <1>11 DEF Awake
<1>12. ASSUME NEW c \in Caller, CheckError(c) PROVE MapOwned'
  BY <1>12 DEF CheckError
<1>13. ASSUME NEW c \in Caller, Reraise(c) PROVE MapOwned'
  BY <1>13 DEF Reraise
<1>14. ASSUME NEW c \in Caller, ReadResult(c) PROVE MapOwned'
  BY <1>14 DEF ReadResult
<1>15. ASSUME NEW k \in Key, Age(k) PROVE MapOwned'
  BY <1>15 DEF Age
<1>16. CASE Sweep
  BY <1>16 DEF Sweep
<1>17. CASE Stop
  BY <1>17 DEF Stop
<1>18. CASE UNCHANGED vars
  BY <1>18 DEF vars
<1> QED
  BY <1>1, <1>2, <1>3, <1>4, <1>5, <1>6, <1>7, <1>8, <1>9, <1>10, <1>11,
     <1>12, <1>13, <1>14, <1>15, <1>16, <1>17, <1>18 DEF Next, Do

\* The finally block of do() leaves no entry behind, whatever way fn ends and
\* whatever the sweeper does.
THEOREM NothingLeaks == Spec => []NoLeak
<1>1. Init => MapOwned
  BY DEF Init, MapOwned
<1>2. MapOwned => NoLeak
  BY DEF MapOwned, NoLeak
<1>3. TypeInv => TypeOK
  BY DEF TypeInv
<1> QED
  BY <1>1, <1>2, <1>3, TypeInit, TypeNext, MapOwnedNext, PTL DEF Spec

-----------------------------------------------------------------------------
\* While every flight of a key is young, its flight stays in the map until its
\* doer pops it: the sweeper passes it by, and no other doer pops that key.
Registered ==
    \A c \in Caller :
        pc[c] \in Executing \cup {"pop"} /\ Prompt(key[c]) =>
            inflight[key[c]] = c

LEMMA RegisteredNext == TypeOK /\ Registered /\ [Next]_vars => Registered'
<1> SUFFICES ASSUME TypeOK, Registered, [Next]_vars PROVE Registered'
  OBVIOUS
<1> USE DEF TypeOK, Registered, Prompt, Executing, fields, Goto, Ends
<1>1. ASSUME NEW c \in Caller, Refuse(c) PROVE Registered'
  BY <1>1 DEF Refuse
<1>2. ASSUME NEW c \in Caller, Join(c) PROVE Registered'
  BY <1>2 DEF Join
<1>3. ASSUME NEW c \in Caller, Lead(c) PROVE Registered'
  BY <1>3 DEF Lead
<1>4. ASSUME NEW c \in Caller, FnReturns(c) PROVE Registered'
  BY <1>4 DEF FnReturns
<1>5. ASSUME NEW c \in Caller, ClearError(c) PROVE Registered'
  BY <1>5 DEF ClearError
<1>6. ASSUME NEW c \in Caller, FnRaises(c) PROVE Registered'
  BY <1>6 DEF FnRaises
<1>7. ASSUME NEW c \in Caller, RecordError(c) PROVE Registered'
  BY <1>7 DEF RecordError
<1>8. ASSUME NEW c \in Caller, FnAborts(c) PROVE Registered'
  BY <1>8 DEF FnAborts
<1>9. ASSUME NEW c \in Caller, Pop(c) PROVE Registered'
  BY <1>9 DEF Pop
<1>10. ASSUME NEW c \in Caller, Wake(c) PROVE Registered'
  BY <1>10 DEF Wake
<1>11. ASSUME NEW c \in Caller, Awake(c) PROVE Registered'
  BY <1>11 DEF Awake
<1>12. ASSUME NEW c \in Caller, CheckError(c) PROVE Registered'
  BY <1>12 DEF CheckError
<1>13. ASSUME NEW c \in Caller, Reraise(c) PROVE Registered'
  BY <1>13 DEF Reraise
<1>14. ASSUME NEW c \in Caller, ReadResult(c) PROVE Registered'
  BY <1>14 DEF ReadResult
<1>15. ASSUME NEW k \in Key, Age(k) PROVE Registered'
  BY <1>15 DEF Age
<1>16. CASE Sweep
  BY <1>16 DEF Sweep, Orphans
<1>17. CASE Stop
  BY <1>17 DEF Stop
<1>18. CASE UNCHANGED vars
  BY <1>18 DEF vars
<1> QED
  BY <1>1, <1>2, <1>3, <1>4, <1>5, <1>6, <1>7, <1>8, <1>9, <1>10, <1>11,
     <1>12, <1>13, <1>14, <1>15, <1>16, <1>17, <1>18 DEF Next, Do

LEMMA RegisteredInit == Init => Registered
BY DEF Init, Registered, Executing

\* Two calls with the same key never run fn concurrently, until a flight of
\* that key outlives event_max_age_s.
THEOREM OneExecutionPerKey == Spec => []SingleDoer
<1>1. Init => Registered
  BY RegisteredInit
<1>2. TypeOK /\ Registered => SingleDoer
  BY DEF TypeOK, Registered, SingleDoer, Doing
<1>3. TypeInv => TypeOK
  BY DEF TypeInv
<1> QED
  BY <1>1, <1>2, <1>3, TypeInit, TypeNext, RegisteredNext, PTL DEF Spec

-----------------------------------------------------------------------------
(***************************************************************************)
(* Everyone shares the outcome: the inductive invariant.  The event of a   *)
(* flight that is young and whose fn is no BaseException's victim is set   *)
(* by its doer's last step, so whatever a waiter reads has stopped         *)
(* changing.                                                               *)
(***************************************************************************)
Leads(c) == flight[c] = c

Plain(d) == ~aged[d] /\ d \notin Aborting

\* Which flight a call holds, by where it is.
Roles ==
    \A c \in Caller :
        /\ pc[c] = "new" => flight[c] = None
        /\ pc[c] \in Executing \cup {"pop", "wake"} => Leads(c)
        /\ pc[c] \in {"wait", "check", "read", "reraise"} =>
               flight[c] # None /\ flight[c] # c
        /\ flight[c] # None => flight[flight[c]] = flight[c]

\* The fields of a flight have their final value once its doer has written
\* them, and agree with what the doer's caller is told.
Written(d) ==
    \/ result[d] /\ error[d] = "none"
    \/ ~result[d] /\ error[d] = "fn_error"

Final ==
    \A d \in Caller :
        Plain(d) =>
            /\ pc[d] \in {"new", "fn", "returned"} => error[d] = "none"
            /\ pc[d] = "returned" => result[d]
            /\ pc[d] = "raised" => ~result[d]
            /\ Leads(d) /\ pc[d] \in {"pop", "wake", "done"} => Written(d)

\* A waiter past its wait() looks at a flight whose doer is done.
Settled ==
    \A c \in Caller :
        /\ event[c] /\ ~aged[c] => pc[c] = "done"
        /\ pc[c] \in {"check", "read", "reraise"} => event[flight[c]]
        /\ flight[c] # None /\ Plain(flight[c]) =>
               /\ pc[c] = "done" => pc[flight[c]] = "done"
               /\ pc[c] = "read" => error[flight[c]] = "none"
               /\ pc[c] = "reraise" => error[flight[c]] # "none"

Told ==
    \A c \in Caller :
        pc[c] = "done" /\ flight[c] # None /\ Plain(flight[c]) =>
            outcome[c] = (IF result[flight[c]] THEN "value" ELSE "fn_error")

ShareInv == TypeInv /\ MapOwned /\ Roles /\ Final /\ Settled /\ Told

LEMMA ShareNext == ShareInv /\ [Next]_vars => ShareInv'
<1> SUFFICES ASSUME ShareInv, [Next]_vars
             PROVE (Roles /\ Final /\ Settled /\ Told)'
  BY TypeNext, MapOwnedNext DEF ShareInv, TypeInv
<1> USE DEF ShareInv, TypeInv, TypeOK, Roles, Final, Settled, Told, Leads,
            Plain, Written, Executing, fields, Goto, Ends
<1>1. ASSUME NEW c \in Caller, Refuse(c) PROVE (Roles /\ Final /\ Settled /\ Told)'
  <2>1. Roles'
    BY <1>1 DEF Refuse
  <2>2. Final'
    BY <1>1 DEF Refuse
  <2>3. Settled'
    BY <1>1 DEF Refuse
  <2>4. Told'
    BY <1>1 DEF Refuse
  <2> QED BY <2>1, <2>2, <2>3, <2>4
<1>2. ASSUME NEW c \in Caller, Join(c) PROVE (Roles /\ Final /\ Settled /\ Told)'
  <2>1. Roles'
    BY <1>2 DEF Join, MapOwned
  <2>2. Final'
    BY <1>2 DEF Join
  <2>3. Settled'
    BY <1>2 DEF Join
  <2>4. Told'
    BY <1>2 DEF Join
  <2> QED BY <2>1, <2>2, <2>3, <2>4
<1>3. ASSUME NEW c \in Caller, Lead(c) PROVE (Roles /\ Final /\ Settled /\ Told)'
  <2>1. Roles'
    BY <1>3 DEF Lead
  <2>2. Final'
    BY <1>3 DEF Lead
  <2>3. Settled'
    BY <1>3 DEF Lead
  <2>4. Told'
    BY <1>3 DEF Lead
  <2> QED BY <2>1, <2>2, <2>3, <2>4
<1>4. ASSUME NEW c \in Caller, FnReturns(c) PROVE (Roles /\ Final /\ Settled /\ Told)'
  <2>1. Roles'
    BY <1>4 DEF FnReturns
  <2>2. Final'
    BY <1>4 DEF FnReturns
  <2>3. Settled'
    BY <1>4 DEF FnReturns
  <2>4. Told'
    BY <1>4 DEF FnReturns
  <2> QED BY <2>1, <2>2, <2>3, <2>4
<1>5. ASSUME NEW c \in Caller, ClearError(c) PROVE (Roles /\ Final /\ Settled /\ Told)'
  <2>1. Roles'
    BY <1>5 DEF ClearError
  <2>2. Final'
    BY <1>5 DEF ClearError
  <2>3. Settled'
    BY <1>5 DEF ClearError
  <2>4. Told'
    BY <1>5 DEF ClearError
  <2> QED BY <2>1, <2>2, <2>3, <2>4
<1>6. ASSUME NEW c \in Caller, FnRaises(c) PROVE (Roles /\ Final /\ Settled /\ Told)'
  <2>1. Roles'
    BY <1>6 DEF FnRaises
  <2>2. Final'
    BY <1>6 DEF FnRaises
  <2>3. Settled'
    BY <1>6 DEF FnRaises
  <2>4. Told'
    BY <1>6 DEF FnRaises
  <2> QED BY <2>1, <2>2, <2>3, <2>4
<1>7. ASSUME NEW c \in Caller, RecordError(c) PROVE (Roles /\ Final /\ Settled /\ Told)'
  <2>1. Roles'
    BY <1>7 DEF RecordError
  <2>2. Final'
    BY <1>7 DEF RecordError
  <2>3. Settled'
    BY <1>7 DEF RecordError
  <2>4. Told'
    BY <1>7 DEF RecordError
  <2> QED BY <2>1, <2>2, <2>3, <2>4
<1>8. ASSUME NEW c \in Caller, FnAborts(c) PROVE (Roles /\ Final /\ Settled /\ Told)'
  <2>1. Roles'
    BY <1>8 DEF FnAborts
  <2>2. Final'
    BY <1>8 DEF FnAborts
  <2>3. Settled'
    BY <1>8 DEF FnAborts
  <2>4. Told'
    BY <1>8 DEF FnAborts
  <2> QED BY <2>1, <2>2, <2>3, <2>4
<1>9. ASSUME NEW c \in Caller, Pop(c) PROVE (Roles /\ Final /\ Settled /\ Told)'
  <2>1. Roles'
    BY <1>9 DEF Pop
  <2>2. Final'
    BY <1>9 DEF Pop
  <2>3. Settled'
    BY <1>9 DEF Pop
  <2>4. Told'
    BY <1>9 DEF Pop
  <2> QED BY <2>1, <2>2, <2>3, <2>4
<1>10. ASSUME NEW c \in Caller, Wake(c) PROVE (Roles /\ Final /\ Settled /\ Told)'
  <2>1. Roles'
    BY <1>10 DEF Wake, DoerOutcome
  <2>2. Final'
    BY <1>10 DEF Wake, DoerOutcome
  <2>3. Settled'
    BY <1>10 DEF Wake, DoerOutcome
  <2>4. Told'
    BY <1>10 DEF Wake, DoerOutcome
  <2> QED BY <2>1, <2>2, <2>3, <2>4
<1>11. ASSUME NEW c \in Caller, Awake(c) PROVE (Roles /\ Final /\ Settled /\ Told)'
  <2>1. Roles'
    BY <1>11 DEF Awake
  <2>2. Final'
    BY <1>11 DEF Awake
  <2>3. Settled'
    BY <1>11 DEF Awake
  <2>4. Told'
    BY <1>11 DEF Awake
  <2> QED BY <2>1, <2>2, <2>3, <2>4
<1>12. ASSUME NEW c \in Caller, CheckError(c) PROVE (Roles /\ Final /\ Settled /\ Told)'
  <2>1. Roles'
    BY <1>12 DEF CheckError
  <2>2. Final'
    BY <1>12 DEF CheckError
  <2>3. Settled'
    BY <1>12 DEF CheckError
  <2>4. Told'
    BY <1>12 DEF CheckError
  <2> QED BY <2>1, <2>2, <2>3, <2>4
<1>13. ASSUME NEW c \in Caller, Reraise(c) PROVE (Roles /\ Final /\ Settled /\ Told)'
  <2>1. Roles'
    BY <1>13 DEF Reraise
  <2>2. Final'
    BY <1>13 DEF Reraise
  <2>3. Settled'
    BY <1>13 DEF Reraise
  <2>4. Told'
    BY <1>13 DEF Reraise
  <2> QED BY <2>1, <2>2, <2>3, <2>4
<1>14. ASSUME NEW c \in Caller, ReadResult(c) PROVE (Roles /\ Final /\ Settled /\ Told)'
  <2>1. Roles'
    BY <1>14 DEF ReadResult
  <2>2. Final'
    BY <1>14 DEF ReadResult
  <2>3. Settled'
    BY <1>14 DEF ReadResult
  <2>4. Told'
    BY <1>14 DEF ReadResult
  <2> QED BY <2>1, <2>2, <2>3, <2>4
<1>15. ASSUME NEW k \in Key, Age(k) PROVE (Roles /\ Final /\ Settled /\ Told)'
  BY <1>15 DEF Age
<1>16. CASE Sweep
  BY <1>16 DEF Sweep, Orphans, Inflight
<1>17. CASE Stop
  BY <1>17 DEF Stop
<1>18. CASE UNCHANGED vars
  BY <1>18 DEF vars
<1> QED
  BY <1>1, <1>2, <1>3, <1>4, <1>5, <1>6, <1>7, <1>8, <1>9, <1>10, <1>11, <1>12, <1>13, <1>14, <1>15, <1>16, <1>17, <1>18 DEF Next, Do

\* All the calls that share a flight end the same way, however their steps
\* interleave and whatever the sweeper does to other flights, unless the flight
\* outlives event_max_age_s or its fn leaves with a BaseException.
THEOREM EveryoneSharesTheOutcome == Spec => []SharedOutcome
<1>1. Init => ShareInv
  BY TypeInit
  DEF Init, ShareInv, MapOwned, Roles, Final, Settled, Told, Leads, Plain,
      Executing
<1>2. ShareInv => SharedOutcome
  BY DEF ShareInv, TypeInv, TypeOK, Told, Plain, SharedOutcome
<1> QED
  BY <1>1, <1>2, ShareNext, PTL DEF Spec

-----------------------------------------------------------------------------
(***************************************************************************)
(* Honest answers, for every flight, swept and torn down ones included.    *)
(* The sweeper's error and the doer's writes may overlap in any order; the *)
(* answer is honest because result is written once, before error is        *)
(* cleared, and because nothing clears an error after fn has raised.       *)
(***************************************************************************)
Over == {"pop", "wake", "done"}

\* What the fields of a flight say about its doer.  The last part is what a
\* woken waiter relies on: a flight without error has a result.
Marks ==
    \A d \in Caller :
        /\ result[d] => pc[d] \in Over \cup {"returned"}
        /\ pc[d] = "returned" => result[d]
        /\ error[d] = "fn_error" => ~result[d] /\ pc[d] \in Over
        /\ /\ d \notin Aborting
           /\ event[d] \/ (Leads(d) /\ pc[d] \in Over)
           => result[d] \/ error[d] # "none"

\* A waiter that has seen no error reads a result, and a call that has ended
\* with fn's exception belongs to a flight whose error is not cleared any more.
Reading ==
    \A c \in Caller :
        /\ pc[c] \in {"check", "reraise"} => event[flight[c]]
        /\ pc[c] = "read" => result[flight[c]] \/ flight[c] \in Aborting
        /\ outcome[c] # "pending" => pc[c] = "done"
        /\ outcome[c] \in {"value", "nothing", "fn_error"} => flight[c] \in Caller
        /\ outcome[c] = "fn_error" => pc[flight[c]] \in Over

AnswerInv == TypeInv /\ MapOwned /\ Roles /\ Marks /\ Reading /\ HonestAnswer

LEMMA AnswerNext ==
    ASSUME AnswerInv, Roles', [Next]_vars
    PROVE  (Marks /\ Reading /\ HonestAnswer)'
<1> USE DEF AnswerInv, TypeInv, TypeOK, WaiterHolds, PcValue, Roles, Marks, Reading,
            Over, HonestAnswer, Leads, Executing, fields, Goto, Ends
<1>1. ASSUME NEW c \in Caller, Refuse(c) PROVE (Marks /\ Reading /\ HonestAnswer)'
  <2>1. Marks'
    BY <1>1 DEF Refuse
  <2>2. Reading'
    BY <1>1 DEF Refuse
  <2>3. HonestAnswer'
    BY <1>1 DEF Refuse
  <2> QED BY <2>1, <2>2, <2>3
<1>2. ASSUME NEW c \in Caller, Join(c) PROVE (Marks /\ Reading /\ HonestAnswer)'
  <2>1. Marks'
    BY <1>2 DEF Join, MapOwned
  <2>2. Reading'
    BY <1>2 DEF Join, MapOwned
  <2>3. HonestAnswer'
    BY <1>2 DEF Join, MapOwned
  <2> QED BY <2>1, <2>2, <2>3
<1>3. ASSUME NEW c \in Caller, Lead(c) PROVE (Marks /\ Reading /\ HonestAnswer)'
  <2>1. Marks'
    BY <1>3 DEF Lead
  <2>2. Reading'
    BY <1>3 DEF Lead
  <2>3. HonestAnswer'
    BY <1>3 DEF Lead
  <2> QED BY <2>1, <2>2, <2>3
<1>4. ASSUME NEW c \in Caller, FnReturns(c) PROVE (Marks /\ Reading /\ HonestAnswer)'
  <2>1. Marks'
    BY <1>4 DEF FnReturns
  <2>2. Reading'
    BY <1>4 DEF FnReturns
  <2>3. HonestAnswer'
    BY <1>4 DEF FnReturns
  <2> QED BY <2>1, <2>2, <2>3
<1>5. ASSUME NEW c \in Caller, ClearError(c) PROVE (Marks /\ Reading /\ HonestAnswer)'
  <2>1. Marks'
    BY <1>5 DEF ClearError
  <2>2. Reading'
    BY <1>5 DEF ClearError
  <2>3. HonestAnswer'
    BY <1>5 DEF ClearError
  <2> QED BY <2>1, <2>2, <2>3
<1>6. ASSUME NEW c \in Caller, FnRaises(c) PROVE (Marks /\ Reading /\ HonestAnswer)'
  <2>1. Marks'
    BY <1>6 DEF FnRaises
  <2>2. Reading'
    BY <1>6 DEF FnRaises
  <2>3. HonestAnswer'
    BY <1>6 DEF FnRaises
  <2> QED BY <2>1, <2>2, <2>3
<1>7. ASSUME NEW c \in Caller, RecordError(c) PROVE (Marks /\ Reading /\ HonestAnswer)'
  <2>1. Marks'
    BY <1>7 DEF RecordError
  <2>2. Reading'
    BY <1>7 DEF RecordError
  <2>3. HonestAnswer'
    BY <1>7 DEF RecordError
  <2> QED BY <2>1, <2>2, <2>3
<1>8. ASSUME NEW c \in Caller, FnAborts(c) PROVE (Marks /\ Reading /\ HonestAnswer)'
  <2>1. Marks'
    BY <1>8 DEF FnAborts
  <2>2. Reading'
    BY <1>8 DEF FnAborts
  <2>3. HonestAnswer'
    BY <1>8 DEF FnAborts
  <2> QED BY <2>1, <2>2, <2>3
<1>9. ASSUME NEW c \in Caller, Pop(c) PROVE (Marks /\ Reading /\ HonestAnswer)'
  <2>1. Marks'
    BY <1>9 DEF Pop
  <2>2. Reading'
    BY <1>9 DEF Pop
  <2>3. HonestAnswer'
    BY <1>9 DEF Pop
  <2> QED BY <2>1, <2>2, <2>3
<1>10. ASSUME NEW c \in Caller, Wake(c) PROVE (Marks /\ Reading /\ HonestAnswer)'
  <2>1. Marks'
    BY <1>10 DEF Wake, DoerOutcome
  <2>2. Reading'
    BY <1>10 DEF Wake, DoerOutcome
  <2>3. HonestAnswer'
    BY <1>10 DEF Wake, DoerOutcome
  <2> QED BY <2>1, <2>2, <2>3
<1>11. ASSUME NEW c \in Caller, Awake(c) PROVE (Marks /\ Reading /\ HonestAnswer)'
  <2>1. Marks'
    BY <1>11 DEF Awake
  <2>2. Reading'
    BY <1>11 DEF Awake
  <2>3. HonestAnswer'
    BY <1>11 DEF Awake
  <2> QED BY <2>1, <2>2, <2>3
<1>12. ASSUME NEW c \in Caller, CheckError(c) PROVE (Marks /\ Reading /\ HonestAnswer)'
  <2>1. Marks'
    BY <1>12 DEF CheckError
  <2>2. Reading'
    BY <1>12 DEF CheckError
  <2>3. HonestAnswer'
    BY <1>12 DEF CheckError
  <2> QED BY <2>1, <2>2, <2>3
<1>13. ASSUME NEW c \in Caller, Reraise(c) PROVE (Marks /\ Reading /\ HonestAnswer)'
  <2>1. Marks'
    BY <1>13 DEF Reraise
  <2>2. Reading'
    BY <1>13 DEF Reraise
  <2>3. HonestAnswer'
    BY <1>13 DEF Reraise
  <2> QED BY <2>1, <2>2, <2>3
<1>14. ASSUME NEW c \in Caller, ReadResult(c) PROVE (Marks /\ Reading /\ HonestAnswer)'
  <2>1. Marks'
    BY <1>14 DEF ReadResult
  <2>2. Reading'
    BY <1>14 DEF ReadResult
  <2>3. HonestAnswer'
    BY <1>14 DEF ReadResult
  <2> QED BY <2>1, <2>2, <2>3
<1>15. ASSUME NEW k \in Key, Age(k) PROVE (Marks /\ Reading /\ HonestAnswer)'
  BY <1>15 DEF Age
<1>16. CASE Sweep
  <2>1. /\ UNCHANGED <<pc, key, flight, result, outcome>>
        /\ \A d \in Caller : /\ error'[d] = error[d] \/ error'[d] = "orphaned"
                             /\ event'[d] => event[d] \/ error'[d] = "orphaned"
                             /\ event[d] => event'[d]
    BY <1>16 DEF Sweep
  <2>2. Marks'
    BY <2>1
  <2>3. Reading'
    BY <2>1
  <2>4. HonestAnswer'
    BY <2>1
  <2> QED BY <2>2, <2>3, <2>4
<1>17. CASE Stop
  BY <1>17 DEF Stop
<1>18. CASE UNCHANGED vars
  BY <1>18 DEF vars
<1> QED
  BY <1>1, <1>2, <1>3, <1>4, <1>5, <1>6, <1>7, <1>8, <1>9, <1>10, <1>11, <1>12,
     <1>13, <1>14, <1>15, <1>16, <1>17, <1>18 DEF Next, Do

\* Every call leaves with what happened to its flight, however the sweeper's
\* wake-up interleaves with the doer's unlocked writes: a value only when fn
\* returned one, fn's exception only when fn raised, and nothing at all only
\* when fn left with a BaseException.
THEOREM AnswersAreHonest == Spec => []HonestAnswer
<1>1. Init => AnswerInv /\ ShareInv
  BY TypeInit
  DEF Init, ShareInv, AnswerInv, MapOwned, Roles, Final, Settled, Told, Leads, Plain,
      Executing, Marks, Reading, Over, HonestAnswer
<1>2. AnswerInv /\ ShareInv /\ [Next]_vars => AnswerInv' /\ ShareInv'
  BY ShareNext, AnswerNext DEF AnswerInv, ShareInv
<1>3. AnswerInv => HonestAnswer
  BY DEF AnswerInv
<1> QED
  BY <1>1, <1>2, <1>3, PTL DEF Spec

=============================================================================
