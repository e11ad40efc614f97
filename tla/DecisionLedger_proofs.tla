----------------------- MODULE DecisionLedger_proofs -----------------------
(***************************************************************************)
(* Proofs about write_verdicts, for every number of writers, every set of  *)
(* batches and every number of calls, and about the guard of connect.      *)
(***************************************************************************)
EXTENDS DecisionLedger, LedgerAccess, FiniteSetTheorems, TLAPS

Shape ==
    /\ pc \in [Writers -> {"idle", "inserting", "committing"}]
    /\ batch \in [Writers -> Batches \cup {<<>>}]
    /\ next \in [Writers -> Nat \ {0}]
    /\ result \in [Writers -> {"none", "returned", "raised"}]
    /\ DOMAIN dirty = Writers

OnRecord(key, rows) == \E r \in rows : r.key = key

\* The rows executemany is through with are on record, for the connection itself.
PrefixIsIn ==
    \A w \in Writers : pc[w] # "idle" =>
        /\ pc[w] = "committing" => next[w] = Len(batch[w]) + 1
        /\ \A n \in 1..Len(batch[w]) :
              n < next[w] /\ batch[w][n].kind = "good" =>
                  OnRecord(batch[w][n].key, db \cup dirty[w])

IInv == Shape /\ PrefixIsIn /\ ReturnedIsOnRecord /\ IdleHoldsNoLock

-----------------------------------------------------------------------------

\* The batch of a call has a length.
LEMMA BatchLength ==
  ASSUME Shape, NEW w \in Writers
  PROVE  Len(batch[w]) \in Nat
<1>1. CASE batch[w] \in Batches
  BY <1>1, BatchAssumption
<1>2. CASE batch[w] = <<>>
  BY <1>2
<1> QED
  BY <1>1, <1>2 DEF Shape

\* Fresh connections owe nothing.
LEMMA InitIInv == Init => IInv
<1> SUFFICES ASSUME Init PROVE IInv
  OBVIOUS
<1>1. Shape
  BY DEF Init, Shape
<1>2. PrefixIsIn /\ ReturnedIsOnRecord
  BY DEF Init, PrefixIsIn, ReturnedIsOnRecord
<1>3. IdleHoldsNoLock
  BY NoWriterAssumption DEF Init, IdleHoldsNoLock
<1> QED
  BY <1>1, <1>2, <1>3 DEF IInv

\* Every step keeps the types the other lemmas need.
LEMMA StepShape ==
  Shape /\ [Next]_vars => Shape'
<1> SUFFICES ASSUME Shape, [Next]_vars PROVE Shape'
  OBVIOUS
<1> USE DEF Shape
<1>1. ASSUME NEW w \in Writers, NEW b \in Batches, Call(w, b) PROVE Shape'
  <2>1. result' \in [Writers -> {"none", "returned", "raised"}]
        /\ pc' \in [Writers -> {"idle", "inserting", "committing"}]
    <3>1. CASE Has(b, "invalid")
      BY <1>1, <3>1 DEF Call
    <3>2. CASE ~Has(b, "invalid")
      BY <1>1, <3>2 DEF Call
    <3> QED
      BY <3>1, <3>2
  <2>2. batch' \in [Writers -> Batches \cup {<<>>}] /\ next' \in [Writers -> Nat \ {0}]
    BY <1>1 DEF Call
  <2> QED
    BY <1>1, <2>1, <2>2 DEF Call
<1>2. ASSUME NEW w \in Writers, InsertRow(w) PROVE Shape'
  <2>1. next' \in [Writers -> Nat \ {0}] /\ UNCHANGED <<pc, batch, result>>
    BY <1>2 DEF InsertRow
  <2>2. DOMAIN dirty' = Writers
    BY <1>2 DEF InsertRow
  <2> QED
    BY <2>1, <2>2
<1>3. ASSUME NEW w \in Writers, InsertRaises(w) \/ Busy(w) PROVE Shape'
  BY <1>3 DEF InsertRaises, Busy
<1>4. ASSUME NEW w \in Writers, Inserted(w) PROVE Shape'
  BY <1>4 DEF Inserted
<1>5. ASSUME NEW w \in Writers, Commit(w) \/ Crash(w) PROVE Shape'
  BY <1>5 DEF Commit, Crash
<1>6. CASE UNCHANGED vars
  BY <1>6 DEF vars
<1> QED
  BY <1>1, <1>2, <1>3, <1>4, <1>5, <1>6 DEF Next

\* The ledger changes by a commit, which adds the transaction of its connection.
LEMMA LedgerGrows ==
  ASSUME Shape, [Next]_vars
  PROVE  db \subseteq db' /\ (db' # db => \E w \in Writers : Commit(w))
<1>1. ASSUME NEW w \in Writers, NEW b \in Batches, Call(w, b) PROVE db' = db
  BY <1>1 DEF Call
<1>2. ASSUME NEW w \in Writers,
             InsertRow(w) \/ InsertRaises(w) \/ Busy(w) \/ Inserted(w) \/ Crash(w)
      PROVE  db' = db
  BY <1>2 DEF InsertRow, InsertRaises, Busy, Inserted, Crash
<1>3. ASSUME NEW w \in Writers, Commit(w) PROVE db \subseteq db'
  BY <1>3 DEF Commit
<1>4. CASE UNCHANGED vars
  BY <1>4 DEF vars
<1> QED
  BY <1>1, <1>2, <1>3, <1>4 DEF Next

\* A step of one writer leaves the call and the transaction of another alone.
LEMMA OthersKeep ==
  ASSUME Shape, NEW w \in Writers, NEW v \in Writers \ {w},
         \/ \E b \in Batches : Call(w, b)
         \/ InsertRow(w) \/ InsertRaises(w) \/ Busy(w) \/ Inserted(w) \/ Commit(w) \/ Crash(w)
  PROVE  /\ pc'[v] = pc[v] /\ batch'[v] = batch[v] /\ next'[v] = next[v]
         /\ result'[v] = result[v] /\ dirty'[v] = dirty[v]
         /\ lock' = v => lock = v
<1> USE DEF Shape
<1>1. ASSUME NEW b \in Batches, Call(w, b)
      PROVE  /\ pc'[v] = pc[v] /\ batch'[v] = batch[v] /\ next'[v] = next[v]
             /\ result'[v] = result[v] /\ dirty'[v] = dirty[v]
             /\ lock' = v => lock = v
  BY <1>1 DEF Call
<1>2. CASE InsertRow(w)
  BY <1>2 DEF InsertRow
<1>3. CASE InsertRaises(w) \/ Busy(w) \/ Inserted(w)
  BY <1>3 DEF InsertRaises, Busy, Inserted
<1>4. CASE Commit(w) \/ Crash(w)
  BY <1>4, NoWriterAssumption DEF Commit, Crash
<1> QED
  BY <1>1, <1>2, <1>3, <1>4

\* What the writer that takes a step promises afterwards.
Promise(w) ==
    /\ pc[w] # "idle" =>
          /\ pc[w] = "committing" => next[w] = Len(batch[w]) + 1
          /\ \A n \in 1..Len(batch[w]) :
                n < next[w] /\ batch[w][n].kind = "good" =>
                    OnRecord(batch[w][n].key, db \cup dirty[w])
    /\ pc[w] = "idle" /\ result[w] = "returned" =>
          \A n \in 1..Len(batch[w]) : batch[w][n].kind = "good" =>
              OnRecord(batch[w][n].key, db)
    /\ pc[w] = "idle" /\ lock = w =>
          result[w] = "raised" /\ (Has(batch[w], "unbindable") \/ Has(batch[w], "invalid"))

\* The invariant is the promise of every writer.
LEMMA PromisesAreTheInvariant ==
  IInv <=> Shape /\ \A w \in Writers : Promise(w)
BY DEF IInv, PrefixIsIn, ReturnedIsOnRecord, IdleHoldsNoLock, Promise, OnRecord

\* A call that is refused owes nothing new, one that goes on has nothing behind it.
LEMMA StepOfCall ==
  ASSUME IInv, NEW w \in Writers, NEW b \in Batches, Call(w, b)
  PROVE  Promise(w)'
<1> USE DEF IInv, Shape
<1>1. /\ batch'[w] = b /\ next'[w] = 1 /\ lock' = lock
      /\ IF Has(b, "invalid") THEN result'[w] = "raised" /\ pc'[w] = "idle"
                              ELSE pc'[w] = "inserting"
  <2>1. CASE Has(b, "invalid")
    BY <2>1 DEF Call
  <2>2. CASE ~Has(b, "invalid")
    BY <2>2 DEF Call
  <2> QED
    BY <2>1, <2>2
<1>2. Len(b) \in Nat
  BY BatchAssumption
<1>3. CASE Has(b, "invalid")
  BY <1>1, <1>3 DEF Promise, Has
<1>4. CASE ~Has(b, "invalid")
  BY <1>1, <1>2, <1>4 DEF Promise
<1> QED
  BY <1>3, <1>4

\* executemany leaves each good row on record, its own or an earlier one's.
LEMMA StepOfInsertRow ==
  ASSUME IInv, NEW w \in Writers, InsertRow(w)
  PROVE  Promise(w)'
<1> USE DEF IInv, Shape
<1>0. Len(batch[w]) \in Nat
  BY BatchLength
<1>1. /\ pc[w] = "inserting" /\ pc' = pc /\ batch' = batch /\ db' = db
      /\ next'[w] = next[w] + 1 /\ next[w] \in Nat \ {0} /\ next[w] <= Len(batch[w])
  BY DEF InsertRow, Inserting
<1>2. dirty[w] \subseteq dirty'[w]
  BY DEF InsertRow
<1>3. Row(w).kind = "good" => OnRecord(Row(w).key, db \cup dirty'[w])
  <2>1. CASE Ignored(w)
    BY <2>1, <1>2 DEF Ignored, OnRecord
  <2>2. CASE ~Ignored(w)
    <3>1. Row(w) \in dirty'[w]
      BY <2>2 DEF InsertRow
    <3> QED
      BY <3>1 DEF OnRecord
  <2> QED
    BY <2>1, <2>2
<1>4. ASSUME NEW n \in 1..Len(batch[w]), n < next[w] + 1, batch[w][n].kind = "good"
      PROVE  OnRecord(batch[w][n].key, db \cup dirty'[w])
  <2>1. CASE n = next[w]
    BY <1>3, <1>4, <2>1 DEF Row
  <2>2. CASE n # next[w]
    <3>1. n < next[w]
      BY <1>0, <1>1, <1>4, <2>2
    <3>2. OnRecord(batch[w][n].key, db \cup dirty[w])
      BY <1>1, <1>4, <3>1 DEF PrefixIsIn
    <3> QED
      BY <1>2, <3>2 DEF OnRecord
  <2> QED
    BY <2>1, <2>2
<1> QED
  BY <1>1, <1>4 DEF Promise

\* A call that fails or dies has the lock only if a row could not be bound.
LEMMA StepOfFailure ==
  ASSUME IInv, NEW w \in Writers, InsertRaises(w) \/ Busy(w) \/ Crash(w)
  PROVE  Promise(w)'
<1> USE DEF IInv, Shape
<1>1. pc'[w] = "idle" /\ result'[w] = "raised" /\ batch' = batch
  BY DEF InsertRaises, Busy, Crash
<1>2. lock' = w => Has(batch[w], "unbindable")
  <2>1. CASE InsertRaises(w)
    <3>1. next[w] \in 1..Len(batch[w])
      BY <2>1, BatchLength DEF InsertRaises, Inserting
    <3> QED
      BY <2>1, <3>1 DEF InsertRaises, Row, Has
  <2>2. CASE Busy(w) \/ Crash(w)
    BY <2>2, NoWriterAssumption DEF Busy, Crash
  <2> QED
    BY <2>1, <2>2
<1> QED
  BY <1>1, <1>2 DEF Promise

\* A commit puts the whole batch on record and gives the lock back.
LEMMA StepOfCommit ==
  ASSUME IInv, NEW w \in Writers, Inserted(w) \/ Commit(w)
  PROVE  Promise(w)'
<1> USE DEF IInv, Shape
<1>0. Len(batch[w]) \in Nat
  BY BatchLength
<1>1. CASE Inserted(w)
  <2>1. pc[w] = "inserting" /\ next[w] = Len(batch[w]) + 1
    BY <1>1 DEF Inserted
  <2>2. pc'[w] = "committing" /\ UNCHANGED <<db, dirty, batch, next>>
    BY <1>1 DEF Inserted
  <2> QED
    BY <2>1, <2>2 DEF PrefixIsIn, Promise
<1>2. CASE Commit(w)
  <2>1. /\ pc[w] = "committing" /\ pc'[w] = "idle" /\ batch' = batch
        /\ db' = db \cup dirty[w] /\ lock' # w
    BY <1>2, NoWriterAssumption DEF Commit
  <2>2. ASSUME NEW n \in 1..Len(batch[w]), batch[w][n].kind = "good"
        PROVE  OnRecord(batch[w][n].key, db')
    <3>1. next[w] = Len(batch[w]) + 1
      BY <2>1 DEF PrefixIsIn
    <3>2. n < next[w]
      BY <1>0, <3>1
    <3> QED
      BY <2>1, <2>2, <3>2 DEF PrefixIsIn
  <2> QED
    BY <2>1, <2>2 DEF Promise
<1> QED
  BY <1>1, <1>2

\* Every step of one writer keeps the promises of all.
LEMMA StepIInv == IInv /\ [Next]_vars => IInv'
<1> SUFFICES ASSUME IInv, [Next]_vars PROVE IInv'
  OBVIOUS
<1>1. Shape /\ Shape'
  BY StepShape DEF IInv
<1>2. \A w \in Writers : Promise(w)
  BY PromisesAreTheInvariant
<1>3. ASSUME NEW w \in Writers,
             \/ \E b \in Batches : Call(w, b)
             \/ InsertRow(w) \/ InsertRaises(w) \/ Busy(w) \/ Inserted(w) \/ Commit(w) \/ Crash(w),
             NEW v \in Writers
      PROVE  Promise(v)'
  <2>1. CASE v = w
    BY <1>3, <2>1, StepOfCall, StepOfInsertRow, StepOfFailure, StepOfCommit
  <2>2. CASE v # w
    <3>1. /\ pc'[v] = pc[v] /\ batch'[v] = batch[v] /\ next'[v] = next[v]
          /\ result'[v] = result[v] /\ dirty'[v] = dirty[v]
          /\ lock' = v => lock = v
      BY <1>1, <1>3, <2>2, OthersKeep
    <3>2. db \subseteq db'
      BY <1>1, LedgerGrows
    <3>3. Promise(v)
      BY <1>2
    <3> QED
      BY <3>1, <3>2, <3>3 DEF Promise, OnRecord
  <2> QED
    BY <2>1, <2>2
<1>4. ASSUME UNCHANGED vars, NEW v \in Writers PROVE Promise(v)'
  BY <1>2, <1>4 DEF vars, Promise, OnRecord
<1>5. \A v \in Writers : Promise(v)'
  BY <1>3, <1>4 DEF Next
<1> QED
  BY <1>1, <1>5 DEF IInv, PrefixIsIn, ReturnedIsOnRecord, IdleHoldsNoLock, Promise, OnRecord

\* While executemany and commit run, every row passed is on record for the
\* connection (decision_ledger.py:136-144).
THEOREM Inductive == Spec => []IInv
BY InitIInv, StepIInv, PTL DEF Spec

\* What write_verdicts returned from is on record for good, whoever crashes or
\* raises afterwards (decision_ledger.py:125-139).
THEOREM ReturnedStays == Spec => []ReturnedIsOnRecord
<1>1. IInv => ReturnedIsOnRecord
  BY DEF IInv
<1> QED
  BY Inductive, <1>1, PTL

\* No call that returned, and no exception but that of an unbindable parameter,
\* leaves the write lock behind (decision_ledger.py:137-144).
THEOREM LockIsReturned == Spec => []IdleHoldsNoLock
<1>1. IInv => IdleHoldsNoLock
  BY DEF IInv
<1> QED
  BY Inductive, <1>1, PTL

\* The ledger grows by whole batches and never otherwise (decision_ledger.py:137-145).
THEOREM BatchesAreWhole == Spec => BatchIsAtomic
<1> DEFINE Grows ==
        db' # db =>
          /\ db \subseteq db'
          /\ \E w \in Writers :
                /\ db' \ db \subseteq dirty[w]
                /\ \A n \in 1..Len(batch[w]) : batch[w][n].kind = "good" =>
                      \E r \in db' : r.key = batch[w][n].key
<1>1. IInv /\ [Next]_vars => [Grows]_vars
  <2> SUFFICES ASSUME IInv, [Next]_vars, db' # db PROVE Grows
    BY DEF vars
  <2>1. PICK w \in Writers : Commit(w)
    BY LedgerGrows DEF IInv
  <2>2. db' = db \cup dirty[w] /\ pc[w] = "committing" /\ batch' = batch
    BY <2>1 DEF Commit
  <2>3. pc'[w] = "idle" /\ result'[w] = "returned"
    BY <2>1 DEF Commit, IInv, Shape
  <2>4. Promise(w)'
    BY <2>1, StepOfCommit
  <2> QED
    BY <2>2, <2>3, <2>4 DEF Promise, OnRecord
<1> QED
  BY Inductive, <1>1, PTL DEF Spec, BatchIsAtomic

-----------------------------------------------------------------------------
(* The number returned: total_changes against the rows of the transaction.  *)

CountShape ==
    /\ changes \in [Writers -> Nat] /\ before \in [Writers -> Nat] /\ carried \in [Writers -> Nat]
    /\ DOMAIN count = Writers /\ DOMAIN gain = Writers

\* An open transaction has the lock, and nothing in it is on record for the others.
Exclusive ==
    \A w \in Writers :
        /\ IsFiniteSet(dirty[w])
        /\ dirty[w] # {} => lock = w
        /\ dirty[w] \cap db = {}

\* During a call total_changes grows with the transaction.
ChangesAreRows ==
    \A w \in Writers : pc[w] # "idle" =>
        changes[w] + carried[w] = before[w] + Cardinality(dirty[w])

CInv == Shape /\ CountShape /\ Exclusive /\ ChangesAreRows /\ CountsOwnRows

\* Nothing is counted at the start.
LEMMA InitCInv == Init => CInv
<1> SUFFICES ASSUME Init PROVE CInv
  OBVIOUS
<1>1. Shape /\ CountShape
  BY DEF Init, Shape, CountShape
<1>2. Exclusive
  BY FS_EmptySet DEF Init, Exclusive
<1>3. ChangesAreRows /\ CountsOwnRows
  BY DEF Init, ChangesAreRows, CountsOwnRows
<1> QED
  BY <1>1, <1>2, <1>3 DEF CInv

\* `before` and the rows already in the transaction are taken together.
LEMMA CountOfCall ==
  ASSUME CInv, NEW w \in Writers, NEW b \in Batches, Call(w, b)
  PROVE  CountShape' /\ Exclusive' /\ ChangesAreRows' /\ CountsOwnRows'
<1> USE DEF CInv, Shape, CountShape
<1>1. /\ UNCHANGED <<db, lock, dirty, changes, count, gain>>
      /\ before' = [before EXCEPT ![w] = changes[w]]
      /\ carried' = [carried EXCEPT ![w] = Cardinality(dirty[w])]
  BY DEF Call
<1>2. /\ pc'[w] = "idle" => result'[w] = "raised"
      /\ \A v \in Writers \ {w} : pc'[v] = pc[v] /\ result'[v] = result[v]
  <2>1. CASE Has(b, "invalid")
    BY <2>1 DEF Call
  <2>2. CASE ~Has(b, "invalid")
    BY <2>2 DEF Call
  <2> QED
    BY <2>1, <2>2
<1>3. Cardinality(dirty[w]) \in Nat
  BY FS_CardinalityType DEF Exclusive
<1>4. CountShape'
  BY <1>1, <1>3
<1>5. Exclusive'
  BY <1>1 DEF Exclusive
<1>6. ChangesAreRows'
  BY <1>1, <1>2, <1>3 DEF ChangesAreRows
<1>7. CountsOwnRows'
  BY <1>1, <1>2 DEF CountsOwnRows
<1> QED
  BY <1>4, <1>5, <1>6, <1>7

\* total_changes grows exactly when the transaction does.
LEMMA CountOfInsertRow ==
  ASSUME CInv, NEW w \in Writers, InsertRow(w)
  PROVE  CountShape' /\ Exclusive' /\ ChangesAreRows' /\ CountsOwnRows'
<1> USE DEF CInv, Shape, CountShape
<1>1. /\ UNCHANGED <<db, pc, before, carried, result, count, gain>> /\ lock' = w
      /\ pc[w] = "inserting" /\ lock \in {w, NoWriter}
  BY DEF InsertRow, Inserting
<1>2. CASE Ignored(w)
  <2>1. UNCHANGED <<dirty, changes>>
    BY <1>2 DEF InsertRow
  <2>2. Exclusive'
    BY <1>1, <2>1, NoWriterAssumption DEF Exclusive
  <2> QED
    BY <1>1, <2>1, <2>2 DEF ChangesAreRows, CountsOwnRows
<1>3. CASE ~Ignored(w)
  <2>1. /\ dirty' = [dirty EXCEPT ![w] = dirty[w] \cup {Row(w)}]
        /\ changes' = [changes EXCEPT ![w] = changes[w] + 1]
    BY <1>3 DEF InsertRow
  <2>2. Row(w) \notin db \cup dirty[w]
    BY <1>3 DEF Ignored
  <2>3. /\ IsFiniteSet(dirty[w] \cup {Row(w)})
        /\ Cardinality(dirty[w] \cup {Row(w)}) = Cardinality(dirty[w]) + 1
    BY <2>2, FS_AddElement DEF Exclusive
  <2>4. Cardinality(dirty[w]) \in Nat
    BY FS_CardinalityType DEF Exclusive
  <2>5. Exclusive'
    <3>1. ASSUME NEW v \in Writers \ {w} PROVE dirty'[v] = dirty[v] /\ dirty[v] = {}
      BY <1>1, <2>1, NoWriterAssumption DEF Exclusive
    <3>2. dirty'[w] = dirty[w] \cup {Row(w)} /\ dirty[w] \cap db = {}
      BY <2>1 DEF Exclusive
    <3>3. dirty'[w] \cap db = {}
      BY <2>2, <3>2
    <3> QED
      BY <1>1, <2>3, <3>1, <3>2, <3>3, FS_EmptySet DEF Exclusive
  <2>6. ChangesAreRows'
    <3>1. changes[w] + carried[w] = before[w] + Cardinality(dirty[w])
      BY <1>1 DEF ChangesAreRows
    <3>2. changes'[w] + carried[w] = before[w] + Cardinality(dirty'[w])
      <4>1. changes'[w] = changes[w] + 1 /\ Cardinality(dirty'[w]) = Cardinality(dirty[w]) + 1
        BY <2>1, <2>3
      <4>2. changes[w] \in Nat /\ carried[w] \in Nat /\ before[w] \in Nat
        OBVIOUS
      <4> HIDE DEF CInv, Shape, CountShape
      <4> QED
        BY <2>4, <3>1, <4>1, <4>2
    <3>3. \A v \in Writers \ {w} : dirty'[v] = dirty[v] /\ changes'[v] = changes[v]
      BY <2>1
    <3> QED
      BY <1>1, <3>2, <3>3 DEF ChangesAreRows
  <2> QED
    BY <1>1, <2>1, <2>5, <2>6 DEF CountsOwnRows
<1> QED
  BY <1>2, <1>3

\* A failure returns no count.
LEMMA CountOfFailure ==
  ASSUME CInv, NEW w \in Writers, InsertRaises(w) \/ Busy(w) \/ Crash(w)
  PROVE  CountShape' /\ Exclusive' /\ ChangesAreRows' /\ CountsOwnRows'
<1> USE DEF CInv, Shape, CountShape
<1>1. /\ pc'[w] = "idle" /\ result'[w] = "raised" /\ UNCHANGED <<db, carried, count, gain>>
      /\ \A v \in Writers \ {w} :
            /\ pc'[v] = pc[v] /\ result'[v] = result[v]
            /\ dirty'[v] = dirty[v] /\ changes'[v] = changes[v] /\ before'[v] = before[v]
  BY DEF InsertRaises, Busy, Crash
<1>2. CountShape'
  BY DEF InsertRaises, Busy, Crash
<1>3. dirty'[w] = {} \/ (dirty'[w] = dirty[w] /\ lock' = lock)
  <2>1. CASE InsertRaises(w) \/ Busy(w)
    BY <2>1 DEF InsertRaises, Busy
  <2>2. CASE Crash(w)
    BY <2>2 DEF Crash
  <2> QED
    BY <2>1, <2>2
<1>4. \A v \in Writers \ {w} : lock = v => lock' = v
  BY DEF InsertRaises, Busy, Crash
<1>5. Exclusive'
  <2> SUFFICES ASSUME NEW v \in Writers
               PROVE  /\ IsFiniteSet(dirty'[v])
                      /\ dirty'[v] # {} => lock' = v
                      /\ dirty'[v] \cap db' = {}
    BY Zenon DEF Exclusive
  <2>1. IsFiniteSet(dirty[v]) /\ (dirty[v] # {} => lock = v) /\ dirty[v] \cap db = {}
    BY Zenon DEF Exclusive
  <2>2. db' = db
    BY <1>1
  <2> HIDE DEF CInv, Shape, CountShape
  <2>3. CASE v = w
    BY <1>3, <2>1, <2>2, <2>3, FS_EmptySet
  <2>4. CASE v # w
    BY <1>1, <1>4, <2>1, <2>2, <2>4
  <2> QED
    BY <2>3, <2>4
<1>6. ChangesAreRows' /\ CountsOwnRows'
  BY <1>1 DEF ChangesAreRows, CountsOwnRows
<1> QED
  BY <1>2, <1>5, <1>6

\* The difference returned is what the commit makes visible less what was carried.
LEMMA CountOfCommit ==
  ASSUME CInv, NEW w \in Writers, Commit(w)
  PROVE  CountShape' /\ Exclusive' /\ ChangesAreRows' /\ CountsOwnRows'
<1> USE DEF CInv, Shape, CountShape
<1>1. /\ pc[w] = "committing" /\ pc' = [pc EXCEPT ![w] = "idle"]
      /\ result' = [result EXCEPT ![w] = "returned"]
      /\ db' = db \cup dirty[w] /\ dirty' = [dirty EXCEPT ![w] = {}]
      /\ lock' = IF lock = w THEN NoWriter ELSE lock
      /\ UNCHANGED <<changes, before, carried>>
  BY DEF Commit
<1>2. /\ gain' = [gain EXCEPT ![w] = Cardinality(db' \ db)]
      /\ count' = [count EXCEPT ![w] = changes[w] - before[w]]
  BY DEF Commit
<1>3. db' \ db = dirty[w]
  BY <1>1 DEF Exclusive
<1>4. Cardinality(dirty[w]) \in Nat
  BY FS_CardinalityType DEF Exclusive
<1>5. changes[w] - before[w] = Cardinality(dirty[w]) - carried[w]
  <2>1. changes[w] + carried[w] = before[w] + Cardinality(dirty[w])
    BY <1>1 DEF ChangesAreRows
  <2>2. changes[w] \in Nat /\ carried[w] \in Nat /\ before[w] \in Nat
    OBVIOUS
  <2> HIDE DEF CInv, Shape, CountShape
  <2> QED
    BY <1>4, <2>1, <2>2
<1>6. CountsOwnRows'
  BY <1>1, <1>2, <1>3, <1>5 DEF CountsOwnRows
<1>7. \A v \in Writers \ {w} : dirty[v] # {} => dirty[w] = {}
  BY DEF Exclusive
<1>8. Exclusive'
  BY <1>1, <1>7, FS_EmptySet DEF Exclusive
<1>9. CountShape' /\ ChangesAreRows'
  BY <1>1, <1>2 DEF ChangesAreRows
<1> QED
  BY <1>6, <1>8, <1>9

\* Every step keeps total_changes in step with the transactions.
LEMMA StepCInv == CInv /\ [Next]_vars => CInv'
<1> SUFFICES ASSUME CInv, [Next]_vars
             PROVE  CountShape' /\ Exclusive' /\ ChangesAreRows' /\ CountsOwnRows'
  BY StepShape DEF CInv
<1>1. ASSUME NEW w \in Writers, Inserted(w)
      PROVE  CountShape' /\ Exclusive' /\ ChangesAreRows' /\ CountsOwnRows'
  <2>1. pc[w] = "inserting" /\ pc' = [pc EXCEPT ![w] = "committing"]
        /\ UNCHANGED <<db, lock, dirty, changes, before, carried, result, count, gain>>
    BY <1>1 DEF Inserted
  <2> QED
    BY <2>1 DEF CInv, Shape, CountShape, Exclusive, ChangesAreRows, CountsOwnRows
<1>2. CASE UNCHANGED vars
  BY <1>2 DEF vars, CInv, CountShape, Exclusive, ChangesAreRows, CountsOwnRows
<1> QED
  BY <1>1, <1>2, CountOfCall, CountOfInsertRow, CountOfFailure, CountOfCommit DEF Next

\* The number returned is that of the rows the call itself added
\* (decision_ledger.py:136-146).
THEOREM CountIsExact == Spec => []CountsOwnRows
<1>1. CInv => CountsOwnRows
  BY DEF CInv
<1> QED
  BY InitCInv, StepCInv, <1>1, PTL DEF Spec

-----------------------------------------------------------------------------
(* connect and its guard.                                                  *)

\* The default names a file, once there is one.
DefaultIsPath == defaultDb \in Paths \cup {NoPath}

AccessInv == DefaultIsPath /\ GuardIsExact

\* What a connection reaches while the process sees the user's own home directory.
LEMMA ConnectIsExact ==
  ASSUME NEW p \in Paths, home = "real"
  PROVE  /\ testing => (IF Refused(p) THEN "refused" ELSE Opens(p)) # "live"
         /\ (IF Refused(p) THEN "refused" ELSE Opens(p)) = "refused" =>
               testing /\ (p = Tilde \/ p.file = "live")
<1> USE NoPathAssumption DEF Refused, Canonical, Opens, HomeLedger, Files
<1>1. CASE p = Memory
  BY <1>1 DEF Memory
<1>2. CASE p = Tilde
  BY <1>2 DEF Memory, Tilde
<1>3. CASE p \in [file : Files, by : {"path", "link"}] \ {Memory, Tilde}
  BY <1>3
<1> QED
  BY <1>1, <1>2, <1>3 DEF Paths

\* While the process sees its user's home directory, no spelling and no default takes
\* a test to the live ledger, and nobody else is refused (decision_ledger.py, connect
\* and _guard_against_live_ledger_in_tests).
THEOREM GuardHolds == AccessSpec => []GuardIsExact
<1>1. AccessInit => AccessInv
  BY DEF AccessInit, AccessInv, DefaultIsPath, GuardIsExact
<1>2. AccessInv /\ [AccessNext]_accessVars => AccessInv'
  <2> SUFFICES ASSUME AccessInv, [AccessNext]_accessVars PROVE AccessInv'
    OBVIOUS
  <2> USE DEF AccessInv
  <2>1. CASE Import
    <3>1. ByPath(HomeLedger) \in Paths
      BY DEF ByPath, HomeLedger, Paths, Files
    <3> QED
      BY <2>1, <3>1 DEF Import, DefaultIsPath, GuardIsExact
  <2>2. CASE ToggleTest \/ PatchHome \/ PatchDefault
    BY <2>2 DEF ToggleTest, PatchHome, PatchDefault, DefaultIsPath, GuardIsExact
  <2>3. ASSUME NEW arg \in Paths \cup {NoPath}, Connect(arg) PROVE AccessInv'
    <3> DEFINE p == IF arg = NoPath THEN defaultDb ELSE arg
    <3>1. /\ connected' = [path |-> p, byDefault |-> arg = NoPath, home |-> home, testing |-> testing,
                           file |-> IF Refused(p) THEN "refused" ELSE Opens(p)]
          /\ UNCHANGED <<home, testing, defaultDb>> /\ defaultDb # NoPath
      BY <2>3 DEF Connect
    <3>2. p \in Paths
      BY <2>3, <3>1 DEF DefaultIsPath
    <3> HIDE DEF p
    <3>3. /\ connected'.path = p /\ connected'.home = home /\ connected'.testing = testing
          /\ connected'.file = IF Refused(p) THEN "refused" ELSE Opens(p)
      BY <3>1
    <3>4. GuardIsExact'
      BY <3>2, <3>3, ConnectIsExact DEF GuardIsExact
    <3> QED
      BY <3>1, <3>4 DEF DefaultIsPath
  <2>4. CASE UNCHANGED accessVars
    BY <2>4 DEF accessVars, DefaultIsPath, GuardIsExact
  <2> QED
    BY <2>1, <2>2, <2>3, <2>4 DEF AccessNext
<1>3. AccessInv => GuardIsExact
  BY DEF AccessInv
<1> QED
  BY <1>1, <1>2, <1>3, PTL DEF AccessSpec
=============================================================================
