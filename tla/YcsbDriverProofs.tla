-------------------------- MODULE YcsbDriverProofs --------------------------
(***************************************************************************)
(* Proofs about YcsbDriver, for any number of threads, records and         *)
(* operations, any hash without collisions and every request distribution. *)
(* Three inductive invariants, each resting on the one before: Base for    *)
(* any configuration, Keys when the records divide evenly among the        *)
(* threads, Tally when loading besides starts at key 0, where the key      *)
(* chooser starts.                                                         *)
(***************************************************************************)
EXTENDS YcsbDriver, FiniteSetTheorems, TLAPS

(***************************************************************************)
(* The share of a thread is a number, and the shares together are no more  *)
(* than the total: all of it when there is no remainder.                   *)
(***************************************************************************)
LEMMA Division ==
  ASSUME NEW total \in Nat
  PROVE  /\ NumThreads \in Nat \ {0}
         /\ OpsPerThread(total) \in Nat
         /\ NumThreads * OpsPerThread(total) <= total
         /\ OpsPerThread(total) <= total
         /\ total % NumThreads = 0 => NumThreads * OpsPerThread(total) = total
<1>1. NumThreads \in Nat \ {0}
  BY CountsAssumption, FS_CardinalityType, FS_EmptySet DEF NumThreads
<1>2. PICK n \in Nat \ {0} : n = NumThreads
  BY <1>1
<1>3. PICK q \in Int : q = total \div n
  BY <1>2
<1>4. q >= 0 /\ n * q <= total /\ q <= total
  BY <1>2, <1>3, SMT
<1>5. total % n = 0 => n * q = total
  BY <1>2, <1>3, SMT
<1>6. QED  BY <1>1, <1>2, <1>3, <1>4, <1>5 DEF OpsPerThread

(***************************************************************************)
(* What the threads have left to do, one pair for each thread and each of  *)
(* its operations: its cardinality is the sum of f over the threads.       *)
(***************************************************************************)
Upto(f, most) == {p \in Threads \X (1 .. most) : p[2] <= f[p[1]]}

(* There are finitely many of them. *)
LEMMA UptoFinite ==
  ASSUME NEW most \in Nat, NEW f
  PROVE  IsFiniteSet(Upto(f, most)) /\ Cardinality(Upto(f, most)) \in Nat
<1>0. IsFiniteSet(1 .. most)
  BY FS_Interval
<1>1. IsFiniteSet(Threads \X (1 .. most))
  BY <1>0, CountsAssumption, FS_Product
<1>2. IsFiniteSet(Upto(f, most))
  BY <1>1, FS_Subset DEF Upto
<1>3. QED  BY <1>2, FS_CardinalityType

(* A thread that does one of its operations leaves one less. *)
LEMMA OneLess ==
  ASSUME NEW most \in Nat, NEW f \in [Threads -> Nat], NEW t \in Threads, f[t] \in 1 .. most
  PROVE  Cardinality(Upto([f EXCEPT ![t] = @ - 1], most)) = Cardinality(Upto(f, most)) - 1
<1> DEFINE g == [f EXCEPT ![t] = @ - 1]
<1>1. <<t, f[t]>> \in Upto(f, most)
  BY DEF Upto
<1>2. Upto(g, most) = Upto(f, most) \ {<<t, f[t]>>}
  BY DEF Upto
<1>3. IsFiniteSet(Upto(f, most))
  BY UptoFinite
<1>4. Cardinality(Upto(f, most) \ {<<t, f[t]>>}) = Cardinality(Upto(f, most)) - 1
  BY <1>1, <1>3, FS_RemoveElement
<1>5. QED  BY <1>2, <1>4

(* At the start of a phase every thread has n of them. *)
LEMMA AllOfThem ==
  ASSUME NEW most \in Nat, NEW n \in Nat, n <= most
  PROVE  Cardinality(Upto([t \in Threads |-> n], most)) = NumThreads * n
<1>1. Upto([t \in Threads |-> n], most) = Threads \X (1 .. n)
  BY DEF Upto
<1>2. IsFiniteSet(1 .. n) /\ Cardinality(1 .. n) = n
  BY FS_Interval
<1>3. QED  BY <1>1, <1>2, CountsAssumption, FS_Product DEF NumThreads

(* At the end nothing is left. *)
LEMMA NoneOfThem ==
  ASSUME NEW most \in Nat, NEW f, \A t \in Threads : f[t] = 0
  PROVE  Cardinality(Upto(f, most)) = 0
<1>1. Upto(f, most) = {}
  BY DEF Upto
<1>2. QED  BY <1>1, FS_EmptySet

-----------------------------------------------------------------------------
(***************************************************************************)
(* More than any thread has to do in a phase; what each has still to draw  *)
(* a key for; and how many keys that makes.                                *)
(***************************************************************************)
Most == RecordCount + OperationCount
todo == [t \in Threads |-> left[t] + (IF pc[t] \in {"draw", "check"} THEN 1 ELSE 0)]
Unclaimed == Cardinality(Upto(todo, Most))

(***************************************************************************)
(* Where the threads are: only inserts in the load phase, redrawing only   *)
(* for transactions, nothing left for a thread that is done, and a         *)
(* transaction about to call has a key below the record count.             *)
(***************************************************************************)
Control ==
  /\ insertKeySequence = RecordCount
  /\ phase = "done" => joined = Threads
  /\ \A t \in joined : pc[t] = "done"
  /\ \A t \in Threads :
       /\ phase = "load" => op[t] = "INSERT"
       /\ pc[t] = "check" => op[t] # "INSERT"
       /\ pc[t] = "done" => left[t] = 0
       /\ pc[t] = "call" /\ op[t] # "INSERT" => key[t] < RecordCount

(***************************************************************************)
(* The keys handed out and those still to be drawn never exceed what the   *)
(* phases may insert, so that every key is one of KeyNums. In the load     *)
(* phase they are exactly the shares of the threads.                       *)
(***************************************************************************)
Enough ==
  /\ keyGenerator >= InsertStart
  /\ \A t \in Threads : todo[t] <= Most
  /\ phase = "load" =>
       keyGenerator + Unclaimed = InsertStart + NumThreads * OpsPerThread(RecordCount)
  /\ keyGenerator + Unclaimed <=
       InsertStart + RecordCount + (IF phase = "load" THEN 0 ELSE OperationCount)

Base == TypeOK /\ Control /\ Enough

(* The constants and the count are natural numbers. *)
LEMMA Counts ==
  /\ Most \in Nat /\ RecordCount \in Nat /\ OperationCount \in Nat /\ InsertStart \in Nat
  /\ NewKeys \in Nat /\ Unclaimed \in Nat
  BY CountsAssumption, UptoFinite DEF Most, Unclaimed

(* The choosers return key numbers. *)
LEMMA Choices ==
  ASSUME TypeOK, Control
  PROVE  ChooserRange \subseteq KeyNums
  BY DistributionsAssumption, Counts DEF TypeOK, Control, ChooserRange, KeyNums, Last

(* Base holds at the start. *)
LEMMA InitBase == Init => Base
<1> SUFFICES ASSUME Init PROVE Base
  OBVIOUS
<1>1. TypeOK
  BY Counts, Division, NoKeyIsNoNumber DEF Init, TypeOK
<1>2. Control
  BY DEF Init, Control
<1>3. todo = [t \in Threads |-> OpsPerThread(RecordCount)]
  BY Counts, Division DEF Init, todo
<1>4. OpsPerThread(RecordCount) \in Nat /\ OpsPerThread(RecordCount) <= Most
  BY Counts, Division DEF Most
<1>5. Unclaimed = NumThreads * OpsPerThread(RecordCount)
  BY <1>3, <1>4, Counts, AllOfThem DEF Unclaimed
<1>6. Enough
  BY <1>3, <1>4, <1>5, Counts, Division DEF Init, Enough
<1>7. QED  BY <1>1, <1>2, <1>6 DEF Base

(* A thread that has its key takes one from the count, which was not zero. *)
LEMMA Claim ==
  ASSUME TypeOK, Enough, NEW t \in Threads, pc[t] \in {"draw", "check"},
         todo' = [todo EXCEPT ![t] = @ - 1]
  PROVE  /\ Unclaimed' = Unclaimed - 1
         /\ Unclaimed \in Nat \ {0}
         /\ \A u \in Threads : todo[u]' <= Most
<1>1. todo \in [Threads -> Nat] /\ todo[t] \in 1 .. Most
  BY DEF TypeOK, Enough, todo
<1>2. Unclaimed' = Unclaimed - 1
  BY <1>1, Counts, OneLess DEF Unclaimed
<1>3. Unclaimed' \in Nat
  BY Counts, UptoFinite DEF Unclaimed
<1>4. QED  BY <1>1, <1>2, <1>3, Counts DEF Enough

(* Every step of a client keeps Base. *)
LEMMA ClientBase ==
  ASSUME Base, NEW t \in Threads, Client(t)
  PROVE  Base'
<1> USE DEF mainVars, shared, hist
<1>1. CASE NextOp(t)
  <2>1. TypeOK'
    BY <1>1 DEF Base, NextOp, TypeOK, PhaseOperations
  <2>2. Control'
    BY <1>1 DEF Base, NextOp, TypeOK, Control, PhaseOperations
  <2>3. todo' = todo
    BY <1>1 DEF Base, NextOp, TypeOK, todo
  <2>4. QED  BY <1>1, <2>1, <2>2, <2>3 DEF Base, NextOp, Enough, Unclaimed
<1>2. CASE EndLoop(t)
  <2>1. TypeOK'
    BY <1>2 DEF Base, EndLoop, TypeOK
  <2>2. Control'
    BY <1>2 DEF Base, EndLoop, TypeOK, Control
  <2>3. todo' = todo
    BY <1>2 DEF Base, EndLoop, TypeOK, todo
  <2>4. QED  BY <1>2, <2>1, <2>2, <2>3 DEF Base, EndLoop, Enough, Unclaimed
<1>3. CASE NextSequenceKey(t)
  <2>1. todo' = [todo EXCEPT ![t] = @ - 1]
    <3>1. \A u \in Threads : todo'[u] = IF u = t THEN todo[u] - 1 ELSE todo[u]
      BY <1>3 DEF Base, NextSequenceKey, TypeOK, todo
    <3>2. QED  BY <3>1 DEF todo
  <2>2. /\ Unclaimed' = Unclaimed - 1 /\ Unclaimed \in Nat \ {0}
        /\ \A u \in Threads : todo[u]' <= Most
    BY <1>3, <2>1, Claim DEF Base, NextSequenceKey
  <2>3. keyGenerator \in KeyNums
    BY <2>2, Counts DEF Base, TypeOK, Enough, KeyNums
  <2>4. TypeOK'
    BY <1>3, <2>3, NoKeyIsNoNumber DEF Base, NextSequenceKey, TypeOK
  <2>5. Control'
    BY <1>3 DEF Base, NextSequenceKey, TypeOK, Control
  <2>6. Enough'
    BY <1>3, <2>2, Counts, Division DEF Base, NextSequenceKey, TypeOK, Enough
  <2>7. QED  BY <2>4, <2>5, <2>6 DEF Base
<1>4. CASE DrawKey(t)
  <2>1. PICK n \in KeyNums : key' = [key EXCEPT ![t] = n]
    BY <1>4, Choices DEF Base, DrawKey
  <2>2. TypeOK'
    BY <1>4, <2>1, NoKeyIsNoNumber DEF Base, DrawKey, TypeOK
  <2>3. Control'
    BY <1>4, <2>1 DEF Base, DrawKey, TypeOK, Control
  <2>4. todo' = todo
    BY <1>4 DEF Base, DrawKey, TypeOK, todo
  <2>5. QED  BY <1>4, <2>2, <2>3, <2>4 DEF Base, DrawKey, Enough, Unclaimed
<1>5. CASE AcceptKey(t)
  <2>1. todo' = [todo EXCEPT ![t] = @ - 1]
    <3>1. \A u \in Threads : todo'[u] = IF u = t THEN todo[u] - 1 ELSE todo[u]
      BY <1>5 DEF Base, AcceptKey, TypeOK, todo
    <3>2. QED  BY <3>1 DEF todo
  <2>2. /\ Unclaimed' = Unclaimed - 1 /\ Unclaimed \in Nat \ {0}
        /\ \A u \in Threads : todo[u]' <= Most
    BY <1>5, <2>1, Claim DEF Base, AcceptKey
  <2>3. key[t] \in KeyNums
    BY <1>5 DEF Base, TypeOK, AcceptKey
  <2>4. TypeOK'
    BY <1>5 DEF Base, AcceptKey, TypeOK
  <2>5. Control'
    BY <1>5, <2>3, Counts DEF Base, AcceptKey, TypeOK, Control, Last, KeyNums
  <2>6. phase # "load"
    BY <1>5 DEF Base, AcceptKey, Control
  <2>7. Enough'
    BY <1>5, <2>2, <2>6, Counts DEF Base, AcceptKey, TypeOK, Enough
  <2>8. QED  BY <2>4, <2>5, <2>7 DEF Base
<1>6. CASE RejectKey(t)
  <2>1. TypeOK'
    BY <1>6 DEF Base, RejectKey, TypeOK
  <2>2. Control'
    BY <1>6 DEF Base, RejectKey, TypeOK, Control
  <2>3. todo' = todo
    BY <1>6 DEF Base, RejectKey, TypeOK, todo
  <2>4. QED  BY <1>6, <2>1, <2>2, <2>3 DEF Base, RejectKey, Enough, Unclaimed
<1>7. ASSUME pc[t] = "call", pc' = [pc EXCEPT ![t] = "next"],
             key' = [key EXCEPT ![t] = NoKey], oks' \in [Threads -> Nat],
             UNCHANGED <<dist, mainVars, left, op, keyGenerator, insertKeySequence>>,
             db' = db \/ DOMAIN db' = DOMAIN db \cup {Name(t)}
      PROVE  Base'
  <2>1. key[t] \in KeyNums
    BY <1>7 DEF Base, TypeOK
  <2>2. TypeOK'
    BY <1>7, <2>1 DEF Base, TypeOK, Name, BuildKeyName
  <2>3. Control'
    BY <1>7 DEF Base, TypeOK, Control
  <2>4. todo' = todo
    BY <1>7 DEF Base, TypeOK, todo
  <2>5. QED  BY <1>7, <2>2, <2>3, <2>4 DEF Base, Enough, Unclaimed
<1>8. CASE DoInsert(t)
  BY <1>7, <1>8 DEF DoInsert, Write, Finish, Base, TypeOK
<1>9. CASE TransactionRead(t)
  BY <1>7, <1>9 DEF TransactionRead, Finish, Base, TypeOK
<1>10. CASE TransactionScan(t)
  BY <1>7, <1>10 DEF TransactionScan, Finish, Base, TypeOK
<1>11. CASE TransactionUpdate(t)
  BY <1>7, <1>11 DEF TransactionUpdate, Write, Finish, Base, TypeOK
<1>12. CASE TransactionReadModifyWrite(t)
  <2>1. TypeOK'
    BY <1>12 DEF Base, TransactionReadModifyWrite, TypeOK
  <2>2. Control'
    BY <1>12 DEF Base, TransactionReadModifyWrite, TypeOK, Control
  <2>3. todo' = todo
    BY <1>12 DEF Base, TransactionReadModifyWrite, TypeOK, todo
  <2>4. QED  BY <1>12, <2>1, <2>2, <2>3 DEF Base, TransactionReadModifyWrite, Enough, Unclaimed
<1>13. QED
  BY <1>1, <1>2, <1>3, <1>4, <1>5, <1>6, <1>8, <1>9, <1>10, <1>11, <1>12 DEF Client

(* Every step keeps Base. *)
LEMMA StepBase == Base /\ [Next]_vars => Base'
<1> SUFFICES ASSUME Base, [Next]_vars PROVE Base'
  OBVIOUS
<1> USE DEF mainVars, shared, hist
<1>1. CASE UNCHANGED vars
  <2>1. todo' = todo
    BY <1>1 DEF vars, todo
  <2>2. QED  BY <1>1, <2>1 DEF vars, Base, TypeOK, Control, Enough, Unclaimed
<1>2. ASSUME NEW t \in Threads, Join(t) PROVE Base'
  <2>1. todo' = todo
    BY <1>2 DEF Join, todo
  <2>2. TypeOK' /\ Control'
    BY <1>2 DEF Base, Join, TypeOK, Control
  <2>3. QED  BY <1>2, <2>1, <2>2 DEF Join, Base, Enough, Unclaimed
<1>3. CASE StartTransactions
  <2>1. \A t \in Threads : pc[t] = "done" /\ left[t] = 0 /\ todo[t] = 0
    BY <1>3 DEF Base, StartTransactions, Control, todo
  <2>2. Unclaimed = 0
    BY <2>1, Counts, NoneOfThem DEF Unclaimed
  <2>3. OpsPerThread(OperationCount) \in Nat /\ OpsPerThread(OperationCount) <= Most
    BY Counts, Division DEF Most
  <2>4. todo' = [t \in Threads |-> OpsPerThread(OperationCount)]
    BY <1>3, <2>3 DEF StartTransactions, todo
  <2>5. Unclaimed' = NumThreads * OpsPerThread(OperationCount)
    BY <2>3, <2>4, Counts, AllOfThem DEF Unclaimed
  <2>6. TypeOK'
    BY <1>3, <2>1, <2>3 DEF Base, StartTransactions, TypeOK
  <2>7. Control'
    BY <1>3, <2>1 DEF Base, StartTransactions, TypeOK, Control
  <2>8. keyGenerator <= InsertStart + RecordCount
    BY <1>3, <2>2, Counts DEF Base, StartTransactions, TypeOK, Enough
  <2>9. /\ NumThreads * OpsPerThread(OperationCount) \in Nat
        /\ NumThreads * OpsPerThread(OperationCount) <= OperationCount
    BY Counts, Division
  <2>10. Enough'
    BY <1>3, <2>3, <2>4, <2>5, <2>8, <2>9, Counts DEF Base, StartTransactions, TypeOK, Enough
  <2>11. QED  BY <2>6, <2>7, <2>10 DEF Base
<1>4. CASE Report
  <2>1. todo' = todo
    BY <1>4 DEF Report, todo
  <2>2. TypeOK' /\ Control'
    BY <1>4 DEF Base, Report, TypeOK, Control
  <2>3. QED  BY <1>4, <2>1, <2>2 DEF Report, Base, Enough, Unclaimed
<1>5. QED  BY <1>1, <1>2, <1>3, <1>4, ClientBase DEF Next, Main

(***************************************************************************)
(* The variables of the driver keep their types, however the counters are  *)
(* advanced and keys are drawn: a key number is always one that the phases *)
(* account for.                                                            *)
(***************************************************************************)
THEOREM TypeCorrect == Spec => []TypeOK
<1>1. Base => TypeOK
  BY DEF Base
<1>2. QED  BY <1>1, InitBase, StepBase, PTL DEF Spec

-----------------------------------------------------------------------------
(***************************************************************************)
(* A client that has drawn a key to insert and not yet called the          *)
(* database; a number whose record is there.                               *)
(***************************************************************************)
Inserting(t) == pc[t] = "call" /\ op[t] = "INSERT"
Stored(n) == BuildKeyName(n) \in DOMAIN db

(***************************************************************************)
(* The numbers below the counter are in the database or in the hands of    *)
(* exactly one client, those above are in neither, and after the load      *)
(* phase no loaded record is missing. That last part keeps updates, which  *)
(* create a record that is not there, away from keys still to be inserted. *)
(***************************************************************************)
KeysApart ==
  \A t, u \in Threads : t # u /\ Inserting(t) /\ Inserting(u) => key[t] # key[u]
KeysNew ==
  \A t \in Threads : Inserting(t) => key[t] \in InsertStart .. keyGenerator - 1 /\ ~Stored(key[t])
KeysAhead == \A n \in KeyNums : n >= keyGenerator => ~Stored(n)
KeysGiven ==
  \A n \in InsertStart .. keyGenerator - 1 :
    Stored(n) \/ \E t \in Threads : Inserting(t) /\ key[t] = n
RecordsLoaded ==
  phase # "load" => \A n \in InsertStart .. InsertStart + RecordCount - 1 : Stored(n)

(* All of it, and no insert has met a record yet. *)
Keys == conflicts = {} /\ KeysApart /\ KeysNew /\ KeysAhead /\ KeysGiven /\ RecordsLoaded

(* Nothing is handed out at the start. *)
LEMMA InitKeys == Init => Keys
  BY Counts DEF Init, Keys, KeysApart, KeysNew, KeysAhead, KeysGiven, RecordsLoaded,
                Inserting, Stored, KeyNums

(* A step that touches neither keys to insert nor the database keeps Keys. *)
LEMMA Quiet ==
  ASSUME Keys, \A t \in Threads : Inserting(t)' <=> Inserting(t),
         \A t \in Threads : Inserting(t) => key'[t] = key[t],
         UNCHANGED <<conflicts, keyGenerator, db, phase>>
  PROVE  Keys'
  BY DEF Keys, KeysApart, KeysNew, KeysAhead, KeysGiven, RecordsLoaded, Stored

(* Two numbers do not share a name. *)
LEMMA OneName ==
  ASSUME NEW i \in KeyNums, NEW j \in KeyNums, BuildKeyName(i) = BuildKeyName(j)
  PROVE  i = j
  BY HashInjective DEF BuildKeyName

(* Every step of a client keeps Keys. *)
LEMMA ClientKeys ==
  ASSUME Base, Keys, NEW t \in Threads, Client(t)
  PROVE  Keys'
<1> USE DEF mainVars, shared, hist
<1>0. /\ pc \in [Threads -> {"next", "draw", "check", "call", "done"}] 
      /\ DOMAIN op = Threads /\ DOMAIN key = Threads
      /\ keyGenerator \in Nat /\ keyGenerator >= InsertStart
  BY DEF Base, TypeOK, Enough
<1>1. CASE NextOp(t)
  BY <1>0, <1>1, Quiet DEF NextOp, Inserting
<1>2. CASE EndLoop(t)
  BY <1>0, <1>2, Quiet DEF EndLoop, Inserting
<1>3. CASE NextSequenceKey(t)
  <2>1. ~Inserting(t) /\ Inserting(t)' /\ key'[t] = keyGenerator
    BY <1>0, <1>3 DEF NextSequenceKey, Inserting
  <2>2. \A u \in Threads : u # t => (Inserting(u)' <=> Inserting(u)) /\ key'[u] = key[u]
    BY <1>0, <1>3 DEF NextSequenceKey, Inserting
  <2>3. keyGenerator \in KeyNums
    <3>1. todo' = [todo EXCEPT ![t] = @ - 1]
      <4>1. \A u \in Threads : todo'[u] = IF u = t THEN todo[u] - 1 ELSE todo[u]
        BY <1>3 DEF Base, NextSequenceKey, TypeOK, todo
      <4>2. QED  BY <4>1 DEF todo
    <3>2. Unclaimed \in Nat \ {0}
      BY <1>3, <3>1, Claim DEF Base, NextSequenceKey
    <3>3. QED  BY <3>2, Counts DEF Base, TypeOK, Enough, KeyNums
  <2>4. KeysApart'
    BY <1>0, <2>1, <2>2, Counts DEF Keys, KeysApart, KeysNew
  <2>5. \A n \in KeyNums : Stored(n)' <=> Stored(n)
    BY <1>3 DEF NextSequenceKey, Stored
  <2>6. KeysNew'
    <3>1. ASSUME NEW u \in Threads, Inserting(u)'
          PROVE  key'[u] \in InsertStart .. keyGenerator' - 1 /\ ~Stored(key[u])'
      <4>1. CASE u = t
        BY <1>0, <1>3, <2>1, <2>3, <4>1, Counts DEF NextSequenceKey, Keys, KeysAhead, Stored
      <4>2. CASE u # t
        BY <1>0, <1>3, <2>2, <3>1, <4>2, Counts DEF NextSequenceKey, Keys, KeysNew, Stored
      <4>3. QED  BY <4>1, <4>2
    <3>2. QED  BY <3>1 DEF KeysNew
  <2>7. KeysAhead'
    BY <1>0, <1>3, <2>5, Counts DEF NextSequenceKey, Keys, KeysAhead, KeyNums
  <2>8. KeysGiven'
    <3>1. ASSUME NEW n \in InsertStart .. keyGenerator' - 1
          PROVE  Stored(n)' \/ \E u \in Threads : Inserting(u)' /\ key'[u] = n
      <4>1. CASE n = keyGenerator
        BY <2>1, <4>1
      <4>2. CASE n # keyGenerator
        <5>1. n \in InsertStart .. keyGenerator - 1
          BY <1>0, <1>3, <4>2, Counts DEF NextSequenceKey
        <5>2. CASE Stored(n)
          BY <1>3, <5>2 DEF NextSequenceKey, Stored
        <5>3. CASE \E u \in Threads : Inserting(u) /\ key[u] = n
          BY <2>1, <2>2, <5>3
        <5>4. QED  BY <5>1, <5>2, <5>3 DEF Keys, KeysGiven
      <4>3. QED  BY <4>1, <4>2
    <3>2. QED  BY <3>1 DEF KeysGiven
  <2>9. RecordsLoaded' /\ conflicts' = {}
    BY <1>3 DEF NextSequenceKey, Keys, RecordsLoaded, Stored
  <2>10. QED  BY <2>4, <2>6, <2>7, <2>8, <2>9 DEF Keys
<1>4. CASE DrawKey(t)
  BY <1>0, <1>4, Quiet DEF DrawKey, Inserting
<1>5. CASE AcceptKey(t)
  BY <1>0, <1>5, Quiet DEF AcceptKey, Inserting, Base, Control
<1>6. CASE RejectKey(t)
  BY <1>0, <1>6, Quiet DEF RejectKey, Inserting
<1>7. CASE DoInsert(t)
  <2>1. Inserting(t) /\ ~Inserting(t)'
    BY <1>0, <1>7 DEF DoInsert, Finish, Inserting
  <2>2. \A u \in Threads : u # t => (Inserting(u)' <=> Inserting(u)) /\ key'[u] = key[u]
    BY <1>0, <1>7 DEF DoInsert, Finish, Inserting
  <2>3. key[t] \in InsertStart .. keyGenerator - 1 /\ key[t] \in KeyNums /\ ~Stored(key[t])
    BY <2>1 DEF Keys, KeysNew, Inserting, Base, TypeOK
  <2>4. conflicts' = {}
    BY <1>7, <2>3 DEF DoInsert, Keys, Fields, Present, Name, Stored
  <2>5. /\ \A n : Stored(n) \/ n = key[t] => Stored(n)'
        /\ \A n \in KeyNums : Stored(n)' => Stored(n) \/ n = key[t]
    <3>1. DOMAIN db' = DOMAIN db \cup {BuildKeyName(key[t])}
      BY <1>7 DEF DoInsert, Write, Name
    <3>2. QED  BY <2>3, <3>1, OneName DEF Stored, BuildKeyName
  <2>6. KeysApart'
    BY <2>1, <2>2 DEF Keys, KeysApart
  <2>7. KeysNew'
    <3>1. ASSUME NEW u \in Threads, Inserting(u)'
          PROVE  key'[u] \in InsertStart .. keyGenerator' - 1 /\ ~Stored(key[u])'
      <4>1. u # t /\ Inserting(u) /\ key'[u] = key[u]
        BY <2>1, <2>2, <3>1
      <4>2. /\ key[u] \in KeyNums /\ key[u] # key[t]
            /\ ~Stored(key[u]) /\ key[u] \in InsertStart .. keyGenerator - 1
        BY <2>1, <4>1 DEF Keys, KeysApart, KeysNew, Inserting, Base, TypeOK
      <4>3. ~(BuildKeyName(key[u]) \in DOMAIN db')
        BY <2>5, <4>2 DEF Stored
      <4>4. QED  BY <1>7, <4>1, <4>2, <4>3 DEF DoInsert, Stored, BuildKeyName
    <3>2. QED  BY <3>1 DEF KeysNew
  <2>8. KeysAhead'
    BY <1>0, <1>7, <2>3, <2>5, Counts DEF DoInsert, Keys, KeysAhead, KeyNums
  <2>9. KeysGiven'
    <3>1. ASSUME NEW n \in InsertStart .. keyGenerator - 1
          PROVE  Stored(n)' \/ \E u \in Threads : Inserting(u)' /\ key'[u] = n
      <4>1. CASE Stored(n) \/ n = key[t]
        BY <2>5, <4>1
      <4>2. CASE \E u \in Threads : Inserting(u) /\ key[u] = n /\ u # t
        BY <2>2, <4>2
      <4>3. QED  BY <4>1, <4>2 DEF Keys, KeysGiven
    <3>2. QED  BY <1>7, <3>1 DEF DoInsert, KeysGiven
  <2>10. RecordsLoaded'
    BY <1>7, <2>5 DEF DoInsert, Keys, RecordsLoaded
  <2>11. QED  BY <2>4, <2>6, <2>7, <2>8, <2>9, <2>10 DEF Keys
<1>8. CASE TransactionRead(t)
  BY <1>0, <1>8, Quiet DEF TransactionRead, Finish, Inserting
<1>9. CASE TransactionScan(t)
  BY <1>0, <1>9, Quiet DEF TransactionScan, Finish, Inserting
<1>10. CASE TransactionUpdate(t)
  <2>1. \A u \in Threads : (Inserting(u)' <=> Inserting(u)) /\ (Inserting(u) => key'[u] = key[u])
    BY <1>0, <1>10 DEF TransactionUpdate, Finish, Inserting
  <2>2. key[t] \in KeyNums /\ key[t] < RecordCount /\ phase # "load"
    BY <1>10 DEF TransactionUpdate, Base, TypeOK, Control
  <2>3. \A n \in InsertStart .. InsertStart + RecordCount - 1 : Stored(n)
    BY <2>2 DEF Keys, RecordsLoaded
  <2>4. key[t] < keyGenerator
    <3>1. InsertStart + RecordCount - 1 \in KeyNums
      BY <2>2, Counts DEF KeyNums
    <3>2. InsertStart + RecordCount - 1 < keyGenerator
      BY <1>0, <2>2, <2>3, <3>1, Counts DEF Keys, KeysAhead, KeyNums
    <3>3. QED  BY <1>0, <2>2, <3>2, Counts DEF KeyNums
  <2>5. /\ \A n : Stored(n) => Stored(n)' 
        /\ \A n \in KeyNums : Stored(n)' => Stored(n) \/ n = key[t]
    BY <1>10, <2>2, OneName DEF TransactionUpdate, Write, Name, Stored
  <2>6. KeysApart'
    BY <2>1 DEF Keys, KeysApart
  <2>7. KeysNew'
    <3>1. ASSUME NEW u \in Threads, Inserting(u)'
          PROVE  key'[u] \in InsertStart .. keyGenerator' - 1 /\ ~Stored(key[u])'
      <4>1. Inserting(u) /\ key'[u] = key[u]
        BY <2>1, <3>1
      <4>2. key[u] \in KeyNums /\ ~Stored(key[u]) /\ key[u] \in InsertStart .. keyGenerator - 1
        BY <4>1 DEF Keys, KeysNew, Inserting, Base, TypeOK
      <4>3. key[u] # key[t]
        BY <2>2, <2>3, <4>2, Counts DEF KeyNums
      <4>4. ~(BuildKeyName(key[u]) \in DOMAIN db')
        BY <2>5, <4>2, <4>3 DEF Stored
      <4>5. QED  BY <1>10, <4>1, <4>2, <4>4 DEF TransactionUpdate, Stored, BuildKeyName
    <3>2. QED  BY <3>1 DEF KeysNew
  <2>8. KeysAhead'
    BY <1>0, <1>10, <2>2, <2>4, <2>5, Counts DEF TransactionUpdate, Keys, KeysAhead, KeyNums
  <2>9. KeysGiven'
    <3>1. ASSUME NEW n \in InsertStart .. keyGenerator - 1
          PROVE  Stored(n)' \/ \E u \in Threads : Inserting(u)' /\ key'[u] = n
      BY <2>1, <2>5, <3>1 DEF Keys, KeysGiven
    <3>2. QED  BY <1>10, <3>1 DEF TransactionUpdate, KeysGiven
  <2>10. RecordsLoaded' /\ conflicts' = {}
    BY <1>10, <2>5 DEF TransactionUpdate, Keys, RecordsLoaded
  <2>11. QED  BY <2>6, <2>7, <2>8, <2>9, <2>10 DEF Keys
<1>11. CASE TransactionReadModifyWrite(t)
  BY <1>0, <1>11, Quiet DEF TransactionReadModifyWrite, Inserting
<1>12. QED
  BY <1>1, <1>2, <1>3, <1>4, <1>5, <1>6, <1>7, <1>8, <1>9, <1>10, <1>11 DEF Client

(***************************************************************************)
(* Every step keeps Keys. Only the start of the transactions needs the     *)
(* records to divide evenly: it is then that all of them are in the        *)
(* database.                                                               *)
(***************************************************************************)
LEMMA StepKeys ==
  ASSUME RecordCount % NumThreads = 0
  PROVE  Base /\ Keys /\ [Next]_vars => Keys'
<1> SUFFICES ASSUME Base, Keys, [Next]_vars PROVE Keys'
  OBVIOUS
<1> USE DEF mainVars, shared, hist
<1>1. CASE UNCHANGED vars
  BY <1>1, Quiet DEF vars, Inserting
<1>2. ASSUME NEW t \in Threads, Join(t) PROVE Keys'
  BY <1>2, Quiet DEF Join, Inserting
<1>3. CASE StartTransactions
  <2>1. \A t \in Threads : pc[t] = "done" /\ left[t] = 0 /\ todo[t] = 0
    BY <1>3 DEF Base, StartTransactions, Control, todo
  <2>2. Unclaimed = 0
    BY <2>1, Counts, NoneOfThem DEF Unclaimed
  <2>3. keyGenerator = InsertStart + RecordCount
    BY <1>3, <2>2, Counts, Division DEF StartTransactions, Base, TypeOK, Enough
  <2>4. \A t \in Threads : ~Inserting(t) /\ ~Inserting(t)'
    BY <1>3, <2>1 DEF StartTransactions, Inserting
  <2>5. RecordsLoaded'
    <3>1. \A n \in InsertStart .. InsertStart + RecordCount - 1 : Stored(n)
      <4>1. InsertStart .. keyGenerator - 1 = InsertStart .. InsertStart + RecordCount - 1
        BY <2>3, Counts
      <4>2. \A n \in InsertStart .. keyGenerator - 1 : Stored(n)
        BY <2>4 DEF Keys, KeysGiven
      <4>3. QED  BY <4>1, <4>2
    <3>2. QED  BY <1>3, <3>1 DEF StartTransactions, RecordsLoaded, Stored
  <2>6. QED
    BY <1>3, <2>4, <2>5
    DEF StartTransactions, Keys, KeysApart, KeysNew, KeysAhead, KeysGiven, Stored
<1>4. CASE Report
  BY <1>4 DEF Report, Keys, KeysApart, KeysNew, KeysAhead, KeysGiven, RecordsLoaded,
              Stored, Inserting
<1>5. QED  BY <1>1, <1>2, <1>3, <1>4, ClientKeys DEF Next, Main

(* Base and Keys are invariants. *)
LEMMA KeysInvariant ==
  ASSUME RecordCount % NumThreads = 0
  PROVE  Spec => [](Base /\ Keys)
  BY InitBase, StepBase, InitKeys, StepKeys, PTL DEF Spec

(***************************************************************************)
(* NextSequenceKey() never hands out a key twice, and no insert finds its  *)
(* record in the database, for any number of client threads, when the      *)
(* threads' shares make up the record count. (With a remainder the keys    *)
(* not loaded are created by updates, and may meet the inserts of the run  *)
(* phase.)                                                                 *)
(***************************************************************************)
THEOREM KeysAreUnique ==
  ASSUME RecordCount % NumThreads = 0
  PROVE  Spec => []SequenceKeysUnique
<1>1. Base /\ Keys => SequenceKeysUnique
  BY DEF Keys, KeysApart, Inserting, SequenceKeysUnique
<1>2. QED  BY <1>1, KeysInvariant, PTL

(* With keys from 0, the record of a transaction is there. *)
LEMMA Reads ==
  ASSUME InsertStart = 0, Base, Keys, NEW t \in Threads, pc[t] = "call", op[t] # "INSERT"
  PROVE  Present(t)
<1>1. key[t] \in 0 .. RecordCount - 1 /\ phase # "load"
  BY Counts DEF Base, TypeOK, Control, KeyNums
<1>2. QED  BY <1>1, Counts DEF Keys, RecordsLoaded, Stored, Present, Name

(***************************************************************************)
(* A transaction never names a record that has not been inserted,          *)
(* whichever chooser drew its key and however often it was rejected, when  *)
(* loading starts at 0 and leaves no remainder.                            *)
(***************************************************************************)
THEOREM TransactionsFindTheirKeys ==
  ASSUME InsertStart = 0, RecordCount % NumThreads = 0
  PROVE  Spec => []TransactionKeysInserted
<1>1. Base /\ Keys => TransactionKeysInserted
  BY Reads DEF TransactionKeysInserted
<1>2. QED  BY <1>1, KeysInvariant, PTL

-----------------------------------------------------------------------------
(* What each thread has to do in this phase, and the operation it is in. *)
Share == OpsPerThread(IF phase = "load" THEN RecordCount ELSE OperationCount)
Busy(t) == IF pc[t] \in {"draw", "check", "call"} THEN 1 ELSE 0

(***************************************************************************)
(* Every operation that is over was successful, main() has added up the    *)
(* shares of the threads it has joined, and the load phase counted every   *)
(* record.                                                                 *)
(***************************************************************************)
Tally ==
  /\ \A t \in Threads : oks[t] + left[t] + Busy(t) = Share
  /\ sum = Cardinality(joined) * Share
  /\ phase # "load" => loaded = RecordCount

(* A share is a number. *)
LEMMA Shares == Share \in Nat
  BY Counts, Division DEF Share

(* Nothing has been counted at the start. *)
LEMMA InitTally == Init => Tally
<1> SUFFICES ASSUME Init PROVE Tally
  OBVIOUS
<1>1. Share = OpsPerThread(RecordCount) /\ Share \in Nat
  BY Shares DEF Init, Share
<1>2. QED  BY <1>1, FS_EmptySet DEF Init, Tally, Busy

(***************************************************************************)
(* Every step of a client keeps Tally: inserts meet no record and reads    *)
(* find theirs.                                                            *)
(***************************************************************************)
LEMMA ClientTally ==
  ASSUME InsertStart = 0, Base, Keys, Tally, NEW t \in Threads, Client(t)
  PROVE  Tally'
<1> USE DEF mainVars, shared, hist
<1>0. /\ pc \in [Threads -> {"next", "draw", "check", "call", "done"}]
      /\ left \in [Threads -> Nat] /\ oks \in [Threads -> Nat] /\ Share \in Nat
  BY Shares DEF Base, TypeOK
<1>1. ASSUME UNCHANGED mainVars, oks'[t] + left'[t] + Busy(t)' = oks[t] + left[t] + Busy(t),
             \A u \in Threads : u # t => pc'[u] = pc[u] /\ left'[u] = left[u] /\ oks'[u] = oks[u]
      PROVE  Tally'
  <2>1. Share' = Share
    BY <1>1 DEF Share
  <2>2. \A u \in Threads : oks'[u] + left'[u] + Busy(u)' = Share
    BY <1>1 DEF Tally, Busy
  <2>3. QED  BY <1>1, <2>1, <2>2 DEF Tally
<1>2. CASE NextOp(t)
  BY <1>0, <1>1, <1>2 DEF NextOp, Busy
<1>3. CASE EndLoop(t)
  BY <1>0, <1>1, <1>3 DEF EndLoop, Busy
<1>4. CASE NextSequenceKey(t)
  BY <1>0, <1>1, <1>4 DEF NextSequenceKey, Busy
<1>5. CASE DrawKey(t)
  BY <1>0, <1>1, <1>5 DEF DrawKey, Busy
<1>6. CASE AcceptKey(t)
  BY <1>0, <1>1, <1>6 DEF AcceptKey, Busy
<1>7. CASE RejectKey(t)
  BY <1>0, <1>1, <1>7 DEF RejectKey, Busy
<1>8. ASSUME pc[t] = "call", Finish(t, TRUE), UNCHANGED <<mainVars, left>>
      PROVE  Tally'
  BY <1>0, <1>1, <1>8 DEF Finish, Busy
<1>9. CASE DoInsert(t)
  <2>1. Fields(t) = {}
    BY <1>9 DEF DoInsert, Keys, KeysNew, Inserting, Stored, Fields, Present, Name
  <2>2. Finish(t, TRUE)
    BY <1>9, <2>1 DEF DoInsert, Finish
  <2>3. QED  BY <1>8, <1>9, <2>2 DEF DoInsert
<1>10. CASE TransactionRead(t)
  <2>1. Present(t)
    BY <1>10, Reads DEF TransactionRead
  <2>2. Finish(t, TRUE)
    BY <1>10, <2>1 DEF TransactionRead, Finish
  <2>3. QED  BY <1>8, <1>10, <2>2 DEF TransactionRead
<1>11. CASE TransactionScan(t)
  BY <1>8, <1>11 DEF TransactionScan
<1>12. CASE TransactionUpdate(t)
  BY <1>8, <1>12 DEF TransactionUpdate
<1>13. CASE TransactionReadModifyWrite(t)
  BY <1>0, <1>1, <1>13 DEF TransactionReadModifyWrite, Busy
<1>14. QED
  BY <1>2, <1>3, <1>4, <1>5, <1>6, <1>7, <1>9, <1>10, <1>11, <1>12, <1>13 DEF Client

(* Every step keeps Tally. *)
LEMMA StepTally ==
  ASSUME InsertStart = 0, RecordCount % NumThreads = 0
  PROVE  Base /\ Keys /\ Tally /\ [Next]_vars => Tally'
<1> SUFFICES ASSUME Base, Keys, Tally, [Next]_vars PROVE Tally'
  OBVIOUS
<1> USE DEF mainVars, shared, hist
<1>0. IsFiniteSet(joined) /\ Cardinality(joined) \in Nat
  BY CountsAssumption, FS_Subset, FS_CardinalityType DEF Base, TypeOK
<1>1. CASE UNCHANGED vars
  BY <1>1 DEF vars, Tally, Busy, Share
<1>2. ASSUME NEW t \in Threads, Join(t) PROVE Tally'
  <2>1. Share' = Share /\ Share \in Nat /\ sum \in Nat
    BY <1>2, Shares DEF Join, Share, Base, TypeOK
  <2>2. \A u \in Threads : oks'[u] + left'[u] + Busy(u)' = Share
    BY <1>2 DEF Join, Tally, Busy
  <2>3. oks[t] = Share
    BY <1>2, <2>1 DEF Join, Base, TypeOK, Control, Tally, Busy
  <2>4. Cardinality(joined') = Cardinality(joined) + 1
    BY <1>0, <1>2, FS_AddElement DEF Join
  <2>5. sum' = Cardinality(joined') * Share
    BY <1>0, <1>2, <2>1, <2>3, <2>4 DEF Join, Tally
  <2>6. QED  BY <1>2, <2>1, <2>2, <2>5 DEF Join, Tally
<1>3. CASE StartTransactions
  <2>1. sum = RecordCount
    BY <1>3, Counts, Division DEF StartTransactions, Tally, Share, NumThreads
  <2>2. Share' = OpsPerThread(OperationCount) /\ Share' \in Nat
    BY <1>3, Counts, Division DEF StartTransactions, Share
  <2>3. \A u \in Threads : oks'[u] + left'[u] + Busy(u)' = Share'
    BY <1>3, <2>2 DEF StartTransactions, Busy
  <2>4. QED  BY <1>3, <2>1, <2>2, <2>3, FS_EmptySet DEF StartTransactions, Tally
<1>4. CASE Report
  BY <1>4 DEF Report, Tally, Busy, Share
<1>5. QED  BY <1>1, <1>2, <1>3, <1>4, ClientTally DEF Next, Main

(* After the load phase the database has at least RecordCount records. *)
LEMMA RecordsStored ==
  ASSUME Base, Keys, phase # "load"
  PROVE  Cardinality(DOMAIN db) >= RecordCount
<1> DEFINE S == InsertStart .. InsertStart + RecordCount - 1
           h == [n \in KeyNums |-> BuildKeyName(n)]
           f == [n \in S |-> BuildKeyName(n)]
<1>1. IsFiniteSet(KeyNums)
  BY Counts, FS_Interval DEF KeyNums
<1>2. h \in Surjection(KeyNums, {Hash[n] : n \in KeyNums})
  BY DEF Surjection, BuildKeyName
<1>3. IsFiniteSet({Hash[n] : n \in KeyNums})
  BY <1>1, <1>2, FS_Surjection
<1>4. IsFiniteSet(DOMAIN db)
  BY <1>3, FS_Subset DEF Base, TypeOK
<1>5. S \subseteq KeyNums
  BY Counts DEF KeyNums
<1>6. f \in Injection(S, DOMAIN db)
  <2>1. f \in [S -> DOMAIN db]
    BY DEF Keys, RecordsLoaded, Stored
  <2>2. \A i, j \in S : f[i] = f[j] => i = j
    BY <1>5, OneName
  <2>3. QED  BY <2>1, <2>2 DEF Injection, IsInjective
<1>7. Cardinality(S) <= Cardinality(DOMAIN db)
  BY <1>4, <1>6, FS_Injection
<1>8. Cardinality(S) = RecordCount
  BY Counts, FS_Interval
<1>9. QED  BY <1>4, <1>7, <1>8, Counts, FS_CardinalityType

(***************************************************************************)
(* The figures main() prints are those of what was done: all records       *)
(* loaded and counted, and as many operations executed as the throughput   *)
(* is computed from, when loading starts at 0 and neither count leaves a   *)
(* remainder.                                                              *)
(***************************************************************************)
THEOREM FiguresAreTrue ==
  ASSUME InsertStart = 0, RecordCount % NumThreads = 0, OperationCount % NumThreads = 0
  PROVE  Spec => []FiguresTrue
<1>1. Base /\ Keys /\ Tally => FiguresTrue
  <2> SUFFICES ASSUME Base, Keys, Tally PROVE FiguresTrue
    OBVIOUS
  <2>1. phase = "done" => sum = NumThreads * OpsPerThread(OperationCount)
    BY DEF Base, Control, Tally, Share, NumThreads
  <2>2. phase = "done" => sum = OperationCount
    BY <2>1, Counts, Division
  <2>3. QED  BY <2>2, RecordsStored DEF Tally, FiguresTrue
<1>2. QED  BY <1>1, KeysInvariant, InitTally, StepTally, PTL DEF Spec
=============================================================================
