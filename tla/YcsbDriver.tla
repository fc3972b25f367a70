----------------------------- MODULE YcsbDriver -----------------------------
(***************************************************************************)
(* The YCSB-C benchmark driver: main() and DelegateClient() of ycsbc.cc,   *)
(* Client of core/client.h and CoreWorkload with its key generators.       *)
(*                                                                         *)
(* main() starts num_threads clients that load the records, waits for all  *)
(* of them, then starts as many that execute transactions.  The clients    *)
(* share the workload object: a counter that hands out keys to insert, and *)
(* a chooser of keys for transactions.  A client draws its key in one step *)
(* and calls the database in a later one.  The database call is one step   *)
(* here; HashtableDB models what happens inside.                           *)
(***************************************************************************)
EXTENDS Integers, FiniteSets

CONSTANTS
  Threads,          \* the client threads, num_threads of them
  RecordCount, OperationCount, InsertStart,
  NewKeys,          \* (int)(op_count * insert_proportion * 2)
  Distributions,    \* request distributions to try
  Operations,       \* operations with a positive proportion
  FieldCount,
  ReadAllFields, WriteAllFields,
  Hash,             \* utils::Hash() on the key numbers used, or the identity
                    \* when insertorder is not "hashed"
  NoKey

(***************************************************************************)
(* Without records, record_count_ - 1 and Last() wrap around to 2^64 - 1   *)
(* and every key is taken; this is left out.                               *)
(***************************************************************************)
ASSUME CountsAssumption ==
  /\ RecordCount \in Nat \ {0} /\ OperationCount \in Nat /\ InsertStart \in Nat
  /\ NewKeys \in Nat /\ FieldCount \in Nat \ {0}
  /\ Threads # {} /\ IsFiniteSet(Threads)
ASSUME DistributionsAssumption ==
  /\ Distributions \subseteq {"uniform", "zipfian", "latest"}
  /\ "latest" \in Distributions => RecordCount >= 3    \* ZipfianGenerator
  /\ "zipfian" \in Distributions => RecordCount + NewKeys >= 2    \* asserts it
ASSUME OperationsAssumption ==
  Operations \subseteq {"INSERT", "READ", "UPDATE", "SCAN", "READMODIFYWRITE"}

NumThreads == Cardinality(Threads)
OpsPerThread(total) == total \div NumThreads
KeyNums == 0 .. InsertStart + RecordCount + OperationCount + NewKeys

(***************************************************************************)
(* BuildKeyName() hashes and pads the number; distinct numbers must give   *)
(* distinct names.                                                         *)
(***************************************************************************)
ASSUME HashInjective == \A i, j \in KeyNums : Hash[i] = Hash[j] => i = j
ASSUME NoKeyIsNoNumber == NoKey \notin KeyNums
BuildKeyName(n) == Hash[n]

(***************************************************************************)
(* A field name is the text "field" some number of times, then an index.   *)
(* NextFieldName() and BuildValues() put it once.                          *)
(***************************************************************************)
FieldName(times, i) == [prefixes |-> times, index |-> i]
NextFieldNames == {FieldName(1, i) : i \in 0 .. FieldCount - 1}
BuildValues == NextFieldNames

VARIABLES
  dist,             \* the request distribution of this run
  phase,            \* "load", "run" or "done"
  pc,               \* each client: "next", "draw", "check", "call", "done"
  left,             \* operations each client still has to do
  oks,              \* operations of this phase that returned kOK, per client
  joined,           \* clients whose future main() has collected
  sum,              \* what main() has added up
  loaded,           \* the sum of the load phase, as main() printed it
  op, key,          \* the operation a client is in, and the key it drew
  keyGenerator,     \* key_generator_: next key number to insert
  insertKeySequence,\* insert_key_sequence_: read by the choosers
  db,               \* fields of each record in the database
  conflicts,        \* history: inserts whose record was there already
  got               \* history: fields the last read of each client returned

shared == <<keyGenerator, insertKeySequence, db>>
mainVars == <<phase, joined, sum, loaded>>
hist == <<conflicts, got>>
vars == <<dist, mainVars, pc, left, oks, op, key, shared, hist>>

Init ==
  /\ dist \in Distributions
  /\ phase = "load"
  /\ pc = [t \in Threads |-> "next"]
  /\ left = [t \in Threads |-> OpsPerThread(RecordCount)]
  /\ oks = [t \in Threads |-> 0]
  /\ joined = {} /\ sum = 0 /\ loaded = 0
  /\ op = [t \in Threads |-> "INSERT"]
  /\ key = [t \in Threads |-> NoKey]
  /\ keyGenerator = InsertStart          \* CoreWorkload::Init
  /\ insertKeySequence = RecordCount
  /\ db = <<>>
  /\ conflicts = {} /\ got = [t \in Threads |-> BuildValues]

-----------------------------------------------------------------------------
(* CoreWorkload. *)

(* The counters are above 0 wherever this is read, so it does not wrap. *)
Last(counter) == counter - 1

(***************************************************************************)
(* What key_chooser_->Next() may return: uniform over the records, zipfian *)
(* over more than there are, latest counting down from the newest record.  *)
(***************************************************************************)
ChooserRange ==
  CASE dist = "uniform" -> 0 .. RecordCount - 1
    [] dist = "zipfian" -> 0 .. RecordCount + NewKeys - 1
    [] dist = "latest" ->
         LET max == Last(insertKeySequence) IN {max - z : z \in 0 .. max - 1}

-----------------------------------------------------------------------------
(* DelegateClient() and Client. *)

PhaseOperations == IF phase = "load" THEN {"INSERT"} ELSE Operations

(* One turn of the loop: DoInsert(), or DoTransaction() with NextOperation(). *)
NextOp(t) ==
  /\ pc[t] = "next" /\ left[t] > 0
  /\ left' = [left EXCEPT ![t] = @ - 1]
  /\ op' \in {[op EXCEPT ![t] = o] : o \in PhaseOperations}
  /\ pc' = [pc EXCEPT ![t] = "draw"]
  /\ UNCHANGED <<dist, mainVars, oks, key, shared, hist>>

EndLoop(t) ==
  /\ pc[t] = "next" /\ left[t] = 0
  /\ pc' = [pc EXCEPT ![t] = "done"]
  /\ UNCHANGED <<dist, mainVars, left, oks, op, key, shared, hist>>

(* Mutant: the counter is read and written back in a way that can repeat. *)
NextSequenceKeyRepeats(t) ==
  /\ pc[t] = "draw" /\ op[t] = "INSERT"
  /\ key' = [key EXCEPT ![t] = keyGenerator]
  /\ keyGenerator' \in {keyGenerator, keyGenerator + 1}
  /\ pc' = [pc EXCEPT ![t] = "call"]
  /\ UNCHANGED <<dist, mainVars, left, oks, op, insertKeySequence, db, hist>>

(* NextSequenceKey(): an atomic fetch_add. *)
NextSequenceKey(t) ==
  /\ pc[t] = "draw" /\ op[t] = "INSERT"
  /\ key' = [key EXCEPT ![t] = keyGenerator]
  /\ keyGenerator' = keyGenerator + 1
  /\ pc' = [pc EXCEPT ![t] = "call"]
  /\ UNCHANGED <<dist, mainVars, left, oks, op, insertKeySequence, db, hist>>

(* NextTransactionKey(): key_chooser_->Next()... *)
DrawKey(t) ==
  /\ pc[t] = "draw" /\ op[t] # "INSERT"
  /\ \E n \in ChooserRange : key' = [key EXCEPT ![t] = n]
  /\ pc' = [pc EXCEPT ![t] = "check"]
  /\ UNCHANGED <<dist, mainVars, left, oks, op, shared, hist>>

(* Mutant: any key the chooser returns is taken. *)
AcceptAnyKey(t) ==
  /\ pc[t] = "check"
  /\ pc' = [pc EXCEPT ![t] = "call"]
  /\ UNCHANGED <<dist, mainVars, left, oks, op, key, shared, hist>>

(* ...kept when it is not past the last record... *)
AcceptKey(t) ==
  /\ pc[t] = "check" /\ key[t] <= Last(insertKeySequence)
  /\ pc' = [pc EXCEPT ![t] = "call"]
  /\ UNCHANGED <<dist, mainVars, left, oks, op, key, shared, hist>>

(* Mutant: the draw is before the loop, not in it. *)
RejectKeyNoRedraw(t) ==
  /\ pc[t] = "check" /\ key[t] > Last(insertKeySequence)
  /\ UNCHANGED vars

(* ...and drawn again when it is. *)
RejectKey(t) ==
  /\ pc[t] = "check" /\ key[t] > Last(insertKeySequence)
  /\ key' = [key EXCEPT ![t] = NoKey]
  /\ pc' = [pc EXCEPT ![t] = "draw"]
  /\ UNCHANGED <<dist, mainVars, left, oks, op, shared, hist>>

Finish(t, ok) ==
  /\ oks' = [oks EXCEPT ![t] = IF ok THEN @ + 1 ELSE @]
  /\ pc' = [pc EXCEPT ![t] = "next"]
  /\ key' = [key EXCEPT ![t] = NoKey]

Name(t) == BuildKeyName(key[t])
Present(t) == Name(t) \in DOMAIN db
Fields(t) == IF Present(t) THEN db[Name(t)] ELSE {}
Write(t, fields) ==
  db' = [k \in DOMAIN db \cup {Name(t)} |->
           IF k = Name(t) THEN Fields(t) \cup fields ELSE db[k]]

(***************************************************************************)
(* DB::Insert() of a whole record, in DoInsert() and TransactionInsert():  *)
(* it stops with kErrorConflict at the first field that is there already.  *)
(***************************************************************************)
DoInsert(t) ==
  LET new == {f \in BuildValues : \A g \in Fields(t) : f.index < g.index} IN
  /\ pc[t] = "call" /\ op[t] = "INSERT"
  /\ Write(t, new)
  /\ conflicts' = IF new = BuildValues THEN conflicts ELSE conflicts \cup {key[t]}
  /\ Finish(t, new = BuildValues)
  /\ UNCHANGED <<dist, mainVars, left, op, keyGenerator, insertKeySequence, got>>

(* The field vectors that TransactionRead and TransactionScan pass. *)
ReadLists ==
  IF ReadAllFields THEN {BuildValues}
  ELSE {{FieldName(1 + f.prefixes, f.index)} : f \in NextFieldNames}

TransactionRead(t) ==
  /\ pc[t] = "call" /\ op[t] = "READ"
  /\ IF Present(t)
       THEN \E fs \in ReadLists : got' = [got EXCEPT ![t] = Fields(t) \cap fs]
       ELSE UNCHANGED got
  /\ Finish(t, Present(t))
  /\ UNCHANGED <<dist, mainVars, left, op, shared, conflicts>>

(* A scan that finds nothing returns kOK. *)
TransactionScan(t) ==
  /\ pc[t] = "call" /\ op[t] = "SCAN"
  /\ Finish(t, TRUE)
  /\ UNCHANGED <<dist, mainVars, left, op, shared, conflicts, got>>

(* BuildUpdate(), or all of the fields. *)
Updates == IF WriteAllFields THEN {BuildValues} ELSE {{f} : f \in NextFieldNames}

(* An update creates the record when it is not there. *)
TransactionUpdate(t) ==
  /\ pc[t] = "call" /\ op[t] = "UPDATE"
  /\ \E fs \in Updates : Write(t, fs)
  /\ Finish(t, TRUE)
  /\ UNCHANGED <<dist, mainVars, left, op, keyGenerator, insertKeySequence,
                 conflicts, got>>

(* The read's status is ignored; the two calls are separate. *)
TransactionReadModifyWrite(t) ==
  /\ pc[t] = "call" /\ op[t] = "READMODIFYWRITE"
  /\ op' = [op EXCEPT ![t] = "UPDATE"]
  /\ UNCHANGED <<dist, mainVars, pc, left, oks, key, shared, conflicts, got>>

-----------------------------------------------------------------------------
(* main(). *)

(* sum += n.get(), future by future; the order does not show. *)
Join(t) ==
  /\ phase # "done" /\ pc[t] = "done" /\ t \notin joined
  /\ joined' = joined \cup {t}
  /\ sum' = sum + oks[t]
  /\ UNCHANGED <<dist, phase, loaded, pc, left, oks, op, key, shared, hist>>

(* Mutant: the transactions start before every loader has been joined. *)
StartTransactionsEarly ==
  /\ phase = "load" /\ joined # {}
  /\ phase' = "run" /\ joined' = {} /\ sum' = 0 /\ loaded' = sum
  /\ pc' = [t \in Threads |-> "next"]
  /\ left' = [t \in Threads |-> OpsPerThread(OperationCount)]
  /\ oks' = [t \in Threads |-> 0]
  /\ UNCHANGED <<dist, op, key, shared, hist>>

(* The load phase is over: print the sum and start the transactions. *)
StartTransactions ==
  /\ phase = "load" /\ joined = Threads
  /\ phase' = "run" /\ joined' = {} /\ sum' = 0 /\ loaded' = sum
  /\ pc' = [t \in Threads |-> "next"]
  /\ left' = [t \in Threads |-> OpsPerThread(OperationCount)]
  /\ oks' = [t \in Threads |-> 0]
  /\ UNCHANGED <<dist, op, key, shared, hist>>

Report ==
  /\ phase = "run" /\ joined = Threads
  /\ phase' = "done"
  /\ UNCHANGED <<dist, joined, sum, loaded, pc, left, oks, op, key, shared, hist>>

Client(t) ==
  \/ NextOp(t) \/ EndLoop(t)
  \/ NextSequenceKey(t) \/ DrawKey(t) \/ AcceptKey(t) \/ RejectKey(t)
  \/ DoInsert(t) \/ TransactionRead(t) \/ TransactionScan(t)
  \/ TransactionUpdate(t) \/ TransactionReadModifyWrite(t)

Main == (\E t \in Threads : Join(t)) \/ StartTransactions \/ Report

Next == Main \/ \E t \in Threads : Client(t)

Spec == Init /\ [][Next]_vars

(***************************************************************************)
(* Threads are scheduled, and the choosers are random: one that is asked   *)
(* for ever returns a key of the records sooner or later.                  *)
(***************************************************************************)
DrawGoodKey(t) == DrawKey(t) /\ key'[t] <= Last(insertKeySequence)

FairSpec ==
  /\ Spec
  /\ WF_vars(Main)
  /\ \A t \in Threads : WF_vars(Client(t)) /\ SF_vars(DrawGoodKey(t))

-----------------------------------------------------------------------------
TypeOK ==
  /\ dist \in Distributions /\ phase \in {"load", "run", "done"}
  /\ pc \in [Threads -> {"next", "draw", "check", "call", "done"}]
  /\ left \in [Threads -> Nat] /\ oks \in [Threads -> Nat]
  /\ joined \subseteq Threads /\ sum \in Nat /\ loaded \in Nat
  /\ keyGenerator \in Nat /\ insertKeySequence \in Nat
  /\ op \in [Threads -> Operations \cup {"INSERT", "UPDATE"}]
  /\ key \in [Threads -> KeyNums \cup {NoKey}]
  /\ \A t \in Threads : (pc[t] \in {"check", "call"}) <=> (key[t] # NoKey)
  /\ DOMAIN db \subseteq {Hash[n] : n \in KeyNums}

(* No two inserts of a run, loading or not, ever get the same key. *)
SequenceKeysUnique ==
  /\ conflicts = {}
  /\ \A t, u \in Threads :
       t # u /\ pc[t] = "call" /\ pc[u] = "call" /\ op[t] = "INSERT" /\ op[u] = "INSERT"
         => key[t] # key[u]

(***************************************************************************)
(* The comment in CoreWorkload::Init: a key that is not inserted yet is    *)
(* never used by a transaction, another one is picked.                     *)
(***************************************************************************)
TransactionKeysInserted ==
  \A t \in Threads :
    phase = "run" /\ pc[t] = "call" /\ op[t] # "INSERT" => Present(t)

(***************************************************************************)
(* The figures main() prints are true: every record that was asked for has *)
(* been loaded and counted before the first transaction, and the number of *)
(* operations the throughput is computed from is the number executed.      *)
(***************************************************************************)
FiguresTrue ==
  /\ phase # "load" => loaded = RecordCount /\ Cardinality(DOMAIN db) >= RecordCount
  /\ phase = "done" => sum = OperationCount

(* The benchmark ends: no client redraws keys for ever. *)
Terminates == <>(phase = "done")

(***************************************************************************)
(* What the "latest" distribution is for: transactions can reach the       *)
(* records that transactions insert, so that they are read.                *)
(***************************************************************************)
LatestTracksInserts ==
  dist = "latest" /\ phase = "done" => Last(keyGenerator) \in ChooserRange

(***************************************************************************)
(* What core_workload.h says of readallfields = false: a read then reads   *)
(* one field of the record.                                                *)
(***************************************************************************)
ReadsOneField == \A t \in Threads : got[t] # {}

=============================================================================
