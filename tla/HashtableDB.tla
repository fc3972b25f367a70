---------------------------- MODULE HashtableDB ----------------------------
(***************************************************************************)
(* HashtableDB of YCSB-C (db/hashtable_db.cc) over LockStlHashtable        *)
(* (lib/lock_stl_hashtable.h, db/lock_stl_db.h), called by several client  *)
(* threads: a load phase in which each thread inserts its own records,     *)
(* then, after the barrier in main(), any mix of operations.               *)
(*                                                                         *)
(* The database is a hash table of field tables of C strings.  Every hash  *)
(* table call locks that table's mutex and is one step; nothing is locked  *)
(* between two calls, and the pointers a call returned may be freed by     *)
(* another thread meanwhile.  Strings and tables are cells of a heap that  *)
(* are live or free, and reused once freed.  Using a freed cell is         *)
(* undefined behaviour and is recorded in ub.  A table has a copy of its   *)
(* own of each key it holds; the copies that no table has any more, and    *)
(* nobody frees, are recorded in lostKeys.                                 *)
(***************************************************************************)
EXTENDS Naturals, FiniteSets, Sequences

CONSTANTS
  Threads,      \* client threads
  Keys,         \* record keys (table name and key, concatenated)
  Fields,       \* field names
  Strs, Tabs,   \* heap cells for strings and for field tables
  NULL,
  AllFields,    \* the vector BuildValues() makes: every field, in order
  FieldLists,   \* the other field vectors that clients pass
  Workloads,    \* records: the keys each thread inserts in the load phase (load),
                \* the <<operation, key>> pairs it may call afterwards (mix)
  ScanLen       \* bound on the length of a scan

ASSUME WorkloadsAssumption ==
  \A w \in Workloads : w.load \in [Threads -> SUBSET Keys]
ASSUME NULLIsNothing ==
  /\ NULL \notin Threads \cup Strs \cup Tabs \cup Keys
  /\ NULL \notin {"Update", "Insert"}
  /\ NULL \notin [op : {"Update", "Insert"}, key : Keys, todo : Seq(Fields)]
Distinct(s) == \A i, j \in 1 .. Len(s) : s[i] = s[j] => i = j
ASSUME FieldsAssumption ==
  /\ AllFields \in Seq(Fields) /\ FieldLists \subseteq Seq(Fields)
  /\ \A f \in Fields : \E i \in 1 .. Len(AllFields) : AllFields[i] = f
  /\ \A fs \in FieldLists \cup {AllFields} : Distinct(fs)
ASSUME ScanLenAssumption == ScanLen \in Nat

VARIABLES
  keyTable,     \* key_table_: the field table of each key, or NULL
  fieldOf,      \* the string each field table holds for each field, or NULL
  liveTabs, liveStrs,   \* allocated cells
  content,      \* the thread that wrote each string
  lostKeys,     \* history: what lost a copy of a key
  pc, loc,      \* where each thread is in its call, and its local variables
  workload,     \* the workload that is run
  toLoad,       \* keys each thread still has to load
  loading,      \* the load phase is not over
  ub            \* history: kinds of undefined behaviour met

Operations == {"Read", "Scan", "Update", "Insert", "Delete"}

heap == <<fieldOf, liveTabs, liveStrs, content, lostKeys>>
driver == <<workload, toLoad, loading>>
vars == <<keyTable, heap, pc, loc, driver, ub>>

(***************************************************************************)
(* The locals of a call: the parameters, the fields not dealt with yet,    *)
(* field_table, the string the thread is about to insert or delete, the    *)
(* pointers it has still to copy or to scan, and (history) how many fields *)
(* of the call reached the record.                                         *)
(***************************************************************************)
Idle == [op |-> NULL, key |-> NULL, fields |-> <<>>, todo |-> <<>>, tab |-> NULL,
         str |-> NULL, ptrs |-> {}, scan |-> {}, stored |-> 0]

NoFields == [f \in Fields |-> NULL]

Init ==
  /\ keyTable = [k \in Keys |-> NULL]
  /\ fieldOf = [n \in Tabs |-> NoFields]
  /\ liveTabs = {} /\ liveStrs = {}
  /\ content = [s \in Strs |-> NULL]
  /\ lostKeys = {}
  /\ pc = [t \in Threads |-> "idle"]
  /\ loc = [t \in Threads |-> Idle]
  /\ workload \in Workloads
  /\ toLoad = workload.load
  /\ loading = TRUE
  /\ ub = {}

-----------------------------------------------------------------------------
(* Shorthand for the steps of a thread. *)

Goto(t, from, to) == pc[t] = from /\ pc' = [pc EXCEPT ![t] = to]
Set(t, l) == loc' = [loc EXCEPT ![t] = l]

Return(t) == pc' = [pc EXCEPT ![t] = "idle"] /\ Set(t, Idle)

Skipped(t) == [loc[t] EXCEPT !.todo = Tail(@)]
Entries(n) == {<<f, fieldOf[n][f]>> : f \in {g \in Fields : fieldOf[n][g] # NULL}}

(* Using a field table or a string that has been freed. *)
Met(kind, cond) == ub' = ub \cup (IF cond THEN {kind} ELSE {})
UsesTab(t) == Met("table", loc[t].tab \notin liveTabs)

(* The locals after a write of the next field, which counts as stored when *)
(* the table is the one the key names.                                     *)
Written(t) ==
  [loc[t] EXCEPT !.todo = Tail(@),
     !.stored = IF keyTable[loc[t].key] = loc[t].tab
                  THEN @ + 1 ELSE @]

(***************************************************************************)
(* Every Insert() of a hash table copies the key first (String::Copy).     *)
(* The copy is lost when the key is there already, and those of a field    *)
(* table when the table is destroyed: only Remove() frees one.             *)
(***************************************************************************)
LosesKey(cause, cond) == lostKeys' = lostKeys \cup (IF cond THEN {cause} ELSE {})

(* DeleteString: the content of a freed cell is lost. *)
DeleteStrings(S) ==
  /\ liveStrs' = liveStrs \ S
  /\ content' = [s \in Strs |-> IF s \in S THEN NULL ELSE content[s]]
  /\ Met("free", S \ liveStrs # {})

(* CopyString: a new cell that holds what the thread writes. *)
CopyString(t, s) ==
  /\ s \notin liveStrs
  /\ liveStrs' = liveStrs \cup {s}
  /\ content' = [content EXCEPT ![s] = t]

-----------------------------------------------------------------------------
(* The driver's side: DelegateClient() and the barrier in main(). *)

Begin(t, op, k, fs) ==
  /\ pc[t] = "idle"
  /\ pc' = [pc EXCEPT ![t] = CASE op = "Delete" -> "remove"
                               [] op = "Scan" -> "entries"
                               [] OTHER -> "get"]
  /\ Set(t, [Idle EXCEPT !.op = op, !.key = k, !.fields = fs,
               !.todo = IF op \in {"Update", "Insert"} THEN fs ELSE <<>>])

LoadInsert(t, k) ==
  /\ k \in toLoad[t]
  /\ toLoad' = [toLoad EXCEPT ![t] = @ \ {k}]
  /\ Begin(t, "Insert", k, AllFields)
  /\ UNCHANGED <<keyTable, heap, workload, loading, ub>>

LoadDone ==
  /\ loading /\ \A t \in Threads : toLoad[t] = {} /\ pc[t] = "idle"
  /\ loading' = FALSE
  /\ UNCHANGED <<keyTable, heap, pc, loc, workload, toLoad, ub>>

(* A call of the DB interface; reads and scans may pass no field vector. *)
Call(t, op, k, fs) ==
  /\ ~loading /\ <<op, k>> \in workload.mix[t]
  /\ op \in {"Update", "Insert"} => fs # <<>>
  /\ op = "Delete" => fs = <<>>
  /\ Begin(t, op, k, fs)
  /\ UNCHANGED <<keyTable, heap, driver, ub>>

-----------------------------------------------------------------------------
(* key_table_->Get() of Read, Update and Insert. *)

Get(t) ==
  /\ pc[t] = "get"
  /\ LET n == keyTable[loc[t].key]
         l == [loc[t] EXCEPT !.tab = n]
     IN  IF n # NULL
           THEN /\ pc' = [pc EXCEPT ![t] = CASE l.op = "Read" -> "visit"
                                             [] l.op = "Update" -> "update"
                                             [] l.op = "Insert" -> "insert"]
                /\ Set(t, l)
           ELSE IF loc[t].op = "Read" THEN Return(t)      \* kErrorNoData
           ELSE pc' = [pc EXCEPT ![t] = "attach"] /\ UNCHANGED loc
  /\ UNCHANGED <<keyTable, heap, driver, ub>>

(***************************************************************************)
(* NewFieldHashtable() and key_table_->Insert(), whose result nobody looks *)
(* at: when another thread has attached a table in the meantime, this one  *)
(* goes on with a table that no key names.                                 *)
(***************************************************************************)
Attach(t) ==
  /\ Goto(t, "attach", IF loc[t].op = "Update" THEN "fresh" ELSE "insert")
  /\ \E n \in Tabs \ liveTabs :
       /\ liveTabs' = liveTabs \cup {n}
       /\ fieldOf' = [fieldOf EXCEPT ![n] = NoFields]
       /\ keyTable' = [keyTable EXCEPT ![loc[t].key] = IF @ = NULL THEN n ELSE @]
       /\ Set(t, [loc[t] EXCEPT !.tab = n])
  /\ LosesKey("Attach", keyTable[loc[t].key] # NULL)
  /\ UNCHANGED <<liveStrs, content, driver, ub>>

NextHeld(t) == fieldOf[loc[t].tab][Head(loc[t].todo)]

(* FieldHashtable::Insert(): only loses a key when the field is there already. *)
FieldInsert(t, s) ==
  /\ LosesKey(loc[t].op, NextHeld(t) # NULL)
  /\ IF NextHeld(t) = NULL
       THEN /\ fieldOf' = [fieldOf EXCEPT ![loc[t].tab][Head(loc[t].todo)] = s]
            /\ Set(t, [Written(t) EXCEPT !.str = NULL])
       ELSE /\ UNCHANGED fieldOf
            /\ Set(t, [Skipped(t) EXCEPT !.str = NULL])

(* Update() of a record it has just created: the insert's result is ignored. *)
UpdateFresh(t) ==
  /\ pc[t] = "fresh" /\ loc[t].todo # <<>>
  /\ \E s \in Strs : CopyString(t, s) /\ FieldInsert(t, s)
  /\ UsesTab(t)
  /\ UNCHANGED <<keyTable, liveTabs, pc, driver>>

(* Mutant: an insert overwrites the field that is there already. *)
InsertFieldOverwrites(t) ==
  /\ pc[t] = "insert" /\ loc[t].todo # <<>>
  /\ \E s \in Strs : CopyString(t, s)
       /\ fieldOf' = [fieldOf EXCEPT ![loc[t].tab][Head(loc[t].todo)] = s]
  /\ Set(t, Written(t))
  /\ UNCHANGED <<keyTable, liveTabs, lostKeys, pc, driver, ub>>

(* Mutant: on a conflict it is the string in the table that is deleted. *)
InsertFieldDeletesWrong(t) ==
  /\ pc[t] = "insert" /\ loc[t].todo # <<>>
  /\ \E s \in Strs :
       /\ CopyString(t, s)
       /\ IF NextHeld(t) = NULL THEN FieldInsert(t, s) /\ UNCHANGED pc
          ELSE /\ pc' = [pc EXCEPT ![t] = "delete"]
               /\ Set(t, [loc[t] EXCEPT !.str = NextHeld(t)])
               /\ LosesKey("Insert", TRUE)
               /\ UNCHANGED fieldOf
  /\ UsesTab(t)
  /\ UNCHANGED <<keyTable, liveTabs, driver>>

(* Insert(), one field: when the table refuses it, the copy is in the way. *)
InsertField(t) ==
  /\ pc[t] = "insert" /\ loc[t].todo # <<>>
  /\ \E s \in Strs :
       /\ CopyString(t, s)
       /\ IF NextHeld(t) = NULL THEN FieldInsert(t, s) /\ UNCHANGED pc
          ELSE /\ pc' = [pc EXCEPT ![t] = "delete"]
               /\ Set(t, [loc[t] EXCEPT !.str = s])
               /\ LosesKey("Insert", TRUE)
               /\ UNCHANGED fieldOf
  /\ UsesTab(t)
  /\ UNCHANGED <<keyTable, liveTabs, driver>>

(* DeleteString() of the copy, and kErrorConflict half way. *)
InsertConflict(t) ==
  /\ pc[t] = "delete" /\ loc[t].op = "Insert"
  /\ DeleteStrings({loc[t].str})
  /\ Return(t)
  /\ UNCHANGED <<keyTable, fieldOf, liveTabs, lostKeys, driver>>

(* Update() of an existing record, one field: swap the string in. *)
UpdateField(t) ==
  /\ pc[t] = "update" /\ loc[t].todo # <<>>
  /\ LET f == Head(loc[t].todo)
         old == fieldOf[loc[t].tab][f]
     IN  \E s \in Strs :
           /\ CopyString(t, s)
           /\ IF old # NULL
                THEN /\ fieldOf' = [fieldOf EXCEPT ![loc[t].tab][f] = s]
                     /\ pc' = [pc EXCEPT ![t] = "delete"]
                     /\ Set(t, [Written(t) EXCEPT !.str = old])
                ELSE /\ pc' = [pc EXCEPT ![t] = "missing"]
                     /\ Set(t, [loc[t] EXCEPT !.str = s])
                     /\ UNCHANGED fieldOf
  /\ UsesTab(t)
  /\ UNCHANGED <<keyTable, liveTabs, lostKeys, driver>>

(* The field was not there: insert it, ignoring the result. *)
UpdateMissing(t) ==
  /\ Goto(t, "missing", "update")
  /\ FieldInsert(t, loc[t].str)
  /\ UsesTab(t)
  /\ UNCHANGED <<keyTable, liveTabs, liveStrs, content, driver>>

(* Mutant: the replaced string is not deleted. *)
DeleteOldForgotten(t) ==
  /\ Goto(t, "delete", "update") /\ loc[t].op = "Update"
  /\ Set(t, [loc[t] EXCEPT !.str = NULL])
  /\ UNCHANGED <<keyTable, heap, driver, ub>>

(* The field was there: DeleteString() what it held. *)
DeleteOld(t) ==
  /\ Goto(t, "delete", "update") /\ loc[t].op = "Update"
  /\ DeleteStrings({loc[t].str})
  /\ Set(t, [loc[t] EXCEPT !.str = NULL])
  /\ UNCHANGED <<keyTable, fieldOf, liveTabs, lostKeys, driver>>

(* The loop over the fields is over: kOK. *)
ReturnOK(t) ==
  /\ pc[t] \in {"fresh", "insert", "update"} /\ loc[t].todo = <<>>
  /\ Return(t)
  /\ UNCHANGED <<keyTable, heap, driver, ub>>

-----------------------------------------------------------------------------
(* Read() and Scan(). *)

(* key_table_->Entries(key, len): the key's table and some that follow it. *)
ScanEntries(t) ==
  /\ Goto(t, "entries", "scan")
  /\ LET k == loc[t].key
         there == {x \in Keys : keyTable[x] # NULL}
     IN  \E S \in SUBSET there :
           /\ Cardinality(S) <= ScanLen
           /\ IF k \in there /\ ScanLen > 0 THEN k \in S ELSE S = {}
           /\ Set(t, [loc[t] EXCEPT !.scan = {keyTable[x] : x \in S}])
  /\ UNCHANGED <<keyTable, heap, driver, ub>>

ScanNext(t) ==
  /\ pc[t] = "scan"
  /\ \/ \E n \in loc[t].scan :
          /\ pc' = [pc EXCEPT ![t] = "visit"]
          /\ Set(t, [loc[t] EXCEPT !.tab = n, !.scan = @ \ {n}])
     \/ loc[t].scan = {} /\ Return(t)
  /\ UNCHANGED <<keyTable, heap, driver, ub>>

(* Without a field vector, Entries() of the field table, in one step. *)
Visit(t) ==
  /\ pc[t] = "visit"
  /\ IF loc[t].fields = <<>>
       THEN /\ pc' = [pc EXCEPT ![t] = "copy"]
            /\ Set(t, [loc[t] EXCEPT !.ptrs = Entries(loc[t].tab)])
            /\ UsesTab(t)
       ELSE /\ pc' = [pc EXCEPT ![t] = "field"]
            /\ Set(t, [loc[t] EXCEPT !.todo = loc[t].fields])
            /\ UNCHANGED ub
  /\ UNCHANGED <<keyTable, heap, driver>>

(* With one, Get() field by field, skipping what is not there. *)
GetField(t) ==
  /\ Goto(t, "field", "copy") /\ loc[t].todo # <<>>
  /\ Set(t, [Skipped(t) EXCEPT !.ptrs =
               {e \in Entries(loc[t].tab) : e[1] = Head(loc[t].todo)}])
  /\ UsesTab(t)
  /\ UNCHANGED <<keyTable, heap, driver>>

(* make_pair() copies a string that the table no longer protects. *)
CopyResult(t) ==
  /\ pc[t] = "copy"
  /\ \E e \in loc[t].ptrs :
       /\ Set(t, [loc[t] EXCEPT !.ptrs = @ \ {e}])
       /\ Met("read", e[2] \notin liveStrs)
  /\ UNCHANGED <<keyTable, heap, pc, driver>>

EndCopy(t) ==
  /\ Goto(t, "copy", "field") /\ loc[t].ptrs = {}
  /\ UNCHANGED <<keyTable, heap, loc, driver, ub>>

EndFields(t) ==
  /\ pc[t] = "field" /\ loc[t].todo = <<>>
  /\ IF loc[t].op = "Scan"
       THEN pc' = [pc EXCEPT ![t] = "scan"] /\ UNCHANGED loc
       ELSE Return(t)
  /\ UNCHANGED <<keyTable, heap, driver, ub>>

-----------------------------------------------------------------------------
(* Delete(). *)

(* key_table_->Remove(), which frees its copy of the key: no key names the *)
(* table any more.                                                         *)
Remove(t) ==
  /\ pc[t] = "remove"
  /\ LET n == keyTable[loc[t].key]
     IN  IF n = NULL THEN Return(t)                       \* kErrorNoData
         ELSE /\ pc' = [pc EXCEPT ![t] = "destroy"]
              /\ Set(t, [loc[t] EXCEPT !.tab = n])
  /\ keyTable' = [keyTable EXCEPT ![loc[t].key] = NULL]
  /\ UNCHANGED <<heap, driver, ub>>

(* DeleteFieldHashtable(): every string it holds as a value, then the table. *)
Destroy(t) ==
  /\ pc[t] = "destroy"
  /\ DeleteStrings({e[2] : e \in Entries(loc[t].tab)})
  /\ liveTabs' = liveTabs \ {loc[t].tab}
  /\ fieldOf' = [fieldOf EXCEPT ![loc[t].tab] = NoFields]
  /\ LosesKey("Delete", Entries(loc[t].tab) # {})
  /\ Return(t)
  /\ UNCHANGED <<keyTable, driver>>

-----------------------------------------------------------------------------
Step(t) ==
  \/ Get(t) \/ Attach(t)
  \/ UpdateFresh(t) \/ InsertField(t) \/ InsertConflict(t)
  \/ UpdateField(t) \/ UpdateMissing(t) \/ DeleteOld(t)
  \/ ReturnOK(t)
  \/ ScanEntries(t) \/ ScanNext(t) \/ Visit(t)
  \/ GetField(t) \/ CopyResult(t) \/ EndCopy(t) \/ EndFields(t)
  \/ Remove(t) \/ Destroy(t)

Next ==
  \/ \E t \in Threads : Step(t)
  \/ \E t \in Threads, k \in Keys :
       LoadInsert(t, k)
  \/ LoadDone
  \/ \E t \in Threads, k \in Keys, fs \in FieldLists \cup {<<>>},
        op \in Operations : Call(t, op, k, fs)

Spec == Init /\ [][Next]_vars

-----------------------------------------------------------------------------
TypeOK ==
  /\ keyTable \in [Keys -> Tabs \cup {NULL}]
  /\ fieldOf \in [Tabs -> [Fields -> Strs \cup {NULL}]]
  /\ liveTabs \subseteq Tabs /\ liveStrs \subseteq Strs
  /\ content \in [Strs -> Threads \cup {NULL}]
  /\ lostKeys \subseteq Operations \cup {"Attach"}
  /\ \A t \in Threads :
       /\ (pc[t] = "idle") <=> (loc[t] = Idle)
       /\ loc[t].tab \in Tabs \cup {NULL} /\ loc[t].str \in Strs \cup {NULL}
       /\ loc[t].scan \subseteq Tabs /\ loc[t].stored \in Nat
       /\ loc[t].ptrs \subseteq Fields \X Strs
  /\ workload \in Workloads /\ toLoad \in [Threads -> SUBSET Keys]

(***************************************************************************)
(* Two conditions on a workload.  Separate: no thread deletes a record     *)
(* that another one uses, nor updates a record that another one reads; the *)
(* keys of a scan are any keys.  Undisputed: each record is loaded by one  *)
(* thread, and two threads write a record only when it was loaded.         *)
(***************************************************************************)
May(w, t, op, k) == <<op, k>> \in w.mix[t]
Separate(w) ==
  \A t, u \in Threads : t # u => \A j, k \in Keys :
    /\ May(w, t, "Delete", k) =>
         ~May(w, u, "Scan", j) /\ \A op \in Operations : ~May(w, u, op, k)
    /\ May(w, t, "Update", k) => ~May(w, u, "Scan", j) /\ ~May(w, u, "Read", k)
Undisputed(w) ==
  \A t, u \in Threads : t # u =>
    /\ w.load[t] \cap w.load[u] = {}
    /\ \A k \in Keys : (\E op, oq \in {"Update", "Insert"} : May(w, t, op, k) /\ May(w, u, oq, k))
         => \E v \in Threads : k \in w.load[v]

Attached == {keyTable[k] : k \in Keys} \ {NULL}
Reachable == UNION {{e[2] : e \in Entries(n)} : n \in Attached}

(***************************************************************************)
(* The database never holds a dangling pointer: every table a key names    *)
(* and every string such a table holds is allocated, and no two fields or  *)
(* keys share one, so that nothing is freed twice.                         *)
(***************************************************************************)
NoDanglingPointers ==
  /\ Attached \subseteq liveTabs /\ Reachable \subseteq liveStrs
  /\ \A j, k \in Keys : j # k /\ keyTable[j] # NULL => keyTable[j] # keyTable[k]
  /\ \A m, n \in Attached : \A f, g \in Fields :
       <<m, f>> # <<n, g>> /\ fieldOf[m][f] # NULL => fieldOf[m][f] # fieldOf[n][g]

(* No thread uses or frees a table or a string that has been freed. *)
NoUseAfterFree == ub = {}

(* Both: whatever the calls of two threads do between the locks, memory is *)
(* used and freed as it should.                                            *)
MemorySafe == NoDanglingPointers /\ NoUseAfterFree

(***************************************************************************)
(* What is lost.  When no call is under way, every table and every string  *)
(* that CopyString() made is still in the database.  A copy that a table   *)
(* makes of a key is lost by an Insert() that meets a field that is there, *)
(* outside the load phase, and by a Delete(), which frees none of the      *)
(* copies of the fields' names; nothing else loses one, neither the load   *)
(* phase nor an Update(), even of a record that it creates.                *)
(***************************************************************************)
NothingLeaked ==
  /\ (\A t \in Threads : pc[t] = "idle") => liveTabs = Attached /\ liveStrs = Reachable
  /\ \A op \in lostKeys : /\ op \in {"Insert", "Delete"}
                         /\ \E t \in Threads, k \in Keys : May(workload, t, op, k)

(***************************************************************************)
(* What db.h says of Read and Scan: what they store in the result are      *)
(* values of the record, never the content of freed memory.                *)
(***************************************************************************)
ResultsAreValues == "read" \notin ub

-----------------------------------------------------------------------------
(***************************************************************************)
(* The abstract store: a key has a record when it names a table, a field   *)
(* has the content of its string, and a call still has to write the fields *)
(* that have not reached the record.  An insert is over for its client     *)
(* when the table has refused a field: only the copy is left to delete.    *)
(***************************************************************************)
Store ==
  [k \in Keys |-> [f \in Fields |->
     IF keyTable[k] = NULL \/ fieldOf[keyTable[k]][f] = NULL THEN NULL
     ELSE content[fieldOf[keyTable[k]][f]]]]
Present == {k \in Keys : keyTable[k] # NULL}
Refused(l) == l.op = "Insert" /\ l.str # NULL
AbsCall ==
  [t \in Threads |->
     IF loc[t].op \notin {"Update", "Insert"} \/ Refused(loc[t]) THEN NULL
     ELSE [op |-> loc[t].op, key |-> loc[t].key,
           todo |-> SubSeq(loc[t].fields, loc[t].stored + 1, Len(loc[t].fields))]]

Abs == INSTANCE RecordStore WITH
  Contents <- Threads,
  FieldLists <- FieldLists \cup {AllFields},
  store <- Store, present <- Present, call <- AbsCall

(* The hash tables implement the record store that db.h describes. *)
ImplementsRecordStore ==
  Abs!AbsInit([k \in Keys |-> NoFields], {}) /\ [][Abs!AbsNext]_(Abs!absVars)

=============================================================================
