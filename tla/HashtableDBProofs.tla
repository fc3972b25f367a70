------------------------- MODULE HashtableDBProofs --------------------------
(***************************************************************************)
(* Proofs about HashtableDB, for any threads, records, fields, cells and   *)
(* workloads.  The types hold whatever the threads do.  That memory is     *)
(* used as it should, that nothing is leaked, and that the tables          *)
(* implement RecordStore, holds for the workloads that keep to what the    *)
(* locks protect: Separate and Undisputed.                                 *)
(***************************************************************************)
EXTENDS HashtableDB, SequenceTheorems, TLAPS

-----------------------------------------------------------------------------
(* Where a call of each operation can be, and what its locals hold there.  *)

Places ==
  {"idle", "remove", "destroy", "entries", "scan", "get", "attach", "fresh", "update",
   "missing", "delete", "insert", "visit", "copy", "field"}
Locals ==
  [op : Operations \cup {NULL}, key : Keys \cup {NULL}, fields : Seq(Fields), todo : Seq(Fields),
   tab : Tabs \cup {NULL}, str : Strs \cup {NULL}, ptrs : SUBSET (Fields \X Strs),
   scan : SUBSET Tabs, stored : Nat]

(* The places where the thread has a table or a string in its hands. *)
Holding == {"fresh", "insert", "update", "missing", "delete", "visit", "copy", "field", "destroy"}

OpsAt(p) ==
  CASE p \in {"remove", "destroy"} -> {"Delete"}
    [] p \in {"entries", "scan"} -> {"Scan"}
    [] p = "get" -> {"Read", "Update", "Insert"}
    [] p = "attach" -> {"Update", "Insert"}
    [] p \in {"fresh", "update", "missing"} -> {"Update"}
    [] p = "delete" -> {"Update", "Insert"}
    [] p = "insert" -> {"Insert"}
    [] OTHER -> {"Read", "Scan"}

(* The call is one that the load phase, or the workload, makes. *)
Called(t, l) ==
  IF loading THEN l.op = "Insert" /\ l.key \in workload.load[t] ELSE May(workload, t, l.op, l.key)

Busy(t, p, l) ==
  /\ l.op \in Operations /\ l.op \in OpsAt(p) /\ l.key \in Keys /\ Called(t, l)
  /\ p \in Holding => l.tab \in Tabs
  /\ p \in {"missing", "delete"} => l.str \in Strs
  /\ p = "missing" => l.todo # <<>>
Consistent(t, p, l) == IF p = "idle" THEN l = Idle ELSE Busy(t, p, l)

HeapType ==
  /\ keyTable \in [Keys -> Tabs \cup {NULL}]
  /\ fieldOf \in [Tabs -> [Fields -> Strs \cup {NULL}]]
  /\ liveTabs \subseteq Tabs /\ liveStrs \subseteq Strs
  /\ content \in [Strs -> Threads \cup {NULL}]
ThreadType == pc \in [Threads -> Places] /\ loc \in [Threads -> Locals]
DriverType ==
  /\ workload \in Workloads /\ toLoad \in [Threads -> SUBSET Keys]
  /\ \A t \in Threads : toLoad[t] \subseteq workload.load[t] /\ (~loading => toLoad[t] = {})
Control == \A t \in Threads : Consistent(t, pc[t], loc[t])

TInv == HeapType /\ ThreadType /\ DriverType /\ Control

(* NULL is not among the values it stands apart from. *)
LEMMA Nothing == NULL \notin Threads /\ NULL \notin Strs /\ NULL \notin Tabs /\ NULL \notin Keys
  BY NULLIsNothing

LEMMA IdleType == Idle \in Locals
  <1>1. <<>> \in Seq(Fields)
    OBVIOUS
  <1> QED BY <1>1 DEF Idle, Locals

(* The parts of a thread's locals. *)
LEMMA LocalsParts ==
  ASSUME NEW l \in Locals
  PROVE  /\ l.fields \in Seq(Fields) /\ l.todo \in Seq(Fields)
         /\ l.tab \in Tabs \cup {NULL} /\ l.str \in Strs \cup {NULL} /\ l.key \in Keys \cup {NULL}
         /\ l.ptrs \subseteq Fields \X Strs /\ l.scan \subseteq Tabs /\ l.stored \in Nat
  BY DEF Locals

LEMMA HeadTail ==
  ASSUME NEW s \in Seq(Fields), s # <<>>
  PROVE  Head(s) \in Fields /\ Tail(s) \in Seq(Fields)
  BY HeadTailProperties

(* The thread is now at p with locals l, and the other threads where they were. *)
Moved(t, p, l) ==
  /\ pc'[t] = p /\ loc'[t] = l
  /\ \A u \in Threads \ {t} : pc'[u] = pc[u] /\ loc'[u] = loc[u]

(***************************************************************************)
(* A step of one thread keeps the types when what it does to its place and *)
(* its locals is consistent.                                               *)
(***************************************************************************)
LEMMA ThreadStep ==
  ASSUME TInv, NEW t \in Threads, NEW p \in Places, NEW l \in Locals,
         pc' = [pc EXCEPT ![t] = p], loc' = [loc EXCEPT ![t] = l],
         Consistent(t, p, l), UNCHANGED driver, HeapType'
  PROVE  TInv' /\ Moved(t, p, l)
  <1>1. ThreadType /\ DriverType /\ Control
    BY DEF TInv
  <1>2. pc'[t] = p /\ loc'[t] = l /\ \A u \in Threads \ {t} : pc'[u] = pc[u] /\ loc'[u] = loc[u]
    BY <1>1 DEF ThreadType
  <1>3. ThreadType'
    BY <1>1 DEF ThreadType
  <1>4. UNCHANGED <<workload, toLoad, loading>>
    BY DEF driver
  <1>5. DriverType'
    BY <1>1, <1>4 DEF DriverType
  <1>6. \A u \in Threads : Consistent(u, pc'[u], loc'[u])
    BY <1>1, <1>2 DEF Control
  <1>7. Control'
    BY <1>4, <1>6 DEF Control, Consistent, Busy, Called, May
  <1> QED BY <1>2, <1>3, <1>5, <1>7 DEF TInv, Moved

(* The call goes on at another place. *)
LEMMA GoesOn ==
  ASSUME TInv, NEW t \in Threads, pc[t] # "idle", NEW p \in Places \ {"idle"}, NEW l \in Locals,
         pc' = [pc EXCEPT ![t] = p], loc' = [loc EXCEPT ![t] = l],
         l.op = loc[t].op, l.key = loc[t].key, loc[t].op \in OpsAt(p),
         p \in Holding => l.tab \in Tabs,
         p \in {"missing", "delete"} => l.str \in Strs,
         p = "missing" => l.todo # <<>>,
         UNCHANGED driver, HeapType'
  PROVE  TInv' /\ Moved(t, p, l)
  <1>1. Busy(t, pc[t], loc[t])
    BY DEF TInv, Control, Consistent
  <1>2. Called(t, l)
    BY <1>1 DEF Busy, Called
  <1>3. Busy(t, p, l)
    BY <1>1, <1>2 DEF Busy
  <1>4. Consistent(t, p, l)
    BY <1>3 DEF Consistent
  <1> QED BY <1>4, ThreadStep

(* The call is over. *)
LEMMA Returns ==
  ASSUME TInv, NEW t \in Threads, Return(t), UNCHANGED driver, HeapType'
  PROVE  TInv' /\ Moved(t, "idle", Idle)
  <1>1. "idle" \in Places
    BY DEF Places
  <1>2. Consistent(t, "idle", Idle)
    BY DEF Consistent
  <1>3. pc' = [pc EXCEPT ![t] = "idle"] /\ loc' = [loc EXCEPT ![t] = Idle]
    BY DEF Return, Set
  <1> QED BY <1>1, <1>2, <1>3, IdleType, ThreadStep

(* What is known of a thread inside a call. *)
LEMMA BusyFacts ==
  ASSUME TInv, NEW t \in Threads, pc[t] # "idle"
  PROVE  /\ loc[t] \in Locals /\ Busy(t, pc[t], loc[t])
         /\ loc[t].key \in Keys /\ loc[t].op \in Operations /\ loc[t].op \in OpsAt(pc[t])
         /\ loc[t].fields \in Seq(Fields) /\ loc[t].todo \in Seq(Fields)
         /\ loc[t].tab \in Tabs \cup {NULL} /\ loc[t].str \in Strs \cup {NULL}
         /\ loc[t].ptrs \subseteq Fields \X Strs /\ loc[t].scan \subseteq Tabs
         /\ loc[t].stored \in Nat
         /\ pc[t] \in Holding => loc[t].tab \in Tabs
         /\ pc[t] \in {"missing", "delete"} => loc[t].str \in Strs
  <1>1. loc[t] \in Locals
    BY DEF TInv, ThreadType
  <1>2. Busy(t, pc[t], loc[t])
    BY DEF TInv, Control, Consistent
  <1> QED BY <1>1, <1>2, LocalsParts DEF Busy

LEMMA HeapParts ==
  ASSUME TInv
  PROVE  /\ keyTable \in [Keys -> Tabs \cup {NULL}]
         /\ fieldOf \in [Tabs -> [Fields -> Strs \cup {NULL}]]
         /\ liveTabs \subseteq Tabs /\ liveStrs \subseteq Strs
         /\ content \in [Strs -> Threads \cup {NULL}]
  BY DEF TInv, HeapType

-----------------------------------------------------------------------------
(* What each action does to the types, and where it leaves the thread. *)

(* Actions that leave the hash tables and the heap alone. *)
LEMMA SameHeap ==
  ASSUME TInv, UNCHANGED <<keyTable, heap>>
  PROVE  HeapType'
  BY DEF TInv, HeapType, heap

LEMMA BeginType ==
  ASSUME TInv, NEW t \in Threads, NEW op \in Operations, NEW k \in Keys,
         NEW fs \in Seq(Fields), Begin(t, op, k, fs), UNCHANGED <<keyTable, heap, workload, loading>>,
         toLoad' \in [Threads -> SUBSET Keys],
         \A u \in Threads : toLoad'[u] \subseteq toLoad[u],
         IF loading THEN op = "Insert" /\ k \in workload.load[t] ELSE May(workload, t, op, k)
  PROVE  /\ TInv'
         /\ \E l \in Locals :
              /\ Moved(t, pc'[t], l) /\ l.op = op /\ l.key = k /\ l.fields = fs
              /\ l.todo = (IF op \in {"Update", "Insert"} THEN fs ELSE <<>>)
              /\ pc'[t] = (CASE op = "Delete" -> "remove"
                             [] op = "Scan" -> "entries" [] OTHER -> "get")
  <1> DEFINE p == CASE op = "Delete" -> "remove" [] op = "Scan" -> "entries" [] OTHER -> "get"
             todo == IF op \in {"Update", "Insert"} THEN fs ELSE <<>>
             l == [Idle EXCEPT !.op = op, !.key = k, !.fields = fs, !.todo = todo]
  <1>1. pc[t] = "idle" /\ pc' = [pc EXCEPT ![t] = p] /\ loc' = [loc EXCEPT ![t] = l]
    BY DEF Begin, Set
  <1>2. todo \in Seq(Fields)
    <2>1. <<>> \in Seq(Fields)
      OBVIOUS
    <2> QED BY <2>1
  <1>3. p \in Places \ {"idle"} /\ op \in OpsAt(p) /\ p \notin Holding
        /\ p \notin {"missing", "delete"}
    BY DEF Places, OpsAt, Operations, Holding
  <1> HIDE DEF todo, p
  <1>4. l \in Locals
    BY <1>2, IdleType DEF Locals
  <1>5. l.op = op /\ l.key = k /\ l.fields = fs /\ l.todo = todo
    BY DEF Idle
  <1> HIDE DEF l
  <1>6. ThreadType /\ DriverType /\ Control
    BY DEF TInv
  <1>7. Moved(t, p, l)
    BY <1>1, <1>6 DEF Moved, ThreadType
  <1>8. ThreadType'
    BY <1>1, <1>3, <1>4, <1>6 DEF ThreadType
  <1>9. DriverType'
    BY <1>6 DEF DriverType
  <1>10. Called(t, l)
    BY <1>5 DEF Called
  <1>11. Busy(t, p, l)
    BY <1>3, <1>5, <1>10 DEF Busy
  <1>12. \A u \in Threads : Consistent(u, pc'[u], loc'[u])
    BY <1>3, <1>6, <1>7, <1>11 DEF Control, Consistent, Moved
  <1>13. Control'
    BY <1>12 DEF Control, Consistent, Busy, Called, May
  <1>14. TInv'
    BY <1>8, <1>9, <1>13, SameHeap DEF TInv
  <1>15. pc'[t] = p
    BY <1>7 DEF Moved
  <1> QED BY <1>4, <1>5, <1>7, <1>14, <1>15 DEF p, todo

LEMMA GetType ==
  ASSUME TInv, NEW t \in Threads, Get(t)
  PROVE  LET n == keyTable[loc[t].key] IN
         /\ TInv' /\ pc[t] = "get" /\ UNCHANGED <<keyTable, heap, driver, ub>>
         /\ \/ /\ n # NULL /\ pc'[t] \in {"visit", "update", "insert"}
               /\ Moved(t, pc'[t], [loc[t] EXCEPT !.tab = n]) /\ loc[t].op \in OpsAt(pc'[t])
            \/ n = NULL /\ loc[t].op # "Read" /\ Moved(t, "attach", loc[t])
            \/ n = NULL /\ loc[t].op = "Read" /\ Moved(t, "idle", Idle)
  <1> DEFINE n == keyTable[loc[t].key]
             l == [loc[t] EXCEPT !.tab = n]
             p == CASE l.op = "Read" -> "visit" [] l.op = "Update" -> "update"
                    [] l.op = "Insert" -> "insert"
  <1>1. pc[t] = "get" /\ UNCHANGED <<keyTable, heap, driver, ub>>
    BY DEF Get
  <1>2. /\ loc[t] \in Locals /\ loc[t].key \in Keys /\ loc[t].op \in {"Read", "Update", "Insert"}
    BY <1>1, BusyFacts DEF OpsAt
  <1>3. HeapType' /\ UNCHANGED driver
    BY <1>1, SameHeap
  <1>4. n \in Tabs \cup {NULL}
    BY <1>2, HeapParts
  <1>5. CASE n # NULL
    <2>1. pc' = [pc EXCEPT ![t] = p] /\ loc' = [loc EXCEPT ![t] = l]
      BY <1>5 DEF Get, Set
    <2>2. l \in Locals /\ l.op = loc[t].op /\ l.key = loc[t].key /\ l.tab = n
      BY <1>2, <1>4 DEF Locals
    <2>3. p \in {"visit", "update", "insert"} /\ loc[t].op \in OpsAt(p) /\ p \in Places \ {"idle"}
      BY <1>2, <2>2 DEF OpsAt, Places
    <2> HIDE DEF p, l
    <2>4. TInv' /\ Moved(t, p, l)
      BY <1>1, <1>3, <1>4, <1>5, <2>1, <2>2, <2>3, GoesOn
    <2>5. pc'[t] = p
      BY <2>4 DEF Moved
    <2> QED BY <1>1, <1>5, <2>3, <2>4, <2>5 DEF l
  <1>6. CASE n = NULL /\ loc[t].op = "Read"
    <2>1. Return(t)
      BY <1>6 DEF Get
    <2> QED BY <1>1, <1>3, <1>6, <2>1, Returns
  <1>7. CASE n = NULL /\ loc[t].op # "Read"
    <2>1. pc' = [pc EXCEPT ![t] = "attach"] /\ loc' = loc
      BY <1>7 DEF Get
    <2>2. loc' = [loc EXCEPT ![t] = loc[t]]
      BY <2>1 DEF TInv, ThreadType
    <2>3. "attach" \in Places \ {"idle"} /\ "attach" \notin Holding /\ loc[t].op \in OpsAt("attach")
      BY <1>2, <1>7 DEF Places, Holding, OpsAt
    <2>4. TInv' /\ Moved(t, "attach", loc[t])
      BY <1>1, <1>2, <1>3, <2>1, <2>2, <2>3, GoesOn
    <2> QED BY <1>1, <1>7, <2>4
  <1> QED BY <1>5, <1>6, <1>7

LEMMA AttachType ==
  ASSUME TInv, NEW t \in Threads, Attach(t)
  PROVE  /\ TInv' /\ pc[t] = "attach" /\ UNCHANGED <<liveStrs, content, driver, ub>>
         /\ \E n \in Tabs \ liveTabs :
              /\ liveTabs' = liveTabs \cup {n}
              /\ fieldOf' = [fieldOf EXCEPT ![n] = NoFields]
              /\ keyTable' = [keyTable EXCEPT ![loc[t].key] = IF @ = NULL THEN n ELSE @]
              /\ Moved(t, pc'[t], [loc[t] EXCEPT !.tab = n])
              /\ pc'[t] \in {"fresh", "insert"} /\ loc[t].op \in OpsAt(pc'[t])
  <1> DEFINE p == IF loc[t].op = "Update" THEN "fresh" ELSE "insert"
  <1>1. pc[t] = "attach" /\ UNCHANGED <<liveStrs, content, driver, ub>>
        /\ pc' = [pc EXCEPT ![t] = p]
    BY DEF Attach, Goto
  <1>2. PICK n \in Tabs \ liveTabs :
          /\ liveTabs' = liveTabs \cup {n}
          /\ fieldOf' = [fieldOf EXCEPT ![n] = NoFields]
          /\ keyTable' = [keyTable EXCEPT ![loc[t].key] = IF @ = NULL THEN n ELSE @]
          /\ loc' = [loc EXCEPT ![t] = [loc[t] EXCEPT !.tab = n]]
    BY DEF Attach, Set
  <1> DEFINE l == [loc[t] EXCEPT !.tab = n]
  <1>3. loc[t] \in Locals /\ loc[t].key \in Keys /\ loc[t].op \in {"Update", "Insert"}
    BY <1>1, BusyFacts DEF OpsAt
  <1>4. HeapType'
    <2>1. NoFields \in [Fields -> Strs \cup {NULL}]
      BY DEF NoFields
    <2>2. keyTable' \in [Keys -> Tabs \cup {NULL}] /\ liveTabs' \subseteq Tabs
      BY <1>2, <1>3, HeapParts
    <2>3. fieldOf' \in [Tabs -> [Fields -> Strs \cup {NULL}]]
      BY <1>2, <2>1, HeapParts
    <2> QED BY <1>1, <2>2, <2>3, HeapParts DEF HeapType
  <1>5. l \in Locals /\ l.op = loc[t].op /\ l.key = loc[t].key /\ l.tab = n
    BY <1>3 DEF Locals
  <1>6. p \in {"fresh", "insert"} /\ loc[t].op \in OpsAt(p) /\ p \in Places \ {"idle"}
    BY <1>3 DEF OpsAt, Places
  <1> HIDE DEF p, l
  <1>7. TInv' /\ Moved(t, p, l)
    BY <1>1, <1>2, <1>4, <1>5, <1>6, GoesOn DEF l
  <1>8. pc'[t] = p
    BY <1>7 DEF Moved
  <1> QED BY <1>1, <1>2, <1>6, <1>7, <1>8 DEF l

(* Copying a string, and putting it in a field table. *)
LEMMA CopyType ==
  ASSUME TInv, NEW t \in Threads, NEW s \in Strs, CopyString(t, s)
  PROVE  liveStrs' \subseteq Strs /\ content' \in [Strs -> Threads \cup {NULL}]
  BY HeapParts DEF CopyString

(* s is now the string of field f of table n, and the other fields are as before. *)
Stores(n, f, s) ==
  /\ fieldOf'[n][f] = s
  /\ \A j \in Tabs, g \in Fields : <<j, g>> # <<n, f>> => fieldOf'[j][g] = fieldOf[j][g]

LEMMA StoreType ==
  ASSUME TInv, NEW n \in Tabs, NEW f \in Fields, NEW s \in Strs,
         fieldOf' = [fieldOf EXCEPT ![n][f] = s]
  PROVE  fieldOf' \in [Tabs -> [Fields -> Strs \cup {NULL}]] /\ Stores(n, f, s)
  BY HeapParts DEF Stores

(* The locals once the next field is dealt with. *)
AtNext(t, l, str) ==
  /\ l.op = loc[t].op /\ l.key = loc[t].key /\ l.tab = loc[t].tab
  /\ l.todo = Tail(loc[t].todo) /\ l.str = str

LEMMA NextFieldType ==
  ASSUME TInv, NEW t \in Threads, pc[t] # "idle", loc[t].todo # <<>>, NEW str \in Strs \cup {NULL}
  PROVE  /\ [Written(t) EXCEPT !.str = str] \in Locals
         /\ AtNext(t, [Written(t) EXCEPT !.str = str], str)
         /\ [Skipped(t) EXCEPT !.str = str] \in Locals
         /\ AtNext(t, [Skipped(t) EXCEPT !.str = str], str)
  <1>1. loc[t] \in Locals
    BY BusyFacts
  <1>2. Head(loc[t].todo) \in Fields /\ Tail(loc[t].todo) \in Seq(Fields)
    BY BusyFacts, HeadTail
  <1> DEFINE st == IF keyTable[loc[t].key] = loc[t].tab
                     THEN loc[t].stored + 1 ELSE loc[t].stored
  <1>3. st \in Nat
    BY <1>2, BusyFacts
  <1>4. Written(t) = [loc[t] EXCEPT !.todo = Tail(loc[t].todo), !.stored = st]
    BY <1>1 DEF Written, Locals
  <1> HIDE DEF st
  <1>5. [Written(t) EXCEPT !.str = str] \in Locals
        /\ AtNext(t, [Written(t) EXCEPT !.str = str], str)
    BY <1>1, <1>2, <1>3, <1>4 DEF Locals, AtNext
  <1>6. [Skipped(t) EXCEPT !.str = str] \in Locals
        /\ AtNext(t, [Skipped(t) EXCEPT !.str = str], str)
    BY <1>1, <1>2 DEF Locals, Skipped, AtNext
  <1> QED BY <1>5, <1>6

(* A new string goes to the field, which held nothing, or to nobody. *)
Fills(t, s) ==
  /\ fieldOf[loc[t].tab][Head(loc[t].todo)] = NULL
  /\ fieldOf' = [fieldOf EXCEPT ![loc[t].tab][Head(loc[t].todo)] = s]
Drops(t) ==
  /\ fieldOf[loc[t].tab][Head(loc[t].todo)] # NULL /\ fieldOf' = fieldOf

LEMMA FieldInsertType ==
  ASSUME TInv, NEW t \in Threads, pc[t] \in Holding, pc[t] # "idle", loc[t].todo # <<>>,
         NEW s \in Strs, FieldInsert(t, s)
  PROVE  /\ fieldOf' \in [Tabs -> [Fields -> Strs \cup {NULL}]]
         /\ Fills(t, s) \/ Drops(t)
         /\ \E l \in Locals : loc' = [loc EXCEPT ![t] = l] /\ AtNext(t, l, NULL)
  <1>1. loc[t].tab \in Tabs /\ Head(loc[t].todo) \in Fields
    BY BusyFacts, HeadTail
  <1>2. CASE fieldOf[loc[t].tab][Head(loc[t].todo)] = NULL
    <2>1. Fills(t, s) /\ loc' = [loc EXCEPT ![t] = [Written(t) EXCEPT !.str = NULL]]
      BY <1>2 DEF FieldInsert, NextHeld, Set, Fills
    <2>2. [Written(t) EXCEPT !.str = NULL] \in Locals
          /\ AtNext(t, [Written(t) EXCEPT !.str = NULL], NULL)
      BY NextFieldType
    <2>3. fieldOf' \in [Tabs -> [Fields -> Strs \cup {NULL}]]
      BY <1>1, <2>1, StoreType DEF Fills
    <2> QED BY <2>1, <2>2, <2>3
  <1>3. CASE fieldOf[loc[t].tab][Head(loc[t].todo)] # NULL
    <2>1. Drops(t) /\ loc' = [loc EXCEPT ![t] = [Skipped(t) EXCEPT !.str = NULL]]
      BY <1>3 DEF FieldInsert, NextHeld, Set, Drops
    <2>2. [Skipped(t) EXCEPT !.str = NULL] \in Locals
          /\ AtNext(t, [Skipped(t) EXCEPT !.str = NULL], NULL)
      BY NextFieldType
    <2> QED BY <2>1, <2>2, HeapParts DEF Drops
  <1> QED BY <1>2, <1>3

(* UpdateFresh(), and InsertField() of a field that is not there. *)
LEMMA NewFieldType ==
  ASSUME TInv, NEW t \in Threads,
         \/ UpdateFresh(t)
         \/ InsertField(t) /\ fieldOf[loc[t].tab][Head(loc[t].todo)] = NULL
  PROVE  /\ TInv' /\ pc[t] \in {"fresh", "insert"} /\ loc[t].todo # <<>> /\ UsesTab(t)
         /\ UNCHANGED <<keyTable, liveTabs, driver>>
         /\ \E s \in Strs : CopyString(t, s) /\ (Fills(t, s) \/ (pc[t] = "fresh" /\ Drops(t)))
         /\ \E l \in Locals : Moved(t, pc[t], l) /\ AtNext(t, l, NULL)
  <1>1. /\ pc[t] \in {"fresh", "insert"} /\ loc[t].todo # <<>> /\ UsesTab(t)
        /\ UNCHANGED <<keyTable, liveTabs, driver>> /\ pc' = pc
    BY DEF UpdateFresh, InsertField, NextHeld
  <1>2. PICK s \in Strs : CopyString(t, s) /\ FieldInsert(t, s)
    BY DEF UpdateFresh, InsertField, NextHeld
  <1>3. pc[t] \in Holding /\ pc[t] # "idle"
    BY <1>1 DEF Holding
  <1>4. /\ fieldOf' \in [Tabs -> [Fields -> Strs \cup {NULL}]]
        /\ Fills(t, s) \/ Drops(t)
        /\ \E l \in Locals : loc' = [loc EXCEPT ![t] = l] /\ AtNext(t, l, NULL)
    BY <1>1, <1>2, <1>3, FieldInsertType
  <1>5. PICK l \in Locals : loc' = [loc EXCEPT ![t] = l] /\ AtNext(t, l, NULL)
    BY <1>4
  <1>6. HeapType'
    BY <1>1, <1>2, <1>4, CopyType, HeapParts DEF HeapType
  <1>7. pc' = [pc EXCEPT ![t] = pc[t]] /\ pc[t] \in Places \ {"idle"}
    BY <1>1 DEF TInv, ThreadType
  <1>8. loc[t].tab \in Tabs /\ loc[t].op \in OpsAt(pc[t])
    BY <1>3, BusyFacts
  <1>9. TInv' /\ Moved(t, pc[t], l)
    BY <1>1, <1>3, <1>5, <1>6, <1>7, <1>8, GoesOn DEF AtNext
  <1>10. pc[t] = "insert" => Fills(t, s)
    <2>1. pc[t] = "insert" => InsertField(t) /\ fieldOf[loc[t].tab][Head(loc[t].todo)] = NULL
      BY DEF UpdateFresh
    <2> QED BY <1>4, <2>1 DEF Drops
  <1> QED BY <1>1, <1>2, <1>4, <1>5, <1>9, <1>10

(* InsertField() of a field that is there. *)
LEMMA ConflictType ==
  ASSUME TInv, NEW t \in Threads, InsertField(t), fieldOf[loc[t].tab][Head(loc[t].todo)] # NULL
  PROVE  /\ TInv' /\ pc[t] = "insert" /\ loc[t].todo # <<>> /\ UsesTab(t)
         /\ UNCHANGED <<keyTable, fieldOf, liveTabs, driver>>
         /\ \E s \in Strs : CopyString(t, s) /\ Moved(t, "delete", [loc[t] EXCEPT !.str = s])
  <1>1. /\ pc[t] = "insert" /\ loc[t].todo # <<>> /\ UsesTab(t)
        /\ UNCHANGED <<keyTable, liveTabs, driver>>
    BY DEF InsertField
  <1>2. PICK s \in Strs :
          /\ CopyString(t, s) /\ fieldOf' = fieldOf /\ pc' = [pc EXCEPT ![t] = "delete"]
          /\ loc' = [loc EXCEPT ![t] = [loc[t] EXCEPT !.str = s]]
    BY DEF InsertField, NextHeld, Set
  <1>3. PICK l : l = [loc[t] EXCEPT !.str = s]
    OBVIOUS
  <1>4. /\ pc[t] # "idle" /\ pc[t] \in Holding /\ loc[t] \in Locals /\ loc[t].op = "Insert"
        /\ loc[t].tab \in Tabs
    BY <1>1, BusyFacts DEF Holding, OpsAt
  <1>5. /\ l \in Locals /\ l.tab = loc[t].tab /\ l.str = s /\ l.op = loc[t].op
        /\ l.key = loc[t].key
    BY <1>3, <1>4 DEF Locals
  <1>6. "delete" \in Places \ {"idle"} /\ loc[t].op \in OpsAt("delete")
    BY <1>4 DEF Places, OpsAt
  <1>7. HeapType'
    BY <1>1, <1>2, CopyType, HeapParts DEF HeapType
  <1>8. loc' = [loc EXCEPT ![t] = l] /\ pc' = [pc EXCEPT ![t] = "delete"]
    BY <1>2, <1>3
  <1>9. TInv' /\ Moved(t, "delete", l)
    BY <1>1, <1>4, <1>5, <1>6, <1>7, <1>8, GoesOn
  <1> QED BY <1>1, <1>2, <1>3, <1>9

LEMMA UpdateFieldType ==
  ASSUME TInv, NEW t \in Threads, UpdateField(t)
  PROVE  LET n == loc[t].tab
             f == Head(loc[t].todo)
         IN /\ TInv' /\ pc[t] = "update" /\ loc[t].todo # <<>> /\ UsesTab(t)
            /\ UNCHANGED <<keyTable, liveTabs, driver>>
            /\ \E s \in Strs, l \in Locals : CopyString(t, s) /\
                 \/ /\ fieldOf[n][f] # NULL /\ fieldOf' = [fieldOf EXCEPT ![n][f] = s]
                    /\ Moved(t, "delete", l) /\ AtNext(t, l, fieldOf[n][f])
                 \/ /\ fieldOf[n][f] = NULL /\ fieldOf' = fieldOf
                    /\ Moved(t, "missing", l)
                    /\ l = [loc[t] EXCEPT !.str = s]
  <1> DEFINE n == loc[t].tab
             f == Head(loc[t].todo)
             old == fieldOf[n][f]
  <1>1. /\ pc[t] = "update" /\ loc[t].todo # <<>> /\ UsesTab(t)
        /\ UNCHANGED <<keyTable, liveTabs, driver>>
    BY DEF UpdateField
  <1>2. PICK s \in Strs :
          /\ CopyString(t, s)
          /\ IF old # NULL
               THEN /\ fieldOf' = [fieldOf EXCEPT ![n][f] = s]
                    /\ pc' = [pc EXCEPT ![t] = "delete"]
                    /\ loc' = [loc EXCEPT ![t] = [Written(t) EXCEPT !.str = old]]
               ELSE /\ pc' = [pc EXCEPT ![t] = "missing"]
                    /\ loc' = [loc EXCEPT ![t] = [loc[t] EXCEPT !.str = s]]
                    /\ fieldOf' = fieldOf
    BY DEF UpdateField, Set
  <1>3. /\ pc[t] # "idle" /\ pc[t] \in Holding /\ loc[t] \in Locals /\ loc[t].op = "Update"
        /\ n \in Tabs /\ f \in Fields
    BY <1>1, BusyFacts, HeadTail DEF Holding, OpsAt
  <1>4. old \in Strs \cup {NULL}
    BY <1>3, HeapParts
  <1>5. /\ "delete" \in Places \ {"idle"} /\ "missing" \in Places \ {"idle"}
        /\ loc[t].op \in OpsAt("delete") /\ loc[t].op \in OpsAt("missing")
    BY <1>3 DEF Places, OpsAt
  <1> HIDE DEF old, n, f
  <1>6. CASE old # NULL
    <2> DEFINE l == [Written(t) EXCEPT !.str = old]
    <2>1. l \in Locals /\ AtNext(t, l, old)
      BY <1>1, <1>3, <1>4, NextFieldType
    <2>2. fieldOf' \in [Tabs -> [Fields -> Strs \cup {NULL}]]
      BY <1>2, <1>3, <1>6, StoreType
    <2>3. HeapType'
      BY <1>1, <1>2, <2>2, CopyType, HeapParts DEF HeapType
    <2>4. loc' = [loc EXCEPT ![t] = l] /\ pc' = [pc EXCEPT ![t] = "delete"]
          /\ fieldOf' = [fieldOf EXCEPT ![n][f] = s]
      BY <1>2, <1>6
    <2> HIDE DEF l
    <2>5. l.tab \in Tabs /\ l.str \in Strs /\ l.op = loc[t].op /\ l.key = loc[t].key
      BY <1>3, <1>4, <1>6, <2>1 DEF AtNext, n
    <2>6. TInv' /\ Moved(t, "delete", l)
      BY <1>1, <1>3, <1>5, <2>1, <2>3, <2>4, <2>5, GoesOn
    <2> QED BY <1>1, <1>2, <1>6, <2>1, <2>4, <2>6 DEF old, n, f
  <1>7. CASE old = NULL
    <2> DEFINE l == [loc[t] EXCEPT !.str = s]
    <2>1. /\ l \in Locals /\ l.tab = loc[t].tab /\ l.str = s /\ l.op = loc[t].op
          /\ l.key = loc[t].key /\ l.todo = loc[t].todo
      BY <1>3 DEF Locals
    <2>2. loc' = [loc EXCEPT ![t] = l] /\ pc' = [pc EXCEPT ![t] = "missing"] /\ fieldOf' = fieldOf
      BY <1>2, <1>7
    <2>3. HeapType'
      BY <1>1, <1>2, <2>2, CopyType, HeapParts DEF HeapType
    <2> HIDE DEF l
    <2>4. l.tab \in Tabs
      BY <1>3, <2>1 DEF n
    <2>5. TInv' /\ Moved(t, "missing", l)
      BY <1>1, <1>3, <1>5, <2>1, <2>2, <2>3, <2>4, GoesOn
    <2> QED BY <1>1, <1>2, <1>7, <2>1, <2>2, <2>5 DEF old, n, f, l
  <1> QED BY <1>6, <1>7

LEMMA UpdateMissingType ==
  ASSUME TInv, NEW t \in Threads, UpdateMissing(t)
  PROVE  /\ TInv' /\ pc[t] = "missing" /\ loc[t].todo # <<>> /\ UsesTab(t)
         /\ UNCHANGED <<keyTable, liveTabs, liveStrs, content, driver>>
         /\ Fills(t, loc[t].str) \/ Drops(t)
         /\ \E l \in Locals : Moved(t, "update", l) /\ AtNext(t, l, NULL)
  <1>1. /\ pc[t] = "missing" /\ UsesTab(t) /\ FieldInsert(t, loc[t].str)
        /\ UNCHANGED <<keyTable, liveTabs, liveStrs, content, driver>>
        /\ pc' = [pc EXCEPT ![t] = "update"]
    BY DEF UpdateMissing, Goto
  <1>2. /\ pc[t] # "idle" /\ pc[t] \in Holding /\ loc[t].op = "Update" /\ loc[t].str \in Strs
        /\ loc[t].todo # <<>> /\ loc[t].tab \in Tabs
    BY <1>1, BusyFacts DEF Holding, OpsAt, Busy
  <1>3. /\ fieldOf' \in [Tabs -> [Fields -> Strs \cup {NULL}]]
        /\ Fills(t, loc[t].str) \/ Drops(t)
        /\ \E l \in Locals : loc' = [loc EXCEPT ![t] = l] /\ AtNext(t, l, NULL)
    BY <1>1, <1>2, FieldInsertType
  <1>4. PICK l \in Locals : loc' = [loc EXCEPT ![t] = l] /\ AtNext(t, l, NULL)
    BY <1>3
  <1>5. HeapType'
    BY <1>1, <1>3, HeapParts DEF HeapType
  <1>6. "update" \in Places \ {"idle"} /\ loc[t].op \in OpsAt("update")
    BY <1>2 DEF Places, OpsAt
  <1>7. TInv' /\ Moved(t, "update", l)
    BY <1>1, <1>2, <1>4, <1>5, <1>6, GoesOn DEF AtNext
  <1> QED BY <1>1, <1>2, <1>3, <1>4, <1>7

LEMMA DeleteStringsType ==
  ASSUME TInv, NEW S, DeleteStrings(S)
  PROVE  liveStrs' \subseteq Strs /\ content' \in [Strs -> Threads \cup {NULL}]
  BY HeapParts DEF DeleteStrings

LEMMA DeleteOldType ==
  ASSUME TInv, NEW t \in Threads, DeleteOld(t)
  PROVE  /\ TInv' /\ pc[t] = "delete" /\ DeleteStrings({loc[t].str}) /\ loc[t].op = "Update"
         /\ UNCHANGED <<keyTable, fieldOf, liveTabs, driver>>
         /\ Moved(t, "update", [loc[t] EXCEPT !.str = NULL])
  <1> DEFINE l == [loc[t] EXCEPT !.str = NULL]
  <1>1. /\ pc[t] = "delete" /\ DeleteStrings({loc[t].str}) /\ loc[t].op = "Update"
        /\ UNCHANGED <<keyTable, fieldOf, liveTabs, driver>>
        /\ pc' = [pc EXCEPT ![t] = "update"] /\ loc' = [loc EXCEPT ![t] = l]
    BY DEF DeleteOld, Goto, Set
  <1>2. /\ pc[t] # "idle" /\ pc[t] \in Holding /\ loc[t].op = "Update" /\ loc[t] \in Locals
        /\ loc[t].tab \in Tabs
    BY <1>1, BusyFacts DEF Holding
  <1>3. l \in Locals /\ l.tab = loc[t].tab /\ l.op = loc[t].op /\ l.key = loc[t].key
    BY <1>2 DEF Locals
  <1>4. HeapType'
    BY <1>1, DeleteStringsType, HeapParts DEF HeapType
  <1>5. "update" \in Places \ {"idle"} /\ loc[t].op \in OpsAt("update")
    BY <1>2 DEF Places, OpsAt
  <1> HIDE DEF l
  <1>6. TInv' /\ Moved(t, "update", l)
    BY <1>1, <1>2, <1>3, <1>4, <1>5, GoesOn
  <1> QED BY <1>1, <1>6 DEF l

LEMMA RefusedType ==
  ASSUME TInv, NEW t \in Threads, InsertConflict(t)
  PROVE  /\ TInv' /\ pc[t] = "delete" /\ DeleteStrings({loc[t].str}) /\ loc[t].op = "Insert"
         /\ UNCHANGED <<keyTable, fieldOf, liveTabs, driver>> /\ Moved(t, "idle", Idle)
  <1>1. /\ pc[t] = "delete" /\ DeleteStrings({loc[t].str}) /\ loc[t].op = "Insert"
        /\ UNCHANGED <<keyTable, fieldOf, liveTabs, driver>> /\ Return(t)
    BY DEF InsertConflict
  <1>2. HeapType'
    BY <1>1, DeleteStringsType, HeapParts DEF HeapType
  <1> QED BY <1>1, <1>2, Returns

LEMMA ReturnOKType ==
  ASSUME TInv, NEW t \in Threads, ReturnOK(t)
  PROVE  /\ TInv' /\ pc[t] \in {"fresh", "insert", "update"} /\ loc[t].todo = <<>>
         /\ UNCHANGED <<keyTable, heap, driver, ub>> /\ Moved(t, "idle", Idle)
  <1>1. /\ pc[t] \in {"fresh", "insert", "update"} /\ loc[t].todo = <<>>
        /\ UNCHANGED <<keyTable, heap, driver, ub>> /\ Return(t)
    BY DEF ReturnOK
  <1> QED BY <1>1, SameHeap, Returns

LEMMA ScanEntriesType ==
  ASSUME TInv, NEW t \in Threads, ScanEntries(t)
  PROVE  /\ TInv' /\ pc[t] = "entries" /\ UNCHANGED <<keyTable, heap, driver, ub>>
         /\ \E S \in SUBSET Keys :
              /\ \A x \in S : keyTable[x] # NULL
              /\ Moved(t, "scan", [loc[t] EXCEPT !.scan = {keyTable[x] : x \in S}])
  <1>1. /\ pc[t] = "entries" /\ UNCHANGED <<keyTable, heap, driver, ub>>
        /\ pc' = [pc EXCEPT ![t] = "scan"]
    BY DEF ScanEntries, Goto
  <1>2. PICK S \in SUBSET {x \in Keys : keyTable[x] # NULL} :
          loc' = [loc EXCEPT ![t] = [loc[t] EXCEPT !.scan = {keyTable[x] : x \in S}]]
    BY DEF ScanEntries, Set
  <1> DEFINE tabs == {keyTable[x] : x \in S}
             l == [loc[t] EXCEPT !.scan = tabs]
  <1>3. loc[t] \in Locals /\ loc[t].op = "Scan"
    BY <1>1, BusyFacts DEF OpsAt
  <1>4. tabs \subseteq Tabs
    BY HeapParts
  <1> HIDE DEF tabs
  <1>5. l \in Locals /\ l.op = loc[t].op /\ l.key = loc[t].key
    BY <1>3, <1>4 DEF Locals
  <1>6. "scan" \in Places \ {"idle"} /\ loc[t].op \in OpsAt("scan") /\ "scan" \notin Holding
    BY <1>3 DEF Places, OpsAt, Holding
  <1>7. loc' = [loc EXCEPT ![t] = l]
    BY <1>2 DEF tabs
  <1> HIDE DEF l
  <1>8. TInv' /\ Moved(t, "scan", l)
    BY <1>1, <1>5, <1>6, <1>7, SameHeap, GoesOn
  <1> QED BY <1>1, <1>8 DEF l, tabs

LEMMA ScanNextType ==
  ASSUME TInv, NEW t \in Threads, ScanNext(t)
  PROVE  /\ TInv' /\ pc[t] = "scan" /\ UNCHANGED <<keyTable, heap, driver, ub>>
         /\ \/ \E n \in loc[t].scan :
                 Moved(t, "visit", [loc[t] EXCEPT !.tab = n, !.scan = @ \ {n}])
            \/ Moved(t, "idle", Idle)
  <1>1. pc[t] = "scan" /\ UNCHANGED <<keyTable, heap, driver, ub>>
    BY DEF ScanNext
  <1>2. loc[t] \in Locals /\ loc[t].op = "Scan" /\ loc[t].scan \subseteq Tabs
    BY <1>1, BusyFacts DEF OpsAt
  <1>3. ASSUME NEW n \in loc[t].scan, pc' = [pc EXCEPT ![t] = "visit"],
               Set(t, [loc[t] EXCEPT !.tab = n, !.scan = @ \ {n}])
        PROVE  TInv' /\ Moved(t, "visit", [loc[t] EXCEPT !.tab = n, !.scan = @ \ {n}])
    <2> DEFINE l == [loc[t] EXCEPT !.tab = n, !.scan = @ \ {n}]
    <2>1. l \in Locals /\ l.op = loc[t].op /\ l.key = loc[t].key /\ l.tab \in Tabs
      BY <1>2 DEF Locals
    <2>2. "visit" \in Places \ {"idle"} /\ loc[t].op \in OpsAt("visit")
      BY <1>2 DEF Places, OpsAt
    <2>3. loc' = [loc EXCEPT ![t] = l]
      BY <1>3 DEF Set
    <2> HIDE DEF l
    <2>4. TInv' /\ Moved(t, "visit", l)
      BY <1>1, <1>3, <2>1, <2>2, <2>3, SameHeap, GoesOn
    <2> QED BY <2>4 DEF l
  <1>4. CASE Return(t)
    BY <1>1, <1>4, SameHeap, Returns
  <1>5. Return(t) \/ \E n \in loc[t].scan : pc' = [pc EXCEPT ![t] = "visit"]
                       /\ Set(t, [loc[t] EXCEPT !.tab = n, !.scan = @ \ {n}])
    BY DEF ScanNext
  <1> QED BY <1>1, <1>3, <1>4, <1>5

LEMMA EntriesType ==
  ASSUME TInv, NEW n \in Tabs
  PROVE  /\ Entries(n) \subseteq Fields \X Strs
         /\ \A e \in Entries(n) : e[1] \in Fields /\ e[2] = fieldOf[n][e[1]] /\ e[2] # NULL
         /\ \A f \in Fields : fieldOf[n][f] # NULL => <<f, fieldOf[n][f]>> \in Entries(n)
  BY HeapParts DEF Entries

LEMMA VisitType ==
  ASSUME TInv, NEW t \in Threads, Visit(t)
  PROVE  /\ TInv' /\ pc[t] = "visit" /\ UNCHANGED <<keyTable, heap, driver>>
         /\ \/ UsesTab(t) /\ Moved(t, "copy", [loc[t] EXCEPT !.ptrs = Entries(loc[t].tab)])
            \/ ub' = ub /\ Moved(t, "field", [loc[t] EXCEPT !.todo = loc[t].fields])
  <1>1. pc[t] = "visit" /\ UNCHANGED <<keyTable, heap, driver>>
    BY DEF Visit
  <1>2. /\ loc[t] \in Locals /\ loc[t].op \in {"Read", "Scan"} /\ loc[t].tab \in Tabs
        /\ loc[t].fields \in Seq(Fields)
    BY <1>1, BusyFacts DEF OpsAt, Holding
  <1>3. CASE loc[t].fields = <<>>
    <2> DEFINE l == [loc[t] EXCEPT !.ptrs = Entries(loc[t].tab)]
    <2>1. pc' = [pc EXCEPT ![t] = "copy"] /\ loc' = [loc EXCEPT ![t] = l] /\ UsesTab(t)
      BY <1>3 DEF Visit, Set
    <2>2. Entries(loc[t].tab) \subseteq Fields \X Strs
      BY <1>2, EntriesType
    <2>3. l \in Locals /\ l.op = loc[t].op /\ l.key = loc[t].key /\ l.tab = loc[t].tab
      BY <1>2, <2>2 DEF Locals
    <2>4. "copy" \in Places \ {"idle"} /\ loc[t].op \in OpsAt("copy")
      BY <1>2 DEF Places, OpsAt
    <2> HIDE DEF l
    <2>5. TInv' /\ Moved(t, "copy", l)
      BY <1>1, <1>2, <2>1, <2>3, <2>4, SameHeap, GoesOn
    <2> QED BY <1>1, <2>1, <2>5 DEF l
  <1>4. CASE loc[t].fields # <<>>
    <2> DEFINE l == [loc[t] EXCEPT !.todo = loc[t].fields]
    <2>1. pc' = [pc EXCEPT ![t] = "field"] /\ loc' = [loc EXCEPT ![t] = l] /\ ub' = ub
      BY <1>4 DEF Visit, Set
    <2>2. l \in Locals /\ l.op = loc[t].op /\ l.key = loc[t].key /\ l.tab = loc[t].tab
      BY <1>2 DEF Locals
    <2>3. "field" \in Places \ {"idle"} /\ loc[t].op \in OpsAt("field")
      BY <1>2 DEF Places, OpsAt
    <2> HIDE DEF l
    <2>4. TInv' /\ Moved(t, "field", l)
      BY <1>1, <1>2, <2>1, <2>2, <2>3, SameHeap, GoesOn
    <2> QED BY <1>1, <2>1, <2>4 DEF l
  <1> QED BY <1>3, <1>4

LEMMA GetFieldType ==
  ASSUME TInv, NEW t \in Threads, GetField(t)
  PROVE  /\ TInv' /\ pc[t] = "field" /\ UNCHANGED <<keyTable, heap, driver>> /\ UsesTab(t)
         /\ \E l \in Locals :
              /\ Moved(t, "copy", l) /\ l.tab = loc[t].tab /\ l.scan = loc[t].scan
              /\ l.op = loc[t].op /\ l.key = loc[t].key /\ l.ptrs \subseteq Entries(loc[t].tab)
  <1> DEFINE es == {e \in Entries(loc[t].tab) : e[1] = Head(loc[t].todo)}
             l == [Skipped(t) EXCEPT !.ptrs = es]
  <1>1. /\ pc[t] = "field" /\ UNCHANGED <<keyTable, heap, driver>> /\ UsesTab(t)
        /\ pc' = [pc EXCEPT ![t] = "copy"] /\ loc' = [loc EXCEPT ![t] = l] /\ loc[t].todo # <<>>
    BY DEF GetField, Goto, Set
  <1>2. /\ loc[t] \in Locals /\ loc[t].op \in {"Read", "Scan"} /\ loc[t].tab \in Tabs
        /\ Tail(loc[t].todo) \in Seq(Fields)
    BY <1>1, BusyFacts, HeadTail DEF OpsAt, Holding
  <1>3. es \subseteq Entries(loc[t].tab) /\ es \subseteq Fields \X Strs
    BY <1>2, EntriesType
  <1> HIDE DEF es
  <1>4. /\ l \in Locals /\ l.op = loc[t].op /\ l.key = loc[t].key /\ l.tab = loc[t].tab
        /\ l.scan = loc[t].scan /\ l.ptrs = es
    BY <1>2, <1>3 DEF Locals, Skipped
  <1>5. "copy" \in Places \ {"idle"} /\ loc[t].op \in OpsAt("copy")
    BY <1>2 DEF Places, OpsAt
  <1> HIDE DEF l
  <1>6. TInv' /\ Moved(t, "copy", l)
    BY <1>1, <1>2, <1>4, <1>5, SameHeap, GoesOn
  <1> QED BY <1>1, <1>3, <1>4, <1>6

LEMMA CopyResultType ==
  ASSUME TInv, NEW t \in Threads, CopyResult(t)
  PROVE  /\ TInv' /\ pc[t] = "copy" /\ UNCHANGED <<keyTable, heap, driver>>
         /\ \E e \in loc[t].ptrs :
              /\ Met("read", e[2] \notin liveStrs)
              /\ Moved(t, "copy", [loc[t] EXCEPT !.ptrs = @ \ {e}])
  <1>1. pc[t] = "copy" /\ UNCHANGED <<keyTable, heap, driver>> /\ pc' = pc
    BY DEF CopyResult
  <1>2. PICK e \in loc[t].ptrs : /\ Met("read", e[2] \notin liveStrs)
                                 /\ loc' = [loc EXCEPT ![t] = [loc[t] EXCEPT !.ptrs = @ \ {e}]]
    BY DEF CopyResult, Set
  <1> DEFINE l == [loc[t] EXCEPT !.ptrs = @ \ {e}]
  <1>3. /\ loc[t] \in Locals /\ loc[t].op \in {"Read", "Scan"} /\ loc[t].tab \in Tabs
    BY <1>1, BusyFacts DEF OpsAt, Holding
  <1>4. l \in Locals /\ l.op = loc[t].op /\ l.key = loc[t].key /\ l.tab = loc[t].tab
    BY <1>3 DEF Locals
  <1>5. "copy" \in Places \ {"idle"} /\ loc[t].op \in OpsAt("copy")
        /\ pc' = [pc EXCEPT ![t] = "copy"]
    BY <1>1, <1>3 DEF Places, OpsAt, TInv, ThreadType
  <1>6. loc' = [loc EXCEPT ![t] = l]
    BY <1>2
  <1> HIDE DEF l
  <1>7. TInv' /\ Moved(t, "copy", l)
    BY <1>1, <1>3, <1>4, <1>5, <1>6, SameHeap, GoesOn
  <1> QED BY <1>1, <1>2, <1>7 DEF l

LEMMA EndCopyType ==
  ASSUME TInv, NEW t \in Threads, EndCopy(t)
  PROVE  /\ TInv' /\ pc[t] = "copy" /\ UNCHANGED <<keyTable, heap, driver, ub>>
         /\ Moved(t, "field", loc[t])
  <1>1. pc[t] = "copy" /\ UNCHANGED <<keyTable, heap, driver, ub>> /\ loc' = loc
        /\ pc' = [pc EXCEPT ![t] = "field"]
    BY DEF EndCopy, Goto
  <1>2. /\ loc[t] \in Locals /\ loc[t].op \in {"Read", "Scan"} /\ loc[t].tab \in Tabs
    BY <1>1, BusyFacts DEF OpsAt, Holding
  <1>3. "field" \in Places \ {"idle"} /\ loc[t].op \in OpsAt("field")
        /\ loc' = [loc EXCEPT ![t] = loc[t]]
    BY <1>1, <1>2 DEF Places, OpsAt, TInv, ThreadType
  <1> QED BY <1>1, <1>2, <1>3, SameHeap, GoesOn

LEMMA EndFieldsType ==
  ASSUME TInv, NEW t \in Threads, EndFields(t)
  PROVE  /\ TInv' /\ pc[t] = "field" /\ UNCHANGED <<keyTable, heap, driver, ub>>
         /\ (loc[t].op = "Scan" /\ Moved(t, "scan", loc[t])) \/ Moved(t, "idle", Idle)
  <1>1. pc[t] = "field" /\ UNCHANGED <<keyTable, heap, driver, ub>>
    BY DEF EndFields
  <1>2. loc[t] \in Locals
    BY <1>1, BusyFacts
  <1>3. CASE loc[t].op = "Scan"
    <2>1. pc' = [pc EXCEPT ![t] = "scan"] /\ loc' = loc
      BY <1>3 DEF EndFields
    <2>2. "scan" \in Places \ {"idle"} /\ loc[t].op \in OpsAt("scan") /\ "scan" \notin Holding
          /\ loc' = [loc EXCEPT ![t] = loc[t]]
      BY <1>3, <2>1 DEF Places, OpsAt, Holding, TInv, ThreadType
    <2> QED BY <1>1, <1>2, <1>3, <2>1, <2>2, SameHeap, GoesOn
  <1>4. CASE loc[t].op # "Scan"
    <2>1. Return(t)
      BY <1>4 DEF EndFields
    <2> QED BY <1>1, <2>1, SameHeap, Returns
  <1> QED BY <1>3, <1>4

LEMMA RemoveType ==
  ASSUME TInv, NEW t \in Threads, Remove(t)
  PROVE  LET n == keyTable[loc[t].key] IN
         /\ TInv' /\ pc[t] = "remove" /\ UNCHANGED <<heap, driver, ub>>
         /\ keyTable' = [keyTable EXCEPT ![loc[t].key] = NULL]
         /\ \/ n = NULL /\ Moved(t, "idle", Idle)
            \/ n # NULL /\ Moved(t, "destroy", [loc[t] EXCEPT !.tab = n])
  <1> DEFINE n == keyTable[loc[t].key]
             l == [loc[t] EXCEPT !.tab = n]
  <1>1. pc[t] = "remove" /\ UNCHANGED <<heap, driver, ub>>
        /\ keyTable' = [keyTable EXCEPT ![loc[t].key] = NULL]
    BY DEF Remove
  <1>2. loc[t] \in Locals /\ loc[t].key \in Keys /\ loc[t].op = "Delete"
    BY <1>1, BusyFacts DEF OpsAt
  <1>3. n \in Tabs \cup {NULL}
    BY <1>2, HeapParts
  <1>4. HeapType'
    BY <1>1, <1>2, HeapParts DEF HeapType, heap
  <1>5. CASE n = NULL
    <2>1. Return(t)
      BY <1>5 DEF Remove
    <2> QED BY <1>1, <1>4, <1>5, <2>1, Returns
  <1>6. CASE n # NULL
    <2>1. pc' = [pc EXCEPT ![t] = "destroy"] /\ loc' = [loc EXCEPT ![t] = l]
      BY <1>6 DEF Remove, Set
    <2>2. l \in Locals /\ l.op = loc[t].op /\ l.key = loc[t].key /\ l.tab = n
      BY <1>2, <1>3 DEF Locals
    <2>3. "destroy" \in Places \ {"idle"} /\ loc[t].op \in OpsAt("destroy")
      BY <1>2 DEF Places, OpsAt
    <2> HIDE DEF l
    <2>4. TInv' /\ Moved(t, "destroy", l)
      BY <1>1, <1>3, <1>4, <1>6, <2>1, <2>2, <2>3, GoesOn
    <2> QED BY <1>1, <1>6, <2>4 DEF l
  <1> QED BY <1>5, <1>6

LEMMA DestroyType ==
  ASSUME TInv, NEW t \in Threads, Destroy(t)
  PROVE  /\ TInv' /\ pc[t] = "destroy" /\ UNCHANGED <<keyTable, driver>>
         /\ DeleteStrings({e[2] : e \in Entries(loc[t].tab)})
         /\ liveTabs' = liveTabs \ {loc[t].tab}
         /\ fieldOf' = [fieldOf EXCEPT ![loc[t].tab] = NoFields]
         /\ Moved(t, "idle", Idle)
  <1>1. /\ pc[t] = "destroy" /\ UNCHANGED <<keyTable, driver>>
        /\ DeleteStrings({e[2] : e \in Entries(loc[t].tab)})
        /\ liveTabs' = liveTabs \ {loc[t].tab}
        /\ fieldOf' = [fieldOf EXCEPT ![loc[t].tab] = NoFields] /\ Return(t)
    BY DEF Destroy
  <1>2. NoFields \in [Fields -> Strs \cup {NULL}]
    BY DEF NoFields
  <1>3. HeapType'
    BY <1>1, <1>2, DeleteStringsType, HeapParts DEF HeapType
  <1> QED BY <1>1, <1>3, Returns

LEMMA LoadInsertType ==
  ASSUME TInv, NEW t \in Threads, NEW k \in Keys, LoadInsert(t, k)
  PROVE  /\ TInv' /\ loading /\ pc[t] = "idle" /\ k \in toLoad[t]
         /\ UNCHANGED <<keyTable, heap, workload, loading, ub>>
         /\ toLoad' = [toLoad EXCEPT ![t] = @ \ {k}]
         /\ \E l \in Locals : /\ Moved(t, "get", l) /\ l.op = "Insert" /\ l.key = k
                              /\ l.todo = AllFields
  <1>1. /\ k \in toLoad[t] /\ toLoad' = [toLoad EXCEPT ![t] = @ \ {k}]
        /\ Begin(t, "Insert", k, AllFields) /\ UNCHANGED <<keyTable, heap, workload, loading, ub>>
    BY DEF LoadInsert
  <1>2. DriverType
    BY DEF TInv
  <1>3. loading /\ k \in workload.load[t]
    BY <1>1, <1>2 DEF DriverType
  <1>4. toLoad' \in [Threads -> SUBSET Keys] /\ \A u \in Threads : toLoad'[u] \subseteq toLoad[u]
    BY <1>1, <1>2 DEF DriverType
  <1>5. "Insert" \in Operations /\ AllFields \in Seq(Fields)
    BY FieldsAssumption DEF Operations
  <1>6. /\ TInv'
        /\ \E l \in Locals :
             /\ Moved(t, pc'[t], l) /\ l.op = "Insert" /\ l.key = k /\ l.fields = AllFields
             /\ l.todo = (IF "Insert" \in {"Update", "Insert"} THEN AllFields ELSE <<>>)
             /\ pc'[t] = (CASE "Insert" = "Delete" -> "remove"
                            [] "Insert" = "Scan" -> "entries" [] OTHER -> "get")
    BY <1>1, <1>3, <1>4, <1>5, BeginType
  <1>7. pc[t] = "idle"
    BY <1>1 DEF Begin
  <1> QED BY <1>1, <1>3, <1>6, <1>7

LEMMA CallType ==
  ASSUME TInv, NEW t \in Threads, NEW k \in Keys, NEW fs \in FieldLists \cup {<<>>},
         NEW op \in Operations, Call(t, op, k, fs)
  PROVE  /\ TInv' /\ ~loading /\ pc[t] = "idle" /\ UNCHANGED <<keyTable, heap, driver, ub>>
         /\ \E l \in Locals : /\ Moved(t, pc'[t], l) /\ l.op = op /\ l.key = k
                              /\ pc'[t] \in {"remove", "entries", "get"}
                              /\ op = "Update" => l.todo = fs
  <1>1. /\ ~loading /\ May(workload, t, op, k) /\ Begin(t, op, k, fs)
        /\ UNCHANGED <<keyTable, heap, driver, ub>>
    BY DEF Call, May
  <1>2. UNCHANGED <<workload, toLoad, loading>>
    BY <1>1 DEF driver
  <1>3. DriverType
    BY DEF TInv
  <1>4. toLoad' \in [Threads -> SUBSET Keys] /\ \A u \in Threads : toLoad'[u] \subseteq toLoad[u]
    BY <1>2, <1>3 DEF DriverType
  <1>5. fs \in Seq(Fields)
    <2>1. <<>> \in Seq(Fields)
      OBVIOUS
    <2> QED BY <2>1, FieldsAssumption
  <1>6. UNCHANGED <<keyTable, heap, workload, loading>>
    BY <1>1, <1>2
  <1>7. /\ TInv'
        /\ \E l \in Locals :
             /\ Moved(t, pc'[t], l) /\ l.op = op /\ l.key = k /\ l.fields = fs
             /\ l.todo = (IF op \in {"Update", "Insert"} THEN fs ELSE <<>>)
             /\ pc'[t] = (CASE op = "Delete" -> "remove"
                            [] op = "Scan" -> "entries" [] OTHER -> "get")
    BY <1>1, <1>4, <1>5, <1>6, BeginType
  <1>8. pc[t] = "idle"
    BY <1>1 DEF Begin
  <1> QED BY <1>1, <1>7, <1>8

LEMMA LoadDoneType ==
  ASSUME TInv, LoadDone
  PROVE  /\ TInv' /\ loading /\ loading' = FALSE
         /\ \A t \in Threads : toLoad[t] = {} /\ pc[t] = "idle"
         /\ UNCHANGED <<keyTable, heap, pc, loc, workload, toLoad, ub>>
  <1>1. /\ loading /\ loading' = FALSE /\ (\A t \in Threads : toLoad[t] = {} /\ pc[t] = "idle")
        /\ UNCHANGED <<keyTable, heap, pc, loc, workload, toLoad, ub>>
    BY DEF LoadDone
  <1>2. ThreadType' /\ DriverType'
    BY <1>1 DEF TInv, ThreadType, DriverType
  <1>3. Control'
    BY <1>1 DEF TInv, Control, Consistent
  <1> QED BY <1>1, <1>2, <1>3, SameHeap DEF TInv

-----------------------------------------------------------------------------
(* The types. *)

LEMMA InitTypes == Init => TInv
  <1> SUFFICES ASSUME Init PROVE TInv
    OBVIOUS
  <1>1. HeapType
    BY DEF Init, HeapType, NoFields
  <1>2. ThreadType
    <2>1. "idle" \in Places
      BY DEF Places
    <2> QED BY <2>1, IdleType DEF Init, ThreadType
  <1>3. DriverType
    BY WorkloadsAssumption DEF Init, DriverType
  <1>4. Control
    BY DEF Init, Control, Consistent
  <1> QED BY <1>1, <1>2, <1>3, <1>4 DEF TInv

LEMMA StepTypes ==
  ASSUME TInv, NEW t \in Threads, Step(t)
  PROVE  TInv'
  <1>1. CASE Get(t) BY <1>1, GetType
  <1>2. CASE Attach(t) BY <1>2, AttachType
  <1>3. CASE UpdateFresh(t) BY <1>3, NewFieldType
  <1>4. CASE InsertField(t) BY <1>4, NewFieldType, ConflictType
  <1>5. CASE UpdateField(t) BY <1>5, UpdateFieldType
  <1>6. CASE UpdateMissing(t) BY <1>6, UpdateMissingType
  <1>7. CASE DeleteOld(t) BY <1>7, DeleteOldType
  <1>8. CASE ReturnOK(t) BY <1>8, ReturnOKType
  <1>9. CASE ScanEntries(t) BY <1>9, ScanEntriesType
  <1>10. CASE ScanNext(t) BY <1>10, ScanNextType
  <1>11. CASE Visit(t) BY <1>11, VisitType
  <1>12. CASE GetField(t) BY <1>12, GetFieldType
  <1>13. CASE CopyResult(t) BY <1>13, CopyResultType
  <1>14. CASE EndCopy(t) BY <1>14, EndCopyType
  <1>15. CASE EndFields(t) BY <1>15, EndFieldsType
  <1>16. CASE Remove(t) BY <1>16, RemoveType
  <1>17. CASE Destroy(t) BY <1>17, DestroyType
  <1>18. CASE InsertConflict(t) BY <1>18, RefusedType
  <1> QED BY <1>1, <1>2, <1>3, <1>4, <1>5, <1>6, <1>7, <1>8, <1>9, <1>10, <1>11, <1>12, <1>13,
             <1>14, <1>15, <1>16, <1>17, <1>18 DEF Step

LEMMA NextTypes ==
  ASSUME TInv, [Next]_vars
  PROVE  TInv'
  <1>1. ASSUME NEW t \in Threads, Step(t) PROVE TInv'
    BY <1>1, StepTypes
  <1>2. ASSUME NEW t \in Threads, NEW k \in Keys, LoadInsert(t, k) PROVE TInv'
    BY <1>2, LoadInsertType
  <1>3. CASE LoadDone
    BY <1>3, LoadDoneType
  <1>4. ASSUME NEW t \in Threads, NEW k \in Keys, NEW fs \in FieldLists \cup {<<>>},
               NEW op \in Operations, Call(t, op, k, fs)
        PROVE  TInv'
    BY <1>4, CallType
  <1>5. CASE UNCHANGED vars
    <2>1. UNCHANGED <<keyTable, heap>> /\ UNCHANGED <<pc, loc, workload, toLoad, loading>>
      BY <1>5 DEF vars, driver
    <2>2. ThreadType' /\ DriverType'
      BY <2>1 DEF TInv, ThreadType, DriverType
    <2>3. Control'
      BY <2>1 DEF TInv, Control, Consistent, Busy, Called, May
    <2> QED BY <2>1, <2>2, <2>3, SameHeap DEF TInv
  <1> QED BY <1>1, <1>2, <1>3, <1>4, <1>5 DEF Next

LEMMA TypeInvariant == Spec => []TInv
  <1>1. Init => TInv
    BY InitTypes
  <1>2. TInv /\ [Next]_vars => TInv'
    BY NextTypes
  <1> QED BY <1>1, <1>2, PTL DEF Spec

(***************************************************************************)
(* The copies of keys: what loses one.  Either the thread attaches a table *)
(* to a key that has one, or inserts a field that is there, or destroys a  *)
(* table.                                                                  *)
(***************************************************************************)
Loses(t, cause) ==
  \/ pc[t] = "attach" /\ keyTable[loc[t].key] # NULL /\ cause = "Attach"
  \/ /\ pc[t] \in {"fresh", "missing", "insert"} /\ loc[t].todo # <<>>
     /\ fieldOf[loc[t].tab][Head(loc[t].todo)] # NULL /\ cause = loc[t].op
  \/ pc[t] = "destroy" /\ cause = "Delete"

LEMMA KeyLost ==
  ASSUME NEW t \in Threads, NEW cause, NEW cond, LosesKey(cause, cond), cond => Loses(t, cause)
  PROVE  lostKeys' = lostKeys \/ \E c : Loses(t, c) /\ lostKeys' = lostKeys \cup {c}
  BY DEF LosesKey

LEMMA KeysLost ==
  ASSUME TInv, NEW t \in Threads, Step(t)
  PROVE  lostKeys' = lostKeys \/ \E c : Loses(t, c) /\ lostKeys' = lostKeys \cup {c}
  <1>1. CASE Attach(t)
    <2>1. pc[t] = "attach" /\ LosesKey("Attach", keyTable[loc[t].key] # NULL)
      BY <1>1 DEF Attach, Goto
    <2>2. keyTable[loc[t].key] # NULL => Loses(t, "Attach")
      BY <2>1 DEF Loses
    <2> QED BY <2>1, <2>2, KeyLost
  <1>2. ASSUME NEW s, FieldInsert(t, s), pc[t] \in {"fresh", "missing", "insert"},
               loc[t].todo # <<>>
        PROVE  lostKeys' = lostKeys \/ \E c : Loses(t, c) /\ lostKeys' = lostKeys \cup {c}
    <2>1. LosesKey(loc[t].op, NextHeld(t) # NULL)
      BY <1>2 DEF FieldInsert
    <2>2. NextHeld(t) # NULL => Loses(t, loc[t].op)
      BY <1>2 DEF Loses, NextHeld
    <2> QED BY <2>1, <2>2, KeyLost
  <1>3. CASE UpdateFresh(t)
    BY <1>2, <1>3 DEF UpdateFresh
  <1>4. CASE UpdateMissing(t)
    <2>1. pc[t] = "missing" /\ loc[t].todo # <<>> /\ FieldInsert(t, loc[t].str)
      BY <1>4, UpdateMissingType DEF UpdateMissing
    <2> QED BY <1>2, <2>1
  <1>5. CASE InsertField(t)
    <2>1. pc[t] = "insert" /\ loc[t].todo # <<>>
      BY <1>5 DEF InsertField
    <2>2. CASE NextHeld(t) = NULL
      <3>1. \E s : FieldInsert(t, s)
        BY <1>5, <2>2 DEF InsertField
      <3> QED BY <1>2, <2>1, <3>1
    <2>3. CASE NextHeld(t) # NULL
      <3>1. LosesKey("Insert", TRUE)
        BY <1>5, <2>3 DEF InsertField
      <3>2. loc[t].op = "Insert"
        BY <2>1, BusyFacts DEF OpsAt
      <3>3. Loses(t, "Insert")
        BY <2>1, <2>3, <3>2 DEF Loses, NextHeld
      <3> QED BY <3>1, <3>3, KeyLost
    <2> QED BY <2>2, <2>3
  <1>6. CASE Destroy(t)
    <2>1. pc[t] = "destroy" /\ LosesKey("Delete", Entries(loc[t].tab) # {})
      BY <1>6 DEF Destroy
    <2>2. Loses(t, "Delete")
      BY <2>1 DEF Loses
    <2> QED BY <2>1, <2>2, KeyLost
  <1>7. CASE UpdateField(t) \/ DeleteOld(t) \/ InsertConflict(t)
    BY <1>7 DEF UpdateField, DeleteOld, InsertConflict
  <1>8. CASE Get(t) \/ ReturnOK(t) \/ Remove(t)
    BY <1>8 DEF Get, ReturnOK, Remove, heap
  <1>9. CASE ScanEntries(t) \/ ScanNext(t) \/ Visit(t) \/ GetField(t) \/ CopyResult(t)
             \/ EndCopy(t) \/ EndFields(t)
    BY <1>9 DEF ScanEntries, ScanNext, Visit, GetField, CopyResult, EndCopy, EndFields, heap
  <1> QED BY <1>1, <1>3, <1>4, <1>5, <1>6, <1>7, <1>8, <1>9 DEF Step

(* Steps of the driver lose none, and leave the workload as it is. *)
LEMMA KeysLostNext ==
  ASSUME TInv, [Next]_vars
  PROVE  /\ workload' = workload
         /\ \/ lostKeys' = lostKeys
            \/ \E t \in Threads : \E c : Loses(t, c) /\ lostKeys' = lostKeys \cup {c}
  <1>1. ASSUME NEW t \in Threads, Step(t)
        PROVE  /\ workload' = workload
               /\ \/ lostKeys' = lostKeys
                  \/ \E c : Loses(t, c) /\ lostKeys' = lostKeys \cup {c}
    <2>1. workload' = workload
      BY <1>1 DEF Step, Get, Attach, UpdateFresh, InsertField, InsertConflict, UpdateField,
                  UpdateMissing, DeleteOld, ReturnOK, ScanEntries, ScanNext, Visit, GetField,
                  CopyResult, EndCopy, EndFields, Remove, Destroy, driver
    <2> QED BY <1>1, <2>1, KeysLost
  <1>2. ASSUME NEW t \in Threads, NEW k \in Keys, LoadInsert(t, k)
        PROVE  lostKeys' = lostKeys /\ workload' = workload
    BY <1>2 DEF LoadInsert, heap
  <1>3. CASE LoadDone
    BY <1>3 DEF LoadDone, heap
  <1>4. ASSUME NEW t \in Threads, NEW k \in Keys, NEW fs \in FieldLists \cup {<<>>},
               NEW op \in Operations, Call(t, op, k, fs)
        PROVE  lostKeys' = lostKeys /\ workload' = workload
    BY <1>4 DEF Call, heap, driver
  <1>5. CASE UNCHANGED vars
    BY <1>5 DEF vars, heap, driver
  <1> QED BY <1>1, <1>2, <1>3, <1>4, <1>5 DEF Next

Causes == Operations \cup {"Attach"}

LEMMA KeysType == Spec => [](lostKeys \subseteq Causes)
  <1>1. Init => lostKeys \subseteq Causes
    BY DEF Init
  <1>2. lostKeys \subseteq Causes /\ TInv /\ [Next]_vars => (lostKeys \subseteq Causes)'
    <2> SUFFICES ASSUME lostKeys \subseteq Causes, TInv, [Next]_vars
                 PROVE  lostKeys' \subseteq Causes
      BY DEF Causes, Operations
    <2>1. ASSUME NEW t \in Threads, NEW c, Loses(t, c) PROVE c \in Causes
      <3>1. pc[t] # "idle"
        BY <2>1 DEF Loses
      <3>2. loc[t].op \in Operations
        BY <3>1, BusyFacts
      <3> QED BY <2>1, <3>2 DEF Loses, Causes, Operations
    <2> QED BY <2>1, KeysLostNext
  <1> QED BY <1>1, <1>2, TypeInvariant, PTL DEF Spec

(* The database, the heap and the locals of every thread keep their types, *)
(* and a thread is idle exactly when it has no locals, whatever the calls  *)
(* of the others do.                                                       *)
THEOREM TypeCorrect == Spec => []TypeOK
  <1>1. TInv /\ lostKeys \subseteq Causes => TypeOK
    <2> SUFFICES ASSUME TInv, lostKeys \subseteq Causes PROVE TypeOK
      OBVIOUS
    <2>1. ASSUME NEW t \in Threads
          PROVE  /\ (pc[t] = "idle") <=> (loc[t] = Idle)
                 /\ loc[t].tab \in Tabs \cup {NULL} /\ loc[t].str \in Strs \cup {NULL}
                 /\ loc[t].scan \subseteq Tabs /\ loc[t].stored \in Nat
                 /\ loc[t].ptrs \subseteq Fields \X Strs
      <3>1. loc[t] \in Locals /\ Consistent(t, pc[t], loc[t])
        BY DEF TInv, ThreadType, Control
      <3>2. Idle.key = NULL
        BY DEF Idle
      <3>3. (pc[t] = "idle") <=> (loc[t] = Idle)
        BY <3>1, <3>2, Nothing DEF Consistent, Busy
      <3> QED BY <3>1, <3>3, LocalsParts
    <2>2. workload \in Workloads /\ toLoad \in [Threads -> SUBSET Keys]
      BY DEF TInv, DriverType
    <2> QED BY <2>1, <2>2, HeapParts DEF TypeOK, Causes
  <1> QED BY <1>1, TypeInvariant, KeysType, PTL

-----------------------------------------------------------------------------
(***************************************************************************)
(* Memory.  Tables: the keys name allocated tables, each its own.  Slots:  *)
(* the fields of all tables hold allocated strings, each its own.  Hands:  *)
(* what a thread has in its hands between two locks is allocated; a table  *)
(* that a key names is in the hands of calls with that key only (a scan    *)
(* excepted); a read has the table of its key; a table that is being       *)
(* destroyed is out of the key table; the strings a read still has to copy *)
(* are those that its table holds; a string to be inserted or deleted is   *)
(* in no table.  Apart: a table to be destroyed, and a string to be        *)
(* inserted or deleted, is in one thread's hands.                          *)
(***************************************************************************)
Tables ==
  /\ \A k \in Keys : keyTable[k] # NULL => keyTable[k] \in liveTabs
  /\ \A j, k \in Keys : keyTable[j] # NULL /\ keyTable[j] = keyTable[k] => j = k
Slots ==
  /\ \A n \in Tabs, f \in Fields : fieldOf[n][f] # NULL => fieldOf[n][f] \in liveStrs
  /\ \A m, n \in Tabs : \A f, g \in Fields :
       fieldOf[m][f] # NULL /\ fieldOf[m][f] = fieldOf[n][g] => m = n /\ f = g

HandsTab(p, l) ==
  p \in Holding => /\ l.tab \in liveTabs
                   /\ l.op # "Scan" => \A k \in Keys : keyTable[k] = l.tab => k = l.key
HandsScan(p, l) ==
  p \in {"scan", "visit", "copy", "field"} /\ l.op = "Scan" => l.scan \subseteq liveTabs
HandsRead(p, l) ==
  p \in {"visit", "copy", "field"} /\ l.op = "Read" => keyTable[l.key] = l.tab
HandsDestroy(p, l) == p = "destroy" => \A k \in Keys : keyTable[k] # l.tab
HandsCopy(p, l) == p = "copy" => \A e \in l.ptrs : fieldOf[l.tab][e[1]] = e[2]
HandsStr(p, l) ==
  p \in {"missing", "delete"} =>
    l.str \in liveStrs /\ \A n \in Tabs, f \in Fields : fieldOf[n][f] # l.str
Hands(p, l) ==
  /\ HandsTab(p, l) /\ HandsScan(p, l) /\ HandsRead(p, l)
  /\ HandsDestroy(p, l) /\ HandsCopy(p, l) /\ HandsStr(p, l)

Apart(p, l, q, m) ==
  /\ p = "destroy" /\ q \in Holding => l.tab # m.tab
  /\ p \in {"missing", "delete"} /\ q \in {"missing", "delete"} => l.str # m.str

InHands ==
  /\ \A t \in Threads : Hands(pc[t], loc[t])
  /\ \A t, u \in Threads : t # u => Apart(pc[t], loc[t], pc[u], loc[u])

SInv == Tables /\ Slots /\ InHands /\ ub = {}

(* What Separate rules out. *)
LEMMA Exclusion ==
  ASSUME TInv, Separate(workload), NEW t \in Threads, NEW u \in Threads, t # u,
         pc[t] # "idle", pc[u] # "idle"
  PROVE  /\ loc[t].op = "Delete" => loc[u].op # "Scan" /\ loc[u].key # loc[t].key
         /\ loc[t].op = "Update" =>
              loc[u].op # "Scan" /\ (loc[u].op = "Read" => loc[u].key # loc[t].key)
  <1>1. /\ loc[t].key \in Keys /\ Called(t, loc[t]) /\ loc[t].op \in Operations
        /\ loc[u].key \in Keys /\ Called(u, loc[u]) /\ loc[u].op \in Operations
    BY BusyFacts DEF Busy
  <1>2. CASE loading
    BY <1>1, <1>2 DEF Called
  <1>3. CASE ~loading
    <2>1. May(workload, t, loc[t].op, loc[t].key) /\ May(workload, u, loc[u].op, loc[u].key)
      BY <1>1, <1>3 DEF Called
    <2>2. \A j, k \in Keys :
            /\ May(workload, t, "Delete", k) =>
                 ~May(workload, u, "Scan", j) /\ \A op \in Operations : ~May(workload, u, op, k)
            /\ May(workload, t, "Update", k) =>
                 ~May(workload, u, "Scan", j) /\ ~May(workload, u, "Read", k)
      BY DEF Separate
    <2> QED BY <1>1, <2>1, <2>2
  <1> QED BY <1>2, <1>3

(* A step of one thread keeps its hands and everyone else's in order. *)
LEMMA HandsStep ==
  ASSUME NEW t \in Threads, NEW p, NEW l, Moved(t, p, l),
         Hands(p, l)', InHands,
         \A q, m : (\E u \in Threads \ {t} : q = pc[u] /\ m = loc[u]) =>
                     Hands(q, m)' /\ Apart(p, l, q, m) /\ Apart(q, m, p, l)
  PROVE  InHands'
  <1>1. pc'[t] = p /\ loc'[t] = l /\ \A u \in Threads \ {t} : pc'[u] = pc[u] /\ loc'[u] = loc[u]
    BY DEF Moved
  <1>2. (\A u \in Threads : Hands(pc[u], loc[u]))'
    <2> SUFFICES ASSUME NEW u \in Threads, NEW q, NEW m, q = pc'[u], m = loc'[u]
                 PROVE  Hands(q, m)'
      BY DEF Hands, HandsTab, HandsScan, HandsRead, HandsDestroy, HandsCopy, HandsStr
    <2>1. CASE u = t
      BY <1>1, <2>1
    <2>2. CASE u # t
      BY <1>1, <2>2
    <2> QED BY <2>1, <2>2
  <1>3. (\A u, v \in Threads : u # v => Apart(pc[u], loc[u], pc[v], loc[v]))'
    <2> SUFFICES ASSUME NEW u \in Threads, NEW v \in Threads, u # v
                 PROVE  Apart(pc'[u], loc'[u], pc'[v], loc'[v])
      BY DEF Apart
    <2>1. CASE u = t
      BY <1>1, <2>1
    <2>2. CASE v = t
      BY <1>1, <2>2
    <2>3. CASE u # t /\ v # t
      BY <1>1, <2>3 DEF InHands
    <2> QED BY <2>1, <2>2, <2>3
  <1> QED BY <1>2, <1>3 DEF InHands

(* A step that leaves the tables and the heap alone. *)
LEMMA QuietStep ==
  ASSUME SInv, NEW t \in Threads, NEW p, NEW l, Moved(t, p, l), UNCHANGED <<keyTable, heap>>,
         ub' = ub, p \notin {"destroy", "missing", "delete"}, Hands(p, l),
         p \in Holding => \A u \in Threads \ {t} : pc[u] = "destroy" => loc[u].tab # l.tab
  PROVE  SInv'
  <1>1. UNCHANGED <<keyTable, fieldOf, liveTabs, liveStrs>>
    BY DEF heap
  <1>2. Tables' /\ Slots' /\ ub' = {}
    BY <1>1 DEF SInv, Tables, Slots
  <1>3. \A q, m : Hands(q, m) => Hands(q, m)'
    BY <1>1 DEF Hands, HandsTab, HandsScan, HandsRead, HandsDestroy, HandsCopy, HandsStr
  <1>4. ASSUME NEW q, NEW m, NEW u \in Threads \ {t}, q = pc[u], m = loc[u]
        PROVE  Hands(q, m)' /\ Apart(p, l, q, m) /\ Apart(q, m, p, l)
    <2>1. Hands(q, m)
      BY <1>4 DEF SInv, InHands
    <2> QED BY <1>3, <1>4, <2>1 DEF Apart
  <1>5. InHands /\ Hands(p, l)'
    BY <1>3 DEF SInv
  <1>6. InHands'
    BY <1>4, <1>5, HandsStep
  <1> QED BY <1>2, <1>6 DEF SInv

(* A thread with nothing in its hands. *)
LEMMA EmptyHands ==
  ASSUME NEW p \in {"idle", "remove", "entries", "get", "attach"}, NEW l
  PROVE  Hands(p, l) /\ p \notin Holding /\ p \notin {"destroy", "missing", "delete"}
  BY DEF Hands, HandsTab, HandsScan, HandsRead, HandsDestroy, HandsCopy, HandsStr, Holding

(* The call begins, gives up or is over. *)
LEMMA LetsGo ==
  ASSUME SInv, NEW t \in Threads, NEW p \in {"idle", "remove", "entries", "get", "attach"}, NEW l,
         Moved(t, p, l), UNCHANGED <<keyTable, heap>>, ub' = ub
  PROVE  SInv'
  BY EmptyHands, QuietStep

(* What a thread that is inside a call knows. *)
LEMMA MyHands ==
  ASSUME SInv, NEW t \in Threads
  PROVE  /\ HandsTab(pc[t], loc[t]) /\ HandsScan(pc[t], loc[t]) /\ HandsRead(pc[t], loc[t])
         /\ HandsDestroy(pc[t], loc[t]) /\ HandsCopy(pc[t], loc[t]) /\ HandsStr(pc[t], loc[t])
         /\ pc[t] \in Holding =>
              \A u \in Threads \ {t} : pc[u] = "destroy" => loc[u].tab # loc[t].tab
  <1>1. Hands(pc[t], loc[t])
    BY DEF SInv, InHands
  <1>2. \A u \in Threads \ {t} : Apart(pc[u], loc[u], pc[t], loc[t])
    BY DEF SInv, InHands
  <1> QED BY <1>1, <1>2 DEF Hands, Apart

(* Using a table that is allocated. *)
LEMMA UseStep ==
  ASSUME SInv, NEW t \in Threads, pc[t] \in Holding, UsesTab(t)
  PROVE  ub' = ub
  <1>1. loc[t].tab \in liveTabs
    BY MyHands DEF HandsTab
  <1> QED BY <1>1 DEF UsesTab, Met

LEMMA GetSafe ==
  ASSUME TInv, SInv, NEW t \in Threads, Get(t)
  PROVE  SInv'
  <1> DEFINE n == keyTable[loc[t].key]
             l == [loc[t] EXCEPT !.tab = n]
  <1>1. /\ pc[t] = "get" /\ UNCHANGED <<keyTable, heap, driver, ub>>
        /\ \/ /\ n # NULL /\ pc'[t] \in {"visit", "update", "insert"}
              /\ Moved(t, pc'[t], l)
           \/ Moved(t, "attach", loc[t])
           \/ Moved(t, "idle", Idle)
    BY GetType
  <1>2. ASSUME Moved(t, "attach", loc[t]) \/ Moved(t, "idle", Idle) PROVE SInv'
    BY <1>1, <1>2, LetsGo
  <1>3. ASSUME n # NULL, NEW p \in {"visit", "update", "insert"}, Moved(t, p, l)
        PROVE  SInv'
    <2>1. loc[t] \in Locals /\ loc[t].key \in Keys
      BY <1>1, BusyFacts
    <2>2. l.op = loc[t].op /\ l.key = loc[t].key /\ l.tab = n /\ l.scan = loc[t].scan
      BY <2>1 DEF Locals
    <2>3. n \in liveTabs /\ \A k \in Keys : keyTable[k] = n => k = loc[t].key
      BY <1>3, <2>1 DEF SInv, Tables
    <2>4. HandsRead(p, l)
      BY <2>2 DEF HandsRead
    <2>5. HandsTab(p, l)
      BY <2>2, <2>3 DEF HandsTab
    <2>6. loc[t].op \in {"Read", "Update", "Insert"}
      BY <1>1, BusyFacts DEF OpsAt
    <2>7. Hands(p, l)
      BY <1>3, <2>2, <2>4, <2>5, <2>6
         DEF Hands, HandsScan, HandsDestroy, HandsCopy, HandsStr
    <2>8. \A u \in Threads \ {t} : pc[u] = "destroy" => loc[u].tab # l.tab
      BY <2>1, <2>2, MyHands DEF HandsDestroy
    <2>9. p \notin {"destroy", "missing", "delete"} /\ ub' = ub /\ UNCHANGED <<keyTable, heap>>
      BY <1>1, <1>3
    <2> HIDE DEF l
    <2> QED BY <1>3, <2>7, <2>8, <2>9, QuietStep
  <1> QED BY <1>1, <1>2, <1>3

LEMMA ScanEntriesSafe ==
  ASSUME TInv, SInv, NEW t \in Threads, ScanEntries(t)
  PROVE  SInv'
  <1>1. pc[t] = "entries" /\ UNCHANGED <<keyTable, heap, driver, ub>>
    BY ScanEntriesType
  <1>2. PICK S \in SUBSET Keys :
          /\ \A x \in S : keyTable[x] # NULL
          /\ Moved(t, "scan", [loc[t] EXCEPT !.scan = {keyTable[x] : x \in S}])
    BY ScanEntriesType
  <1> DEFINE tabs == {keyTable[x] : x \in S}
             l == [loc[t] EXCEPT !.scan = tabs]
  <1>3. tabs \subseteq liveTabs
    BY <1>2 DEF SInv, Tables
  <1> HIDE DEF tabs
  <1>4. loc[t] \in Locals
    BY <1>1, BusyFacts
  <1>5. l.scan = tabs
    BY <1>4 DEF Locals
  <1>6. Moved(t, "scan", l) /\ "scan" \notin Holding
    BY <1>2 DEF tabs, Holding
  <1> HIDE DEF l
  <1>7. Hands("scan", l)
    BY <1>3, <1>5, <1>6 DEF Hands, HandsTab, HandsScan, HandsRead, HandsDestroy, HandsCopy, HandsStr
  <1> QED BY <1>1, <1>6, <1>7, QuietStep

LEMMA ScanNextSafe ==
  ASSUME TInv, SInv, Separate(workload), NEW t \in Threads, ScanNext(t)
  PROVE  SInv'
  <1>1. /\ pc[t] = "scan" /\ UNCHANGED <<keyTable, heap, driver, ub>>
        /\ \/ \E n \in loc[t].scan :
                Moved(t, "visit", [loc[t] EXCEPT !.tab = n, !.scan = @ \ {n}])
           \/ Moved(t, "idle", Idle)
    BY ScanNextType
  <1>2. CASE Moved(t, "idle", Idle)
    BY <1>1, <1>2, LetsGo
  <1>3. ASSUME NEW n \in loc[t].scan,
               Moved(t, "visit", [loc[t] EXCEPT !.tab = n, !.scan = @ \ {n}])
        PROVE  SInv'
    <2> DEFINE l == [loc[t] EXCEPT !.tab = n, !.scan = @ \ {n}]
    <2>1. loc[t] \in Locals /\ loc[t].op = "Scan"
      BY <1>1, BusyFacts DEF OpsAt
    <2>2. l.op = "Scan" /\ l.tab = n /\ l.scan \subseteq loc[t].scan
      BY <2>1 DEF Locals
    <2>3. loc[t].scan \subseteq liveTabs
      BY <1>1, <2>1, MyHands DEF HandsScan
    <2> HIDE DEF l
    <2>4. Hands("visit", l)
      BY <1>3, <2>2, <2>3
         DEF Hands, HandsTab, HandsScan, HandsRead, HandsDestroy, HandsCopy, HandsStr
    <2>5. ASSUME NEW u \in Threads \ {t}, pc[u] = "destroy" PROVE FALSE
      <3>1. loc[u].op = "Delete"
        BY <2>5, BusyFacts DEF OpsAt
      <3> QED BY <1>1, <2>1, <2>5, <3>1, Exclusion
    <2>6. \A u \in Threads \ {t} : pc[u] = "destroy" => loc[u].tab # l.tab
      BY <2>5
    <2>7. Moved(t, "visit", l)
      BY <1>3 DEF l
    <2> QED BY <1>1, <2>4, <2>6, <2>7, QuietStep
  <1> QED BY <1>1, <1>2, <1>3

LEMMA VisitSafe ==
  ASSUME TInv, SInv, NEW t \in Threads, Visit(t)
  PROVE  SInv'
  <1> DEFINE lc == [loc[t] EXCEPT !.ptrs = Entries(loc[t].tab)]
             lf == [loc[t] EXCEPT !.todo = loc[t].fields]
  <1>1. /\ pc[t] = "visit" /\ UNCHANGED <<keyTable, heap, driver>>
        /\ \/ UsesTab(t) /\ Moved(t, "copy", lc)
           \/ ub' = ub /\ Moved(t, "field", lf)
    BY VisitType
  <1>2. pc[t] \in Holding /\ loc[t] \in Locals /\ loc[t].tab \in Tabs
    BY <1>1, BusyFacts DEF Holding
  <1>3. ub' = ub
    BY <1>1, <1>2, UseStep
  <1>4. /\ lc.op = loc[t].op /\ lc.key = loc[t].key /\ lc.tab = loc[t].tab
        /\ lc.scan = loc[t].scan /\ lc.ptrs = Entries(loc[t].tab)
        /\ lf.op = loc[t].op /\ lf.key = loc[t].key /\ lf.tab = loc[t].tab
        /\ lf.scan = loc[t].scan
    BY <1>2 DEF Locals
  <1>5. /\ HandsTab(pc[t], loc[t]) /\ HandsScan(pc[t], loc[t]) /\ HandsRead(pc[t], loc[t])
        /\ \A u \in Threads \ {t} : pc[u] = "destroy" => loc[u].tab # loc[t].tab
    BY <1>2, MyHands
  <1>6. \A e \in Entries(loc[t].tab) : fieldOf[loc[t].tab][e[1]] = e[2]
    BY <1>2, EntriesType
  <1> HIDE DEF lc, lf
  <1>7. Hands("copy", lc)
    BY <1>1, <1>2, <1>4, <1>5, <1>6
       DEF Hands, HandsTab, HandsScan, HandsRead, HandsDestroy, HandsCopy, HandsStr
  <1>8. Hands("field", lf)
    BY <1>1, <1>2, <1>4, <1>5
       DEF Hands, HandsTab, HandsScan, HandsRead, HandsDestroy, HandsCopy, HandsStr
  <1>9. CASE Moved(t, "copy", lc)
    BY <1>1, <1>3, <1>4, <1>5, <1>7, <1>9, QuietStep
  <1>10. CASE Moved(t, "field", lf)
    BY <1>1, <1>3, <1>4, <1>5, <1>8, <1>10, QuietStep
  <1> QED BY <1>1, <1>9, <1>10

LEMMA GetFieldSafe ==
  ASSUME TInv, SInv, NEW t \in Threads, GetField(t)
  PROVE  SInv'
  <1>1. pc[t] = "field" /\ UNCHANGED <<keyTable, heap, driver>> /\ UsesTab(t)
    BY GetFieldType
  <1>2. PICK l \in Locals :
          /\ Moved(t, "copy", l) /\ l.tab = loc[t].tab /\ l.scan = loc[t].scan
          /\ l.op = loc[t].op /\ l.key = loc[t].key /\ l.ptrs \subseteq Entries(loc[t].tab)
    BY GetFieldType
  <1>3. pc[t] \in Holding /\ loc[t].tab \in Tabs
    BY <1>1, BusyFacts DEF Holding
  <1>4. ub' = ub
    BY <1>1, <1>3, UseStep
  <1>5. /\ HandsTab(pc[t], loc[t]) /\ HandsScan(pc[t], loc[t]) /\ HandsRead(pc[t], loc[t])
        /\ \A u \in Threads \ {t} : pc[u] = "destroy" => loc[u].tab # loc[t].tab
    BY <1>3, MyHands
  <1>6. \A e \in Entries(loc[t].tab) : fieldOf[loc[t].tab][e[1]] = e[2]
    BY <1>3, EntriesType
  <1>7. Hands("copy", l)
    BY <1>1, <1>2, <1>3, <1>5, <1>6
       DEF Hands, HandsTab, HandsScan, HandsRead, HandsDestroy, HandsCopy, HandsStr
  <1> QED BY <1>1, <1>2, <1>4, <1>5, <1>7, QuietStep

LEMMA CopyResultSafe ==
  ASSUME TInv, SInv, NEW t \in Threads, CopyResult(t)
  PROVE  SInv'
  <1>1. pc[t] = "copy" /\ UNCHANGED <<keyTable, heap, driver>>
    BY CopyResultType
  <1>2. PICK e \in loc[t].ptrs : /\ Met("read", e[2] \notin liveStrs)
                                 /\ Moved(t, "copy", [loc[t] EXCEPT !.ptrs = @ \ {e}])
    BY CopyResultType
  <1> DEFINE l == [loc[t] EXCEPT !.ptrs = @ \ {e}]
  <1>3. pc[t] \in Holding /\ loc[t] \in Locals /\ loc[t].tab \in Tabs
        /\ loc[t].ptrs \subseteq Fields \X Strs
    BY <1>1, BusyFacts DEF Holding
  <1>4. /\ HandsTab(pc[t], loc[t]) /\ HandsScan(pc[t], loc[t]) /\ HandsRead(pc[t], loc[t])
        /\ HandsCopy(pc[t], loc[t])
        /\ \A u \in Threads \ {t} : pc[u] = "destroy" => loc[u].tab # loc[t].tab
    BY <1>3, MyHands
  <1>5. ub' = ub
    <2>1. e[1] \in Fields /\ e[2] \in Strs /\ fieldOf[loc[t].tab][e[1]] = e[2]
      BY <1>1, <1>2, <1>3, <1>4 DEF HandsCopy
    <2>2. e[2] \in liveStrs
      BY <1>3, <2>1, Nothing DEF SInv, Slots
    <2> QED BY <1>2, <2>2 DEF Met
  <1>6. /\ l.op = loc[t].op /\ l.key = loc[t].key /\ l.tab = loc[t].tab
        /\ l.scan = loc[t].scan /\ l.ptrs \subseteq loc[t].ptrs
    BY <1>3 DEF Locals
  <1>7. Moved(t, "copy", l)
    BY <1>2
  <1> HIDE DEF l
  <1>8. Hands("copy", l)
    BY <1>1, <1>3, <1>4, <1>6
       DEF Hands, HandsTab, HandsScan, HandsRead, HandsDestroy, HandsCopy, HandsStr
  <1> QED BY <1>1, <1>4, <1>5, <1>6, <1>7, <1>8, QuietStep

LEMMA EndCopySafe ==
  ASSUME TInv, SInv, NEW t \in Threads, EndCopy(t)
  PROVE  SInv'
  <1>1. /\ pc[t] = "copy" /\ UNCHANGED <<keyTable, heap, driver, ub>>
        /\ Moved(t, "field", loc[t])
    BY EndCopyType
  <1>2. /\ HandsTab(pc[t], loc[t]) /\ HandsScan(pc[t], loc[t]) /\ HandsRead(pc[t], loc[t])
        /\ \A u \in Threads \ {t} : pc[u] = "destroy" => loc[u].tab # loc[t].tab
    BY <1>1, MyHands DEF Holding
  <1>3. Hands("field", loc[t])
    BY <1>1, <1>2
       DEF Hands, HandsTab, HandsScan, HandsRead, HandsDestroy, HandsCopy, HandsStr, Holding
  <1> QED BY <1>1, <1>2, <1>3, QuietStep

LEMMA EndFieldsSafe ==
  ASSUME TInv, SInv, NEW t \in Threads, EndFields(t)
  PROVE  SInv'
  <1>1. /\ pc[t] = "field" /\ UNCHANGED <<keyTable, heap, driver, ub>>
        /\ (loc[t].op = "Scan" /\ Moved(t, "scan", loc[t])) \/ Moved(t, "idle", Idle)
    BY EndFieldsType
  <1>2. CASE Moved(t, "idle", Idle)
    BY <1>1, <1>2, LetsGo
  <1>3. CASE loc[t].op = "Scan" /\ Moved(t, "scan", loc[t])
    <2>1. HandsScan(pc[t], loc[t])
      BY MyHands
    <2>2. Hands("scan", loc[t]) /\ "scan" \notin Holding
      BY <1>1, <2>1
         DEF Hands, HandsTab, HandsScan, HandsRead, HandsDestroy, HandsCopy, HandsStr, Holding
    <2> QED BY <1>1, <1>3, <2>2, QuietStep
  <1> QED BY <1>1, <1>2, <1>3

-----------------------------------------------------------------------------
(* The steps that change the tables or the heap. *)

LEMMA AttachSafe ==
  ASSUME TInv, SInv, NEW t \in Threads, Attach(t)
  PROVE  SInv'
  <1>1. pc[t] = "attach" /\ UNCHANGED <<liveStrs, content, driver, ub>>
    BY AttachType
  <1>2. PICK n \in Tabs \ liveTabs :
          /\ liveTabs' = liveTabs \cup {n}
          /\ fieldOf' = [fieldOf EXCEPT ![n] = NoFields]
          /\ keyTable' = [keyTable EXCEPT ![loc[t].key] = IF @ = NULL THEN n ELSE @]
          /\ Moved(t, pc'[t], [loc[t] EXCEPT !.tab = n])
          /\ pc'[t] \in {"fresh", "insert"}
    BY AttachType
  <1>3. PICK p \in {"fresh", "insert"} : p = pc'[t]
    BY <1>2
  <1>4. loc[t] \in Locals /\ loc[t].key \in Keys
    BY <1>1, BusyFacts
  <1>5. PICK l : l = [loc[t] EXCEPT !.tab = n]
    OBVIOUS
  <1>6. l.key = loc[t].key /\ l.tab = n /\ l.op = loc[t].op
    BY <1>4, <1>5 DEF Locals
  <1>7. Moved(t, p, l)
    BY <1>2, <1>3, <1>5
  <1>8. /\ \A k \in Keys : keyTable[k] # n
        /\ \A k \in Keys : keyTable'[k] = keyTable[k]
                           \/ (k = loc[t].key /\ keyTable[k] = NULL /\ keyTable'[k] = n)
    BY <1>2, <1>4, HeapParts, Nothing DEF SInv, Tables
  <1>9. \A m \in Tabs : fieldOf'[m] = IF m = n THEN NoFields ELSE fieldOf[m]
    BY <1>2, HeapParts
  <1>10. \A f \in Fields : NoFields[f] = NULL
    BY DEF NoFields
  <1>11. Tables'
    BY <1>2, <1>4, <1>8, HeapParts DEF SInv, Tables
  <1>12. Slots'
    <2>1. \A m \in Tabs, f \in Fields : fieldOf'[m][f] # NULL => fieldOf'[m][f] = fieldOf[m][f]
      BY <1>9, <1>10
    <2> QED BY <1>1, <2>1 DEF SInv, Slots
  <1>13. Hands(p, l)'
    <2>1. HandsTab(p, l)'
      BY <1>2, <1>6, <1>8 DEF HandsTab
    <2>2. (HandsScan(p, l) /\ HandsRead(p, l) /\ HandsDestroy(p, l) /\ HandsCopy(p, l)
           /\ HandsStr(p, l))'
      BY DEF HandsScan, HandsRead, HandsDestroy, HandsCopy, HandsStr
    <2> QED BY <2>1, <2>2 DEF Hands
  <1>14. ASSUME NEW q, NEW m, NEW u \in Threads \ {t}, q = pc[u], m = loc[u]
         PROVE  Hands(q, m)' /\ Apart(p, l, q, m) /\ Apart(q, m, p, l)
    <2>1. /\ HandsTab(q, m) /\ HandsScan(q, m) /\ HandsRead(q, m)
          /\ HandsDestroy(q, m) /\ HandsCopy(q, m) /\ HandsStr(q, m)
      BY <1>14, MyHands
    <2>2. /\ q \in Holding => m.tab \in Tabs /\ m.tab \in liveTabs /\ m.tab # n
          /\ q # "idle" => m.key \in Keys
      <3>1. q \in Holding => q # "idle"
        BY DEF Holding
      <3> QED BY <1>2, <1>14, <2>1, <3>1, BusyFacts DEF HandsTab
    <2>3. HandsTab(q, m)'
      BY <1>2, <1>8, <2>1, <2>2 DEF HandsTab
    <2>4. HandsScan(q, m)'
      BY <1>2, <2>1 DEF HandsScan
    <2>5. HandsRead(q, m)'
      BY <1>8, <2>1, <2>2, Nothing DEF HandsRead, Holding
    <2>6. HandsDestroy(q, m)'
      BY <1>8, <2>1, <2>2 DEF HandsDestroy, Holding
    <2>7. HandsCopy(q, m)'
      BY <1>9, <2>1, <2>2 DEF HandsCopy, Holding
    <2>8. HandsStr(q, m)'
      <3>1. q \in {"missing", "delete"} => m.str \in Strs
        BY <1>14, BusyFacts
      <3> QED BY <1>1, <1>9, <1>10, <2>1, <3>1, Nothing DEF HandsStr
    <2>9. Apart(p, l, q, m) /\ Apart(q, m, p, l)
      BY <1>6, <2>2 DEF Apart, Holding
    <2> QED BY <2>3, <2>4, <2>5, <2>6, <2>7, <2>8, <2>9 DEF Hands
  <1>15. InHands'
    <2>1. InHands
      BY DEF SInv
    <2> QED BY <1>7, <1>13, <1>14, <2>1, HandsStep
  <1> QED BY <1>1, <1>11, <1>12, <1>15 DEF SInv

(* What holds of the hands of any thread. *)
LEMMA AnyHands ==
  ASSUME TInv, SInv, NEW u \in Threads, NEW q, NEW m, q = pc[u], m = loc[u]
  PROVE  /\ HandsTab(q, m) /\ HandsScan(q, m) /\ HandsRead(q, m)
         /\ HandsDestroy(q, m) /\ HandsCopy(q, m) /\ HandsStr(q, m)
         /\ q \in Holding => m.tab \in Tabs /\ m.key \in Keys
         /\ q \in {"missing", "delete"} => m.str \in Strs
         /\ m.ptrs \subseteq Fields \X Strs
  <1>1. q \in Holding \cup {"missing", "delete"} => q # "idle"
    BY DEF Holding
  <1>2. loc[u] \in Locals
    BY DEF TInv, ThreadType
  <1>3. m.ptrs \subseteq Fields \X Strs
    BY <1>2, LocalsParts
  <1> QED BY <1>1, <1>3, MyHands, BusyFacts

(* A string that is in no table goes to a field. *)
LEMMA StoreSlots ==
  ASSUME Slots, NEW n \in Tabs, NEW f \in Fields, NEW s \in Strs,
         Stores(n, f, s), s \in liveStrs', liveStrs \subseteq liveStrs',
         \A j \in Tabs, g \in Fields : fieldOf[j][g] # s
  PROVE  Slots'
  <1>1. /\ fieldOf'[n][f] = s
        /\ \A j \in Tabs, g \in Fields : <<j, g>> # <<n, f>> => fieldOf'[j][g] = fieldOf[j][g]
    BY DEF Stores
  <1>2. \A j \in Tabs, g \in Fields : fieldOf'[j][g] # NULL => fieldOf'[j][g] \in liveStrs'
    BY <1>1 DEF Slots
  <1>3. ASSUME NEW i \in Tabs, NEW j \in Tabs, NEW g \in Fields, NEW h \in Fields,
               fieldOf'[i][g] # NULL, fieldOf'[i][g] = fieldOf'[j][h]
        PROVE  i = j /\ g = h
    BY <1>1, <1>3 DEF Slots
  <1> QED BY <1>2, <1>3 DEF Slots

LEMMA StoreHands ==
  ASSUME NEW n \in Tabs, NEW f \in Fields, NEW s \in Strs, Stores(n, f, s),
         liveStrs \subseteq liveStrs', UNCHANGED <<keyTable, liveTabs>>, NEW q, NEW m,
         HandsTab(q, m), HandsScan(q, m), HandsRead(q, m),
         HandsDestroy(q, m), HandsCopy(q, m), HandsStr(q, m),
         q \in Holding => m.tab \in Tabs, m.ptrs \subseteq Fields \X Strs,
         q \in {"missing", "delete"} => m.str # s,
         q = "copy" => m.tab # n \/ fieldOf[n][f] = NULL
  PROVE  Hands(q, m)'
  <1>1. (HandsTab(q, m) /\ HandsScan(q, m) /\ HandsRead(q, m) /\ HandsDestroy(q, m))'
    BY DEF HandsTab, HandsScan, HandsRead, HandsDestroy
  <1>2. HandsCopy(q, m)'
    <2> SUFFICES ASSUME q = "copy", NEW e \in m.ptrs PROVE fieldOf'[m.tab][e[1]] = e[2]
      BY DEF HandsCopy
    <2>1. m.tab \in Tabs /\ e[1] \in Fields /\ e[2] \in Strs /\ fieldOf[m.tab][e[1]] = e[2]
      BY DEF HandsCopy, Holding
    <2>2. <<m.tab, e[1]>> # <<n, f>>
      BY <2>1, Nothing
    <2> QED BY <2>1, <2>2 DEF Stores
  <1>3. HandsStr(q, m)'
    BY DEF HandsStr, Stores
  <1> QED BY <1>1, <1>2, <1>3 DEF Hands

(* The hands of the threads other than t stay in order when t stores a string. *)
LEMMA StoreOthers ==
  ASSUME TInv, SInv, NEW t \in Threads, NEW n \in Tabs, NEW f \in Fields, NEW s \in Strs,
         Stores(n, f, s), liveStrs \subseteq liveStrs', UNCHANGED <<keyTable, liveTabs>>,
         \A u \in Threads \ {t} : pc[u] \in {"missing", "delete"} => loc[u].str # s,
         \A u \in Threads \ {t} : pc[u] = "copy" => loc[u].tab # n \/ fieldOf[n][f] = NULL,
         NEW u \in Threads \ {t}, NEW q, NEW m, q = pc[u], m = loc[u]
  PROVE  Hands(q, m)'
  <1>1. /\ HandsTab(q, m) /\ HandsScan(q, m) /\ HandsRead(q, m)
        /\ HandsDestroy(q, m) /\ HandsCopy(q, m) /\ HandsStr(q, m)
        /\ q \in Holding => m.tab \in Tabs
        /\ m.ptrs \subseteq Fields \X Strs
    BY AnyHands
  <1>2. /\ q \in {"missing", "delete"} => m.str # s
        /\ q = "copy" => m.tab # n \/ fieldOf[n][f] = NULL
    OBVIOUS
  <1> QED BY <1>1, <1>2, StoreHands

(* More strings are allocated, and nothing else changes. *)
LEMMA GrowHands ==
  ASSUME UNCHANGED <<keyTable, fieldOf, liveTabs>>, liveStrs \subseteq liveStrs', NEW q, NEW m,
         HandsTab(q, m), HandsScan(q, m), HandsRead(q, m),
         HandsDestroy(q, m), HandsCopy(q, m), HandsStr(q, m)
  PROVE  Hands(q, m)'
  BY DEF Hands, HandsTab, HandsScan, HandsRead, HandsDestroy, HandsCopy, HandsStr

LEMMA SameTables ==
  ASSUME SInv, UNCHANGED <<keyTable, liveTabs>>
  PROVE  Tables'
  BY DEF SInv, Tables

LEMMA GrowSlots ==
  ASSUME SInv, fieldOf' = fieldOf, liveStrs \subseteq liveStrs'
  PROVE  Slots'
  BY DEF SInv, Slots

(* A string just copied is in no table and in nobody's hands. *)
LEMMA NewString ==
  ASSUME TInv, SInv, NEW t \in Threads, NEW s \in Strs, CopyString(t, s)
  PROVE  /\ s \notin liveStrs /\ s \in liveStrs' /\ liveStrs \subseteq liveStrs'
         /\ \A n \in Tabs, f \in Fields : fieldOf[n][f] # s
         /\ \A u \in Threads : pc[u] \in {"missing", "delete"} => loc[u].str # s
  <1>1. s \notin liveStrs /\ s \in liveStrs' /\ liveStrs \subseteq liveStrs'
    BY DEF CopyString
  <1>2. \A n \in Tabs, f \in Fields : fieldOf[n][f] # s
    BY <1>1, Nothing DEF SInv, Slots
  <1>3. \A u \in Threads : pc[u] \in {"missing", "delete"} => loc[u].str # s
    BY <1>1, MyHands DEF HandsStr
  <1> QED BY <1>1, <1>2, <1>3

(* Between two fields the thread has a table in its hands, and no string. *)
LEMMA BetweenFields ==
  ASSUME TInv, SInv, NEW t \in Threads, NEW p \in {"fresh", "insert", "update"},
         pc[t] \in Holding, NEW l, l.tab = loc[t].tab, l.op = loc[t].op, l.key = loc[t].key
  PROVE  /\ HandsTab(p, l) /\ HandsScan(p, l) /\ HandsRead(p, l)
         /\ HandsDestroy(p, l) /\ HandsCopy(p, l) /\ HandsStr(p, l)
         /\ p \notin {"missing", "delete", "copy"}
         /\ \A u \in Threads \ {t} :
              Apart(p, l, pc[u], loc[u]) /\ Apart(pc[u], loc[u], p, l)
  <1>1. /\ HandsTab(pc[t], loc[t])
        /\ \A u \in Threads \ {t} : pc[u] = "destroy" => loc[u].tab # loc[t].tab
    BY MyHands
  <1>2. HandsTab(p, l)
    BY <1>1 DEF HandsTab
  <1>3. /\ HandsScan(p, l) /\ HandsRead(p, l)
        /\ HandsDestroy(p, l) /\ HandsCopy(p, l) /\ HandsStr(p, l)
        /\ p \notin {"missing", "delete", "copy"}
    BY DEF HandsScan, HandsRead, HandsDestroy, HandsCopy, HandsStr
  <1>4. \A u \in Threads \ {t} :
          Apart(p, l, pc[u], loc[u]) /\ Apart(pc[u], loc[u], p, l)
    BY <1>1 DEF Apart
  <1> QED BY <1>2, <1>3, <1>4

(* The field of the table in a thread's hands that it is about to write. *)
LEMMA NextSlot ==
  ASSUME TInv, NEW t \in Threads, pc[t] \in Holding, loc[t].todo # <<>>
  PROVE  loc[t].tab \in Tabs /\ Head(loc[t].todo) \in Fields
  <1>1. pc[t] # "idle"
    BY DEF Holding
  <1> QED BY <1>1, BusyFacts, HeadTail

LEMMA NewFieldSafe ==
  ASSUME TInv, SInv, NEW t \in Threads,
         \/ UpdateFresh(t)
         \/ InsertField(t) /\ fieldOf[loc[t].tab][Head(loc[t].todo)] = NULL
  PROVE  SInv'
  <1>1. /\ pc[t] \in {"fresh", "insert"} /\ loc[t].todo # <<>> /\ UsesTab(t)
        /\ UNCHANGED <<keyTable, liveTabs, driver>>
    BY NewFieldType
  <1>2. PICK s \in Strs : CopyString(t, s) /\ (Fills(t, s) \/ Drops(t))
    BY NewFieldType
  <1>3. PICK l \in Locals : Moved(t, pc[t], l) /\ AtNext(t, l, NULL)
    BY NewFieldType
  <1>4. PICK p \in {"fresh", "insert"} : p = pc[t]
    BY <1>1
  <1>5. pc[t] \in Holding /\ l.tab = loc[t].tab /\ l.op = loc[t].op /\ l.key = loc[t].key
        /\ Moved(t, p, l) /\ p \in {"fresh", "insert", "update"}
    BY <1>1, <1>3, <1>4 DEF Holding, AtNext
  <1>6. ub' = ub
    BY <1>1, <1>5, UseStep
  <1>7. /\ s \notin liveStrs /\ s \in liveStrs' /\ liveStrs \subseteq liveStrs'
        /\ \A n \in Tabs, f \in Fields : fieldOf[n][f] # s
        /\ \A u \in Threads : pc[u] \in {"missing", "delete"} => loc[u].str # s
    BY <1>2, NewString
  <1>8. loc[t].tab \in Tabs /\ Head(loc[t].todo) \in Fields
    BY <1>1, <1>5, NextSlot
  <1>9. /\ HandsTab(p, l) /\ HandsScan(p, l) /\ HandsRead(p, l)
        /\ HandsDestroy(p, l) /\ HandsCopy(p, l) /\ HandsStr(p, l)
        /\ p \notin {"missing", "delete", "copy"}
        /\ \A u \in Threads \ {t} :
             Apart(p, l, pc[u], loc[u]) /\ Apart(pc[u], loc[u], p, l)
    BY <1>5, BetweenFields
  <1>10. Slots' /\ Hands(p, l)'
         /\ \A q, m : (\E u \in Threads \ {t} : q = pc[u] /\ m = loc[u]) => Hands(q, m)'
    <2>1. CASE Fills(t, s)
      <3>1. PICK n \in Tabs, f \in Fields : n = loc[t].tab /\ f = Head(loc[t].todo)
        BY <1>8
      <3>2. fieldOf' = [fieldOf EXCEPT ![n][f] = s] /\ fieldOf[n][f] = NULL
        BY <2>1, <3>1 DEF Fills
      <3>3. Stores(n, f, s)
        BY <3>2, StoreType
      <3>4. Slots'
        BY <1>7, <3>3, StoreSlots DEF SInv
      <3>5. l.ptrs \subseteq Fields \X Strs
        BY LocalsParts
      <3>6. Hands(p, l)'
        BY <1>1, <1>5, <1>7, <1>8, <1>9, <3>2, <3>3, <3>5, StoreHands
      <3>7. ASSUME NEW q, NEW m, NEW u \in Threads \ {t}, q = pc[u], m = loc[u]
            PROVE  Hands(q, m)'
        BY <1>1, <1>7, <3>2, <3>3, <3>7, StoreOthers
      <3> QED BY <3>4, <3>6, <3>7
    <2>2. CASE Drops(t)
      <3>1. fieldOf' = fieldOf
        BY <2>2 DEF Drops
      <3>2. Slots' /\ Hands(p, l)'
        BY <1>1, <1>7, <1>9, <3>1, GrowSlots, GrowHands
      <3>3. ASSUME NEW q, NEW m, NEW u \in Threads \ {t}, q = pc[u], m = loc[u]
            PROVE  Hands(q, m)'
        BY <1>1, <1>7, <3>1, <3>3, AnyHands, GrowHands
      <3> QED BY <3>2, <3>3
    <2> QED BY <1>2, <2>1, <2>2
  <1>11. InHands'
    <2>1. InHands
      BY DEF SInv
    <2> QED BY <1>5, <1>9, <1>10, <2>1, HandsStep
  <1>12. Tables'
    BY <1>1, SameTables
  <1> QED BY <1>6, <1>10, <1>11, <1>12 DEF SInv

(* Only this thread reads a field of the table whose record it updates. *)
LEMMA NoReader ==
  ASSUME TInv, SInv, Separate(workload), NEW t \in Threads, pc[t] \in Holding,
         loc[t].op = "Update", NEW u \in Threads \ {t}, pc[u] = "copy"
  PROVE  loc[u].tab # loc[t].tab
  <1>1. pc[t] # "idle" /\ pc[u] # "idle" /\ t # u /\ pc[u] \in Holding
    BY DEF Holding
  <1>2. loc[u].op \in {"Read", "Scan"} /\ loc[u].key \in Keys /\ loc[t].key \in Keys
    BY <1>1, BusyFacts DEF OpsAt
  <1>3. loc[u].op = "Read" /\ loc[u].key # loc[t].key
    BY <1>1, <1>2, Exclusion
  <1>4. keyTable[loc[u].key] = loc[u].tab
    BY <1>3, MyHands DEF HandsRead
  <1>5. HandsTab(pc[t], loc[t])
    BY MyHands
  <1> QED BY <1>2, <1>3, <1>4, <1>5 DEF HandsTab

LEMMA UpdateFieldSafe ==
  ASSUME TInv, SInv, Separate(workload), NEW t \in Threads, UpdateField(t)
  PROVE  SInv'
  <1>1. /\ pc[t] = "update" /\ loc[t].todo # <<>> /\ UsesTab(t)
        /\ UNCHANGED <<keyTable, liveTabs, driver>>
    BY UpdateFieldType
  <1>2. pc[t] \in Holding /\ loc[t].op = "Update" /\ pc[t] # "idle" /\ loc[t] \in Locals
    BY <1>1, BusyFacts DEF Holding, OpsAt
  <1>3. PICK n \in Tabs, f \in Fields : n = loc[t].tab /\ f = Head(loc[t].todo)
    BY <1>1, <1>2, NextSlot
  <1>4. PICK s \in Strs, l \in Locals : CopyString(t, s) /\
          \/ /\ fieldOf[n][f] # NULL /\ fieldOf' = [fieldOf EXCEPT ![n][f] = s]
             /\ Moved(t, "delete", l) /\ AtNext(t, l, fieldOf[n][f])
          \/ /\ fieldOf[n][f] = NULL /\ fieldOf' = fieldOf
             /\ Moved(t, "missing", l)
             /\ l = [loc[t] EXCEPT !.str = s]
    BY <1>3, UpdateFieldType
  <1>5. ub' = ub
    BY <1>1, <1>2, UseStep
  <1>6. /\ s \notin liveStrs /\ s \in liveStrs' /\ liveStrs \subseteq liveStrs'
        /\ \A j \in Tabs, g \in Fields : fieldOf[j][g] # s
        /\ \A u \in Threads : pc[u] \in {"missing", "delete"} => loc[u].str # s
    BY <1>4, NewString
  <1>7. /\ l.tab = n /\ l.op = loc[t].op /\ l.key = loc[t].key /\ l.ptrs \subseteq Fields \X Strs
        /\ l.op = "Update"
    BY <1>2, <1>3, <1>4, LocalsParts DEF AtNext, Locals
  <1>8. /\ HandsTab(pc[t], loc[t])
        /\ \A u \in Threads \ {t} : pc[u] = "destroy" => loc[u].tab # n
    BY <1>2, <1>3, MyHands
  <1>9. ASSUME NEW p \in {"missing", "delete"}
        PROVE  /\ HandsTab(p, l) /\ HandsScan(p, l) /\ HandsRead(p, l)
               /\ HandsDestroy(p, l) /\ HandsCopy(p, l) /\ p \in Holding
    BY <1>2, <1>3, <1>7, <1>8 DEF HandsTab, HandsScan, HandsRead, HandsDestroy, HandsCopy, Holding
  <1>10. Tables' /\ InHands
    BY <1>1, SameTables DEF SInv
  <1>11. CASE fieldOf[n][f] # NULL
    <2>1. /\ fieldOf' = [fieldOf EXCEPT ![n][f] = s] /\ Moved(t, "delete", l)
          /\ l.str = fieldOf[n][f]
      BY <1>4, <1>11 DEF AtNext
    <2>2. Stores(n, f, s)
      BY <2>1, StoreType
    <2>3. Slots'
      BY <1>6, <2>2, StoreSlots DEF SInv
    <2>4. Slots /\ fieldOf[n][f] \in liveStrs
      BY <1>11 DEF SInv, Slots
    <2>5. (HandsTab("delete", l) /\ HandsScan("delete", l) /\ HandsRead("delete", l)
           /\ HandsDestroy("delete", l) /\ HandsCopy("delete", l))'
      BY <1>1, <1>7, <1>9 DEF HandsTab, HandsScan, HandsRead, HandsDestroy, HandsCopy
    <2>6. HandsStr("delete", l)'
      <3>1. l.str \in liveStrs'
        BY <1>6, <2>1, <2>4
      <3>2. \A j \in Tabs, g \in Fields : fieldOf'[j][g] # l.str
        BY <1>6, <1>11, <2>1, <2>2, <2>4 DEF Stores, Slots
      <3> QED BY <3>1, <3>2 DEF HandsStr
    <2>7. Hands("delete", l)'
      BY <2>5, <2>6 DEF Hands
    <2>8. ASSUME NEW q, NEW m, NEW u \in Threads \ {t}, q = pc[u], m = loc[u]
          PROVE  Hands(q, m)' /\ Apart("delete", l, q, m) /\ Apart(q, m, "delete", l)
      <3>1. \A v \in Threads \ {t} : pc[v] = "copy" => loc[v].tab # n \/ fieldOf[n][f] = NULL
        BY <1>2, <1>3, NoReader
      <3>2. Hands(q, m)'
        BY <1>1, <1>6, <2>2, <2>8, <3>1, StoreOthers
      <3>3. q \in {"missing", "delete"} => m.str # l.str
        BY <2>1, <2>8, MyHands DEF HandsStr
      <3> QED BY <1>7, <1>8, <2>8, <3>2, <3>3 DEF Apart
    <2>9. InHands'
      BY <1>10, <2>1, <2>7, <2>8, HandsStep
    <2> QED BY <1>5, <1>10, <2>3, <2>9 DEF SInv
  <1>12. CASE fieldOf[n][f] = NULL
    <2>1. fieldOf' = fieldOf /\ Moved(t, "missing", l) /\ l = [loc[t] EXCEPT !.str = s]
      BY <1>4, <1>12
    <2>2. l.str = s
      BY <1>2, <2>1 DEF Locals
    <2>3. Slots'
      BY <1>6, <2>1, GrowSlots
    <2>4. (HandsTab("missing", l) /\ HandsScan("missing", l) /\ HandsRead("missing", l)
           /\ HandsDestroy("missing", l) /\ HandsCopy("missing", l))'
      BY <1>1, <1>7, <1>9 DEF HandsTab, HandsScan, HandsRead, HandsDestroy, HandsCopy
    <2>5. HandsStr("missing", l)'
      BY <1>6, <2>1, <2>2 DEF HandsStr
    <2>6. Hands("missing", l)'
      BY <2>4, <2>5 DEF Hands
    <2>7. ASSUME NEW q, NEW m, NEW u \in Threads \ {t}, q = pc[u], m = loc[u]
          PROVE  Hands(q, m)' /\ Apart("missing", l, q, m) /\ Apart(q, m, "missing", l)
      <3>1. Hands(q, m)'
        BY <1>1, <1>6, <2>1, <2>7, AnyHands, GrowHands
      <3>2. q \in {"missing", "delete"} => m.str # l.str
        BY <1>6, <2>2, <2>7
      <3> QED BY <1>7, <1>8, <2>7, <3>1, <3>2 DEF Apart
    <2>8. InHands'
      BY <1>10, <2>1, <2>6, <2>7, HandsStep
    <2> QED BY <1>5, <1>10, <2>3, <2>8 DEF SInv
  <1> QED BY <1>11, <1>12

(* InsertField() of a field that is there: the copy is in the thread's hands. *)
LEMMA ConflictSafe ==
  ASSUME TInv, SInv, NEW t \in Threads, InsertField(t),
         fieldOf[loc[t].tab][Head(loc[t].todo)] # NULL
  PROVE  SInv'
  <1>1. /\ pc[t] = "insert" /\ UsesTab(t) /\ UNCHANGED <<keyTable, fieldOf, liveTabs, driver>>
        /\ \E s \in Strs : CopyString(t, s) /\ Moved(t, "delete", [loc[t] EXCEPT !.str = s])
    BY ConflictType
  <1>2. pc[t] \in Holding /\ loc[t].op = "Insert" /\ pc[t] # "idle" /\ loc[t] \in Locals
    BY <1>1, BusyFacts DEF Holding, OpsAt
  <1>3. PICK s \in Strs : CopyString(t, s) /\ Moved(t, "delete", [loc[t] EXCEPT !.str = s])
    BY <1>1
  <1>4. PICK l \in Locals : l = [loc[t] EXCEPT !.str = s]
    BY <1>2 DEF Locals
  <1>5. /\ l.tab = loc[t].tab /\ l.op = loc[t].op /\ l.key = loc[t].key /\ l.str = s
        /\ Moved(t, "delete", l)
    BY <1>2, <1>3, <1>4 DEF Locals
  <1>6. ub' = ub
    BY <1>1, <1>2, UseStep
  <1>7. /\ s \notin liveStrs /\ s \in liveStrs' /\ liveStrs \subseteq liveStrs'
        /\ \A j \in Tabs, g \in Fields : fieldOf[j][g] # s
        /\ \A u \in Threads : pc[u] \in {"missing", "delete"} => loc[u].str # s
    BY <1>3, NewString
  <1>8. /\ HandsTab(pc[t], loc[t])
        /\ \A u \in Threads \ {t} : pc[u] = "destroy" => loc[u].tab # loc[t].tab
    BY <1>2, MyHands
  <1>9. (HandsTab("delete", l) /\ HandsScan("delete", l) /\ HandsRead("delete", l)
         /\ HandsDestroy("delete", l) /\ HandsCopy("delete", l))'
    BY <1>1, <1>2, <1>5, <1>8 DEF HandsTab, HandsScan, HandsRead, HandsDestroy, HandsCopy
  <1>10. HandsStr("delete", l)'
    BY <1>1, <1>5, <1>7 DEF HandsStr
  <1>11. Hands("delete", l)'
    BY <1>9, <1>10 DEF Hands
  <1>12. ASSUME NEW q, NEW m, NEW u \in Threads \ {t}, q = pc[u], m = loc[u]
         PROVE  Hands(q, m)' /\ Apart("delete", l, q, m) /\ Apart(q, m, "delete", l)
    <2>1. Hands(q, m)'
      BY <1>1, <1>7, <1>12, AnyHands, GrowHands
    <2>2. q \in {"missing", "delete"} => m.str # l.str
      BY <1>5, <1>7, <1>12
    <2> QED BY <1>5, <1>8, <1>12, <2>1, <2>2 DEF Apart
  <1>13. InHands'
    <2>1. InHands
      BY DEF SInv
    <2> QED BY <1>5, <1>11, <1>12, <2>1, HandsStep
  <1>14. Tables' /\ Slots'
    BY <1>1, <1>7, SameTables, GrowSlots
  <1> QED BY <1>6, <1>13, <1>14 DEF SInv

LEMMA UpdateMissingSafe ==
  ASSUME TInv, SInv, NEW t \in Threads, UpdateMissing(t)
  PROVE  SInv'
  <1>1. /\ pc[t] = "missing" /\ loc[t].todo # <<>> /\ UsesTab(t)
        /\ UNCHANGED <<keyTable, liveTabs, liveStrs>> /\ (Fills(t, loc[t].str) \/ Drops(t))
    BY UpdateMissingType
  <1>2. pc[t] \in Holding /\ pc[t] # "idle" /\ loc[t].str \in Strs
    BY <1>1, BusyFacts DEF Holding
  <1>3. PICK n \in Tabs, f \in Fields, s \in Strs :
          n = loc[t].tab /\ f = Head(loc[t].todo) /\ s = loc[t].str
    BY <1>1, <1>2, NextSlot
  <1>4. PICK l \in Locals : Moved(t, "update", l) /\ AtNext(t, l, NULL)
    BY UpdateMissingType
  <1>5. ub' = ub
    BY <1>1, <1>2, UseStep
  <1>6. l.tab = loc[t].tab /\ l.op = loc[t].op /\ l.key = loc[t].key /\ l.ptrs \subseteq Fields \X Strs
    BY <1>4, LocalsParts DEF AtNext
  <1>7. /\ HandsTab("update", l) /\ HandsScan("update", l) /\ HandsRead("update", l)
        /\ HandsDestroy("update", l) /\ HandsCopy("update", l) /\ HandsStr("update", l)
        /\ \A u \in Threads \ {t} :
             Apart("update", l, pc[u], loc[u]) /\ Apart(pc[u], loc[u], "update", l)
    BY <1>2, <1>6, BetweenFields
  <1>8. /\ s \in liveStrs /\ \A j \in Tabs, g \in Fields : fieldOf[j][g] # s
    BY <1>1, <1>3, MyHands DEF HandsStr
  <1>9. \A u \in Threads \ {t} : pc[u] \in {"missing", "delete"} => loc[u].str # s
    <2>1. \A u \in Threads \ {t} : Apart(pc[t], loc[t], pc[u], loc[u])
      BY DEF SInv, InHands
    <2> QED BY <1>1, <1>3, <2>1 DEF Apart
  <1>10. Slots' /\ Hands("update", l)'
         /\ \A q, m : (\E u \in Threads \ {t} : q = pc[u] /\ m = loc[u]) => Hands(q, m)'
    <2>1. CASE Fills(t, loc[t].str)
      <3>1. fieldOf' = [fieldOf EXCEPT ![n][f] = s] /\ fieldOf[n][f] = NULL
        BY <1>3, <2>1 DEF Fills
      <3>2. Stores(n, f, s) /\ liveStrs \subseteq liveStrs' /\ s \in liveStrs'
        BY <1>1, <1>8, <3>1, StoreType
      <3>3. Slots'
        BY <1>8, <3>2, StoreSlots DEF SInv
      <3>4. Hands("update", l)'
        BY <1>1, <1>3, <1>6, <1>7, <3>1, <3>2, StoreHands
      <3>5. ASSUME NEW q, NEW m, NEW u \in Threads \ {t}, q = pc[u], m = loc[u]
            PROVE  Hands(q, m)'
        BY <1>1, <1>9, <3>1, <3>2, <3>5, StoreOthers
      <3> QED BY <3>3, <3>4, <3>5
    <2>2. CASE Drops(t)
      <3>1. fieldOf' = fieldOf /\ liveStrs \subseteq liveStrs'
        BY <1>1, <2>2 DEF Drops
      <3>2. Slots' /\ Hands("update", l)'
        BY <1>1, <1>7, <3>1, GrowSlots, GrowHands
      <3>3. ASSUME NEW q, NEW m, NEW u \in Threads \ {t}, q = pc[u], m = loc[u]
            PROVE  Hands(q, m)'
        BY <1>1, <3>1, <3>3, AnyHands, GrowHands
      <3> QED BY <3>2, <3>3
    <2> QED BY <1>1, <2>1, <2>2
  <1>11. InHands'
    <2>1. InHands
      BY DEF SInv
    <2> QED BY <1>4, <1>7, <1>10, <2>1, HandsStep
  <1>12. Tables'
    BY <1>1, SameTables
  <1> QED BY <1>5, <1>10, <1>11, <1>12 DEF SInv

(* The string in a thread's hands is deleted, and it goes on with less. *)
LEMMA FreesString ==
  ASSUME TInv, SInv, NEW t \in Threads, pc[t] = "delete", DeleteStrings({loc[t].str}),
         UNCHANGED <<keyTable, fieldOf, liveTabs>>, NEW p \in {"idle", "update"}, NEW l,
         Moved(t, p, l), Hands(p, l), \A u \in Threads \ {t} :
           Apart(p, l, pc[u], loc[u]) /\ Apart(pc[u], loc[u], p, l)
  PROVE  SInv'
  <1>1. pc[t] \in Holding /\ pc[t] # "idle" /\ loc[t].str \in Strs
    BY BusyFacts DEF Holding
  <1>2. PICK s \in Strs : s = loc[t].str
    BY <1>1
  <1>3. /\ s \in liveStrs /\ \A j \in Tabs, g \in Fields : fieldOf[j][g] # s
    BY <1>2, MyHands DEF HandsStr
  <1>4. \A u \in Threads \ {t} : pc[u] \in {"missing", "delete"} => loc[u].str # s
    <2>1. \A u \in Threads \ {t} : Apart(pc[t], loc[t], pc[u], loc[u])
      BY DEF SInv, InHands
    <2> QED BY <1>2, <2>1 DEF Apart
  <1>5. liveStrs' = liveStrs \ {s}
    BY <1>2 DEF DeleteStrings
  <1>6. ub' = ub
    <2>1. {s} \ liveStrs = {}
      BY <1>3
    <2>2. Met("free", {s} \ liveStrs # {})
      BY <1>2 DEF DeleteStrings
    <2> QED BY <2>1, <2>2 DEF Met
  <1>7. Slots'
    BY <1>3, <1>5 DEF SInv, Slots
  <1>8. Hands(p, l)'
    BY DEF Hands, HandsTab, HandsScan, HandsRead, HandsDestroy, HandsCopy, HandsStr
  <1>9. ASSUME NEW q, NEW m, NEW u \in Threads \ {t}, q = pc[u], m = loc[u]
         PROVE  Hands(q, m)' /\ Apart(p, l, q, m) /\ Apart(q, m, p, l)
    <2>1. /\ HandsTab(q, m) /\ HandsScan(q, m) /\ HandsRead(q, m)
          /\ HandsDestroy(q, m) /\ HandsCopy(q, m) /\ HandsStr(q, m)
      BY <1>9, AnyHands
    <2>2. (HandsTab(q, m) /\ HandsScan(q, m) /\ HandsRead(q, m)
           /\ HandsDestroy(q, m) /\ HandsCopy(q, m))'
      BY <2>1 DEF HandsTab, HandsScan, HandsRead, HandsDestroy, HandsCopy
    <2>3. HandsStr(q, m)'
      BY <1>4, <1>5, <1>9, <2>1 DEF HandsStr
    <2> QED BY <1>9, <2>2, <2>3 DEF Hands
  <1>10. InHands'
    <2>1. InHands
      BY DEF SInv
    <2> QED BY <1>8, <1>9, <2>1, HandsStep
  <1>11. Tables'
    BY SameTables
  <1> QED BY <1>6, <1>7, <1>10, <1>11 DEF SInv

LEMMA DeleteOldSafe ==
  ASSUME TInv, SInv, NEW t \in Threads, DeleteOld(t)
  PROVE  SInv'
  <1>1. /\ pc[t] = "delete" /\ DeleteStrings({loc[t].str})
        /\ UNCHANGED <<keyTable, fieldOf, liveTabs, driver>>
        /\ Moved(t, "update", [loc[t] EXCEPT !.str = NULL])
    BY DeleteOldType
  <1>2. pc[t] \in Holding /\ pc[t] # "idle" /\ loc[t] \in Locals
    BY <1>1, BusyFacts DEF Holding
  <1>3. PICK l \in Locals : l = [loc[t] EXCEPT !.str = NULL]
    BY <1>2 DEF Locals
  <1>4. l.tab = loc[t].tab /\ l.op = loc[t].op /\ l.key = loc[t].key /\ Moved(t, "update", l)
    BY <1>1, <1>2, <1>3 DEF Locals
  <1>5. Hands("update", l) /\ \A u \in Threads \ {t} :
          Apart("update", l, pc[u], loc[u]) /\ Apart(pc[u], loc[u], "update", l)
    BY <1>2, <1>4, BetweenFields DEF Hands
  <1> QED BY <1>1, <1>4, <1>5, FreesString

(* InsertConflict(): the copy that the table refused is deleted. *)
LEMMA RefusedSafe ==
  ASSUME TInv, SInv, NEW t \in Threads, InsertConflict(t)
  PROVE  SInv'
  <1>1. /\ pc[t] = "delete" /\ DeleteStrings({loc[t].str})
        /\ UNCHANGED <<keyTable, fieldOf, liveTabs, driver>> /\ Moved(t, "idle", Idle)
    BY RefusedType
  <1>2. Hands("idle", Idle) /\ "idle" \notin Holding
    BY EmptyHands
  <1>3. \A u \in Threads \ {t} :
          Apart("idle", Idle, pc[u], loc[u]) /\ Apart(pc[u], loc[u], "idle", Idle)
    BY <1>2 DEF Apart
  <1> QED BY <1>1, <1>2, <1>3, FreesString

LEMMA RemoveSafe ==
  ASSUME TInv, SInv, Separate(workload), NEW t \in Threads, Remove(t)
  PROVE  SInv'
  <1>1. /\ pc[t] = "remove" /\ UNCHANGED <<heap, driver, ub>>
        /\ keyTable' = [keyTable EXCEPT ![loc[t].key] = NULL]
    BY RemoveType
  <1>2. loc[t] \in Locals /\ loc[t].op = "Delete" /\ loc[t].key \in Keys /\ pc[t] # "idle"
    BY <1>1, BusyFacts DEF OpsAt
  <1>3. PICK k \in Keys, n \in Tabs \cup {NULL} : k = loc[t].key /\ n = keyTable[k]
    BY <1>2, HeapParts
  <1>4. \/ n = NULL /\ Moved(t, "idle", Idle)
        \/ n # NULL /\ Moved(t, "destroy", [loc[t] EXCEPT !.tab = n])
    BY <1>3, RemoveType
  <1>5. UNCHANGED <<fieldOf, liveTabs, liveStrs>> /\ ub' = {}
    BY <1>1 DEF heap, SInv
  <1>6. \A j \in Keys : keyTable'[j] = IF j = k THEN NULL ELSE keyTable[j]
    BY <1>1, <1>3, HeapParts
  <1>7. CASE n = NULL
    <2>1. keyTable' = keyTable
      BY <1>1, <1>3, <1>7, HeapParts
    <2>2. UNCHANGED <<keyTable, heap>> /\ Moved(t, "idle", Idle)
      BY <1>1, <1>4, <1>7, <2>1
    <2> QED BY <1>1, <2>2, LetsGo
  <1>8. CASE n # NULL
    <2>1. PICK l : l = [loc[t] EXCEPT !.tab = n]
      OBVIOUS
    <2>2. Moved(t, "destroy", l) /\ l.tab = n
      BY <1>2, <1>4, <1>8, <2>1 DEF Locals
    <2>3. Tables /\ n \in liveTabs
      BY <1>3, <1>8 DEF SInv, Tables
    <2>4. Tables'
      BY <1>5, <1>6, <2>3 DEF Tables
    <2>5. Slots'
      BY <1>5 DEF SInv, Slots
    <2>6. \A j \in Keys : keyTable'[j] # n
      BY <1>3, <1>6, <1>8, <2>3 DEF Tables
    <2>7. Hands("destroy", l)'
      BY <1>5, <2>2, <2>3, <2>6
         DEF Hands, HandsTab, HandsScan, HandsRead, HandsDestroy, HandsCopy, HandsStr
    <2>8. ASSUME NEW q, NEW m, NEW u \in Threads \ {t}, q = pc[u], m = loc[u]
          PROVE  Hands(q, m)' /\ Apart("destroy", l, q, m) /\ Apart(q, m, "destroy", l)
      <3>1. /\ HandsTab(q, m) /\ HandsScan(q, m) /\ HandsRead(q, m)
            /\ HandsDestroy(q, m) /\ HandsCopy(q, m) /\ HandsStr(q, m)
            /\ q \in Holding => m.tab \in Tabs /\ m.key \in Keys
        BY <2>8, AnyHands
      <3>2. q \in Holding => m.op # "Scan" /\ m.key # k
        <4>1. q \in Holding => q # "idle"
          BY DEF Holding
        <4>2. pc[u] # "idle" => loc[u].op # "Scan" /\ loc[u].key # loc[t].key
          BY <1>2, Exclusion
        <4> QED BY <1>3, <2>8, <4>1, <4>2
      <3>3. HandsTab(q, m)' /\ HandsDestroy(q, m)'
        BY <1>5, <1>6, <3>1, Nothing DEF HandsTab, HandsDestroy, Holding
      <3>4. HandsRead(q, m)'
        BY <1>6, <3>1, <3>2 DEF HandsRead, Holding
      <3>5. HandsScan(q, m)' /\ HandsCopy(q, m)' /\ HandsStr(q, m)'
        BY <1>5, <3>1 DEF HandsScan, HandsCopy, HandsStr
      <3>6. q \in Holding => m.tab # n
        BY <1>3, <3>1, <3>2 DEF HandsTab
      <3>7. Apart("destroy", l, q, m) /\ Apart(q, m, "destroy", l)
        BY <2>2, <3>6 DEF Apart, Holding
      <3> QED BY <3>3, <3>4, <3>5, <3>7 DEF Hands
    <2>9. InHands'
      <3>1. InHands
        BY DEF SInv
      <3> QED BY <2>2, <2>7, <2>8, <3>1, HandsStep
    <2> QED BY <1>5, <2>4, <2>5, <2>9 DEF SInv
  <1> QED BY <1>7, <1>8

LEMMA DestroySafe ==
  ASSUME TInv, SInv, Separate(workload), NEW t \in Threads, Destroy(t)
  PROVE  SInv'
  <1>1. /\ pc[t] = "destroy" /\ UNCHANGED keyTable
        /\ DeleteStrings({e[2] : e \in Entries(loc[t].tab)})
        /\ liveTabs' = liveTabs \ {loc[t].tab}
        /\ fieldOf' = [fieldOf EXCEPT ![loc[t].tab] = NoFields]
        /\ Moved(t, "idle", Idle)
    BY DestroyType
  <1>2. pc[t] \in Holding /\ pc[t] # "idle" /\ loc[t].tab \in Tabs /\ loc[t].op = "Delete"
    BY <1>1, BusyFacts DEF Holding, OpsAt
  <1>3. PICK n \in Tabs : n = loc[t].tab
    BY <1>2
  <1>4. PICK S : S = {e[2] : e \in Entries(n)}
    OBVIOUS
  <1>5. /\ \A s \in S : \E f \in Fields : fieldOf[n][f] = s /\ s # NULL
        /\ S \subseteq liveStrs
    <2>1. ASSUME NEW s \in S PROVE \E f \in Fields : fieldOf[n][f] = s /\ s # NULL
      BY <1>4, EntriesType
    <2> QED BY <2>1 DEF SInv, Slots
  <1>6. DeleteStrings(S)
    BY <1>1, <1>3, <1>4
  <1>7. liveStrs' = liveStrs \ S
    BY <1>6 DEF DeleteStrings
  <1>8. ub' = {}
    <2>1. S \ liveStrs = {}
      BY <1>5
    <2>2. Met("free", S \ liveStrs # {})
      BY <1>6 DEF DeleteStrings
    <2> QED BY <2>1, <2>2 DEF Met, SInv
  <1>9. \A j \in Tabs : fieldOf'[j] = IF j = n THEN NoFields ELSE fieldOf[j]
    BY <1>1, <1>3, HeapParts
  <1>10. \A f \in Fields : NoFields[f] = NULL
    BY DEF NoFields
  <1>11. \A k \in Keys : keyTable[k] # n
    BY <1>1, <1>3, MyHands DEF HandsDestroy
  <1>12. Tables'
    BY <1>1, <1>3, <1>11 DEF SInv, Tables
  <1>13. Slots'
    <2>1. Slots
      BY DEF SInv
    <2>2. \A j \in Tabs, f \in Fields :
            fieldOf'[j][f] # NULL => j # n /\ fieldOf'[j][f] = fieldOf[j][f]
      BY <1>9, <1>10
    <2>3. \A j \in Tabs, f \in Fields : fieldOf'[j][f] # NULL => fieldOf'[j][f] \in liveStrs'
      BY <1>5, <1>7, <2>1, <2>2 DEF Slots
    <2>4. ASSUME NEW i \in Tabs, NEW j \in Tabs, NEW g \in Fields, NEW h \in Fields,
                 fieldOf'[i][g] # NULL, fieldOf'[i][g] = fieldOf'[j][h]
          PROVE  i = j /\ g = h
      BY <2>1, <2>2, <2>4 DEF Slots
    <2> QED BY <2>3, <2>4 DEF Slots
  <1>14. Hands("idle", Idle)'
    BY DEF Hands, HandsTab, HandsScan, HandsRead, HandsDestroy, HandsCopy, HandsStr, Holding
  <1>15. ASSUME NEW q, NEW m, NEW u \in Threads \ {t}, q = pc[u], m = loc[u]
         PROVE  Hands(q, m)' /\ Apart("idle", Idle, q, m) /\ Apart(q, m, "idle", Idle)
    <2>1. /\ HandsTab(q, m) /\ HandsScan(q, m) /\ HandsRead(q, m)
          /\ HandsDestroy(q, m) /\ HandsCopy(q, m) /\ HandsStr(q, m)
          /\ q \in Holding => m.tab \in Tabs /\ m.key \in Keys
      BY <1>15, AnyHands
    <2>2. q \in Holding => m.tab # n
      <3>1. Apart(pc[t], loc[t], pc[u], loc[u])
        BY DEF SInv, InHands
      <3> QED BY <1>1, <1>3, <1>15, <3>1 DEF Apart
    <2>3. q # "idle" => m.op # "Scan"
      BY <1>2, <1>15, Exclusion
    <2>4. HandsTab(q, m)' /\ HandsRead(q, m)' /\ HandsDestroy(q, m)'
      BY <1>1, <1>3, <2>1, <2>2 DEF HandsTab, HandsRead, HandsDestroy
    <2>5. HandsScan(q, m)'
      BY <2>3 DEF HandsScan
    <2>6. HandsCopy(q, m)'
      BY <1>9, <2>1, <2>2 DEF HandsCopy, Holding
    <2>7. HandsStr(q, m)'
      <3> SUFFICES ASSUME q \in {"missing", "delete"}
                   PROVE  m.str \in liveStrs' /\ \A j \in Tabs, f \in Fields : fieldOf'[j][f] # m.str
        BY DEF HandsStr
      <3>1. m.str \in liveStrs /\ (\A j \in Tabs, f \in Fields : fieldOf[j][f] # m.str)
            /\ m.str \in Strs
        BY <1>15, <2>1, AnyHands DEF HandsStr
      <3>2. m.str \notin S
        BY <1>5, <3>1
      <3> QED BY <1>7, <1>9, <1>10, <3>1, <3>2, Nothing
    <2>8. Apart("idle", Idle, q, m) /\ Apart(q, m, "idle", Idle)
      BY DEF Apart, Holding
    <2> QED BY <2>4, <2>5, <2>6, <2>7, <2>8 DEF Hands
  <1>16. InHands'
    <2>1. InHands
      BY DEF SInv
    <2> QED BY <1>1, <1>14, <1>15, <2>1, HandsStep
  <1> QED BY <1>8, <1>12, <1>13, <1>16 DEF SInv

-----------------------------------------------------------------------------
(* Memory is used as it should. *)

LEMMA InitSafe == Init => SInv
  <1> SUFFICES ASSUME Init PROVE SInv
    OBVIOUS
  <1>1. /\ \A k \in Keys : keyTable[k] = NULL
        /\ \A n \in Tabs, f \in Fields : fieldOf[n][f] = NULL
        /\ ub = {} /\ \A t \in Threads : pc[t] = "idle"
    BY DEF Init, NoFields
  <1>2. Tables /\ Slots
    BY <1>1 DEF Tables, Slots
  <1>3. \A t \in Threads : Hands(pc[t], loc[t])
    BY <1>1, EmptyHands
  <1>4. \A t, u \in Threads : t # u => Apart(pc[t], loc[t], pc[u], loc[u])
    BY <1>1 DEF Apart
  <1> QED BY <1>1, <1>2, <1>3, <1>4 DEF SInv, InHands

LEMMA StepSafe ==
  ASSUME TInv, SInv, Separate(workload), NEW t \in Threads, Step(t)
  PROVE  SInv'
  <1>1. CASE Get(t) BY <1>1, GetSafe
  <1>2. CASE Attach(t) BY <1>2, AttachSafe
  <1>3. CASE UpdateFresh(t) BY <1>3, NewFieldSafe
  <1>4. CASE InsertField(t) BY <1>4, NewFieldSafe, ConflictSafe
  <1>5. CASE UpdateField(t) BY <1>5, UpdateFieldSafe
  <1>6. CASE UpdateMissing(t) BY <1>6, UpdateMissingSafe
  <1>7. CASE DeleteOld(t) BY <1>7, DeleteOldSafe
  <1>8. CASE ReturnOK(t)
    <2>1. UNCHANGED <<keyTable, heap, ub>> /\ Moved(t, "idle", Idle)
      BY <1>8, ReturnOKType
    <2> QED BY <2>1, LetsGo
  <1>9. CASE ScanEntries(t) BY <1>9, ScanEntriesSafe
  <1>10. CASE ScanNext(t) BY <1>10, ScanNextSafe
  <1>11. CASE Visit(t) BY <1>11, VisitSafe
  <1>12. CASE GetField(t) BY <1>12, GetFieldSafe
  <1>13. CASE CopyResult(t) BY <1>13, CopyResultSafe
  <1>14. CASE EndCopy(t) BY <1>14, EndCopySafe
  <1>15. CASE EndFields(t) BY <1>15, EndFieldsSafe
  <1>16. CASE Remove(t) BY <1>16, RemoveSafe
  <1>17. CASE Destroy(t) BY <1>17, DestroySafe
  <1>18. CASE InsertConflict(t) BY <1>18, RefusedSafe
  <1> QED BY <1>1, <1>2, <1>3, <1>4, <1>5, <1>6, <1>7, <1>8, <1>9, <1>10, <1>11, <1>12, <1>13,
             <1>14, <1>15, <1>16, <1>17, <1>18 DEF Step

LEMMA NextSafe ==
  ASSUME TInv, SInv, Separate(workload), [Next]_vars
  PROVE  SInv'
  <1>1. ASSUME NEW t \in Threads, Step(t) PROVE SInv'
    BY <1>1, StepSafe
  <1>2. ASSUME NEW t \in Threads, NEW k \in Keys, LoadInsert(t, k) PROVE SInv'
    <2>1. PICK l : UNCHANGED <<keyTable, heap, ub>> /\ Moved(t, "get", l)
      BY <1>2, LoadInsertType
    <2> QED BY <2>1, LetsGo
  <1>3. ASSUME NEW t \in Threads, NEW k \in Keys, NEW fs \in FieldLists \cup {<<>>},
               NEW op \in Operations, Call(t, op, k, fs)
        PROVE  SInv'
    <2>1. PICK p \in {"remove", "entries", "get"}, l \in Locals :
            UNCHANGED <<keyTable, heap, ub>> /\ Moved(t, p, l)
      BY <1>3, CallType
    <2> QED BY <2>1, LetsGo
  <1>4. CASE LoadDone \/ UNCHANGED vars
    <2>1. UNCHANGED <<keyTable, heap, ub, pc, loc>>
      BY <1>4, LoadDoneType DEF vars
    <2>2. UNCHANGED <<keyTable, fieldOf, liveTabs, liveStrs, ub, pc, loc>>
      BY <2>1 DEF heap
    <2>3. Tables' /\ Slots' /\ ub' = {}
      BY <2>2 DEF SInv, Tables, Slots
    <2>4. InHands'
      BY <2>2 DEF SInv, InHands, Hands, HandsTab, HandsScan, HandsRead, HandsDestroy, HandsCopy,
                  HandsStr, Apart
    <2> QED BY <2>3, <2>4 DEF SInv
  <1> QED BY <1>1, <1>2, <1>3, <1>4 DEF Next

LEMMA SafeInvariant ==
  ASSUME \A w \in Workloads : Separate(w)
  PROVE  Spec => []SInv
  <1>1. TInv => Separate(workload)
    BY DEF TInv, DriverType
  <1>2. Init => SInv
    BY InitSafe
  <1>3. SInv /\ TInv /\ [Next]_vars => SInv'
    BY <1>1, NextSafe
  <1> QED BY <1>2, <1>3, TypeInvariant, PTL DEF Spec

(***************************************************************************)
(* HashtableDB locks each table for one call at a time and nothing between *)
(* two calls.  Even so, when no thread deletes a record that another one   *)
(* uses nor updates one that another one reads, no dangling pointer is     *)
(* ever in the database, nothing is freed twice and nothing freed is used, *)
(* for any number of threads, records and fields.                          *)
(***************************************************************************)
THEOREM MemoryIsSafe ==
  ASSUME \A w \in Workloads : Separate(w)
  PROVE  Spec => []MemorySafe
  <1>1. TInv /\ SInv => MemorySafe
    <2> SUFFICES ASSUME TInv, SInv PROVE MemorySafe
      OBVIOUS
    <2>1. Tables /\ Slots /\ ub = {}
      BY DEF SInv
    <2>2. Attached \subseteq liveTabs /\ Attached \subseteq Tabs
      BY <2>1, HeapParts DEF Tables, Attached
    <2>3. Reachable \subseteq liveStrs
      <3> SUFFICES ASSUME NEW n \in Attached, NEW e \in Entries(n) PROVE e[2] \in liveStrs
        BY DEF Reachable
      <3> QED BY <2>1, <2>2, EntriesType DEF Slots
    <2>4. \A j, k \in Keys : j # k /\ keyTable[j] # NULL => keyTable[j] # keyTable[k]
      BY <2>1 DEF Tables
    <2>5. \A m, n \in Attached : \A f, g \in Fields :
            <<m, f>> # <<n, g>> /\ fieldOf[m][f] # NULL => fieldOf[m][f] # fieldOf[n][g]
      BY <2>1, <2>2 DEF Slots
    <2> QED BY <2>1, <2>2, <2>3, <2>4, <2>5 DEF MemorySafe, NoDanglingPointers, NoUseAfterFree
  <1> QED BY <1>1, TypeInvariant, SafeInvariant, PTL

-----------------------------------------------------------------------------
(***************************************************************************)
(* Nothing is lost.  Settled: the record was loaded, the load phase is     *)
(* over and nobody deletes it, so that several threads may write it.  Such *)
(* a record stays complete (Kept), as every loaded record is once its      *)
(* thread is done with it (Loaded).  A thread that writes any other record *)
(* is the only one to do so: the table it writes is the one its key names, *)
(* and the fields it found missing, or has still to fill in a new table,   *)
(* stay empty until it fills them (Writes).  Hence every allocated table   *)
(* is named by a key or about to be destroyed, and every allocated string  *)
(* is in a table or in the hands of a thread (Cells).                      *)
(***************************************************************************)
Somewhere(f, s) == \E i \in 1 .. Len(s) : s[i] = f
Full(k) == keyTable[k] # NULL /\ \A f \in Fields : fieldOf[keyTable[k]][f] # NULL
Settled(k) ==
  /\ ~loading /\ \E v \in Threads : k \in workload.load[v]
  /\ \A t \in Threads : ~May(workload, t, "Delete", k)
Kept == \A k \in Keys : Settled(k) => Full(k)
Loaded ==
  loading => \A t \in Threads : \A k \in workload.load[t] :
    IF k \in toLoad[t] THEN keyTable[k] = NULL ELSE Full(k) \/ (pc[t] # "idle" /\ loc[t].key = k)

Writing == {"fresh", "insert", "update", "missing", "delete"}
WritesTab(p, l) ==
  /\ p = "attach" => keyTable[l.key] = NULL
  /\ p \in Writing => keyTable[l.key] = l.tab
WritesNew(p, l) ==
  p = "fresh" \/ (loading /\ p = "insert") =>
    Distinct(l.todo) /\ \A f \in Fields : Somewhere(f, l.todo) => fieldOf[l.tab][f] = NULL
WritesMissing(p, l) == p = "missing" => fieldOf[l.tab][Head(l.todo)] = NULL
WritesList(p, l) == p \in {"get", "attach"} /\ l.op = "Update" => Distinct(l.todo)
LoadsList(t, p, l) ==
  loading /\ p # "idle" =>
    /\ l.key \notin toLoad[t] /\ p # "delete"
    /\ p = "get" => keyTable[l.key] = NULL
    /\ p \in {"get", "attach"} => l.todo = AllFields
    /\ p = "insert" => \A f \in Fields : fieldOf[l.tab][f] = NULL => Somewhere(f, l.todo)
Writes(t, p, l) ==
  /\ WritesTab(p, l) /\ WritesNew(p, l) /\ WritesMissing(p, l)
  /\ WritesList(p, l) /\ LoadsList(t, p, l)
AllWrites == \A t \in Threads : Writes(t, pc[t], loc[t])

Cells ==
  /\ \A n \in liveTabs : (\E k \in Keys : keyTable[k] = n)
       \/ (\E t \in Threads : pc[t] = "destroy" /\ loc[t].tab = n)
  /\ \A s \in liveStrs : (\E n \in liveTabs, f \in Fields : fieldOf[n][f] = s)
       \/ (\E t \in Threads : pc[t] \in {"missing", "delete"} /\ loc[t].str = s)

LInv == Kept /\ Loaded /\ AllWrites /\ Cells

(* A list without its head. *)
LEMMA RestOfList ==
  ASSUME NEW s \in Seq(Fields), s # <<>>, Distinct(s)
  PROVE  /\ Distinct(Tail(s)) /\ Somewhere(Head(s), s)
         /\ \A f : Somewhere(f, Tail(s)) => Somewhere(f, s) /\ f # Head(s)
         /\ \A f : Somewhere(f, s) /\ f # Head(s) => Somewhere(f, Tail(s))
  <1>1. /\ Len(s) \in Nat /\ Len(s) > 0 /\ Head(s) = s[1] /\ Len(Tail(s)) = Len(s) - 1
        /\ \A i \in 1 .. Len(s) - 1 : Tail(s)[i] = s[i + 1]
    BY HeadTailProperties, LenProperties, EmptySeq
  <1>2. Distinct(Tail(s))
    <2> SUFFICES ASSUME NEW i \in 1 .. Len(Tail(s)), NEW j \in 1 .. Len(Tail(s)),
                        Tail(s)[i] = Tail(s)[j]
                 PROVE  i = j
      BY DEF Distinct
    <2>1. i + 1 \in 1 .. Len(s) /\ j + 1 \in 1 .. Len(s) /\ s[i + 1] = s[j + 1]
      BY <1>1
    <2> QED BY <2>1 DEF Distinct
  <1>3. Somewhere(Head(s), s)
    BY <1>1 DEF Somewhere
  <1>4. ASSUME NEW f, Somewhere(f, Tail(s)) PROVE Somewhere(f, s) /\ f # Head(s)
    <2>1. PICK i \in 1 .. Len(Tail(s)) : Tail(s)[i] = f
      BY <1>4 DEF Somewhere
    <2>2. i + 1 \in 1 .. Len(s) /\ s[i + 1] = f /\ 1 \in 1 .. Len(s) /\ i + 1 # 1
      BY <1>1, <2>1
    <2> QED BY <1>1, <2>2 DEF Somewhere, Distinct
  <1>5. ASSUME NEW f, Somewhere(f, s), f # Head(s) PROVE Somewhere(f, Tail(s))
    <2>1. PICK i \in 1 .. Len(s) : s[i] = f
      BY <1>5 DEF Somewhere
    <2>2. i # 1 /\ i - 1 \in 1 .. Len(Tail(s)) /\ (i - 1) + 1 = i
      BY <1>1, <1>5, <2>1
    <2>3. Tail(s)[i - 1] = f
      BY <1>1, <2>1, <2>2
    <2> QED BY <2>2, <2>3 DEF Somewhere
  <1> QED BY <1>2, <1>3, <1>4, <1>5

(* Two threads write the same record only when it is settled. *)
LEMMA OnlyWriter ==
  ASSUME TInv, Separate(workload), Undisputed(workload), NEW t \in Threads, NEW u \in Threads,
         t # u, pc[t] # "idle", pc[u] # "idle", loc[t].key = loc[u].key,
         loc[t].op \in {"Update", "Insert"}, loc[u].op \in {"Update", "Insert"}
  PROVE  Settled(loc[t].key)
  <1>1. PICK k \in Keys : k = loc[t].key /\ k = loc[u].key /\ Called(t, loc[t]) /\ Called(u, loc[u])
    BY BusyFacts DEF Busy
  <1>2. CASE loading
    <2>1. k \in workload.load[t] /\ k \in workload.load[u]
      BY <1>1, <1>2 DEF Called
    <2> QED BY <2>1 DEF Undisputed
  <1>3. CASE ~loading
    <2>1. May(workload, t, loc[t].op, k) /\ May(workload, u, loc[u].op, k)
      BY <1>1, <1>3 DEF Called
    <2>2. \E v \in Threads : k \in workload.load[v]
      BY <2>1 DEF Undisputed
    <2>3. ASSUME NEW v \in Threads, May(workload, v, "Delete", k) PROVE FALSE
      <3>1. loc[t].op \in Operations /\ loc[u].op \in Operations
        BY BusyFacts
      <3>2. \A w \in Threads : w # v => \A op \in Operations : ~May(workload, w, op, k)
        BY <2>3 DEF Separate
      <3> QED BY <2>1, <3>1, <3>2
    <2> QED BY <1>1, <1>3, <2>2, <2>3 DEF Settled
  <1> QED BY <1>2, <1>3

(* In the load phase, a call is an insert of a record of the thread's own. *)
LEMMA LoadPhase ==
  ASSUME TInv, LInv, loading, NEW t \in Threads, pc[t] # "idle"
  PROVE  /\ loc[t].op = "Insert" /\ loc[t].key \in workload.load[t]
         /\ loc[t].key \notin toLoad[t]
  <1>1. Called(t, loc[t])
    BY BusyFacts DEF Busy
  <1>2. LoadsList(t, pc[t], loc[t])
    BY DEF LInv, AllWrites, Writes
  <1> QED BY <1>1, <1>2 DEF Called, LoadsList

(***************************************************************************)
(* A step of t in a call: what is to be shown of it.  Records that are     *)
(* complete stay so, a record still to be loaded is not there yet, and, in *)
(* the load phase, the call goes on or its record is complete.             *)
(***************************************************************************)
LEMMA WritesStep ==
  ASSUME TInv, LInv, Undisputed(workload), NEW t \in Threads, NEW p, NEW l, pc[t] # "idle",
         Moved(t, p, l), UNCHANGED driver, Writes(t, p, l)',
         \A u, q, m : u \in Threads \ {t} /\ q = pc[u] /\ m = loc[u] => Writes(u, q, m)',
         \A k \in Keys : Full(k) /\ (~loading => Settled(k)) => Full(k)',
         loading => /\ \A k \in Keys : k # loc[t].key => keyTable'[k] = keyTable[k]
                    /\ \A k \in Keys :
                         k = loc[t].key => (p # "idle" /\ l.key = k) \/ Full(k)',
         Cells'
  PROVE  LInv'
  <1>1. pc'[t] = p /\ loc'[t] = l /\ \A u \in Threads \ {t} : pc'[u] = pc[u] /\ loc'[u] = loc[u]
    BY DEF Moved
  <1>2. UNCHANGED <<workload, toLoad, loading>>
    BY DEF driver
  <1>3. AllWrites'
    <2> SUFFICES ASSUME NEW u \in Threads, NEW q, NEW m, q = pc'[u], m = loc'[u]
                 PROVE  Writes(u, q, m)'
      BY DEF AllWrites, Writes, WritesTab, WritesNew, WritesMissing, WritesList, LoadsList
    <2>1. CASE u = t
      BY <1>1, <2>1
    <2>2. CASE u # t
      BY <1>1, <2>2
    <2> QED BY <2>1, <2>2
  <1>4. Kept'
    <2>1. \A k \in Keys : Settled(k)' => Settled(k) /\ ~loading
      BY <1>2 DEF Settled, May
    <2>2. Kept
      BY DEF LInv
    <2> SUFFICES ASSUME NEW k \in Keys, Settled(k)' PROVE Full(k)'
      BY DEF Kept
    <2> QED BY <2>1, <2>2 DEF Kept
  <1>5. Loaded'
    <2> SUFFICES ASSUME loading, NEW u \in Threads, NEW k \in workload.load[u]
                 PROVE  IF k \in toLoad[u] THEN keyTable'[k] = NULL
                        ELSE Full(k)' \/ (pc'[u] # "idle" /\ loc'[u].key = k)
      BY <1>2 DEF Loaded
    <2>1. k \in Keys /\ toLoad[u] \subseteq workload.load[u]
      BY WorkloadsAssumption DEF TInv, DriverType
    <2>2. IF k \in toLoad[u] THEN keyTable[k] = NULL
          ELSE Full(k) \/ (pc[u] # "idle" /\ loc[u].key = k)
      BY DEF LInv, Loaded
    <2>3. loc[t].key \in workload.load[t] /\ loc[t].key \notin toLoad[t]
      BY LoadPhase
    <2>4. CASE k \in toLoad[u]
      <3>1. k # loc[t].key
        BY <2>1, <2>3, <2>4 DEF Undisputed
      <3> QED BY <2>1, <2>2, <2>4, <3>1
    <2>5. CASE k \notin toLoad[u]
      <3>1. CASE Full(k)
        BY <2>1, <2>5, <3>1
      <3>2. CASE pc[u] # "idle" /\ loc[u].key = k /\ u # t
        BY <1>1, <2>5, <3>2
      <3>3. CASE loc[t].key = k /\ u = t
        BY <1>1, <2>1, <2>5, <3>3
      <3> QED BY <2>2, <2>5, <3>1, <3>2, <3>3
    <2> QED BY <2>4, <2>5
  <1> QED BY <1>3, <1>4, <1>5 DEF LInv

(* A step that leaves the tables and the heap alone. *)
LEMMA QuietWrites ==
  ASSUME TInv, LInv, Undisputed(workload), NEW t \in Threads, NEW p, NEW l,
         pc[t] \notin {"idle", "destroy", "missing", "delete"}, Moved(t, p, l),
         UNCHANGED <<keyTable, heap, driver>>, Writes(t, p, l),
         loading => \A k \in Keys : k = loc[t].key => (p # "idle" /\ l.key = k) \/ Full(k)
  PROVE  LInv'
  <1>1. UNCHANGED <<keyTable, fieldOf, liveTabs, liveStrs>>
    BY DEF heap
  <1>2. UNCHANGED <<workload, toLoad, loading>>
    BY DEF driver
  <1>3. \A u, q, m : Writes(u, q, m) => Writes(u, q, m)'
    BY <1>1, <1>2 DEF Writes, WritesTab, WritesNew, WritesMissing, WritesList, LoadsList
  <1>4. \A k : Full(k) => Full(k)'
    BY <1>1 DEF Full
  <1>5. ASSUME NEW u, NEW q, NEW m, u \in Threads \ {t}, q = pc[u], m = loc[u]
        PROVE  Writes(u, q, m)'
    <2>1. Writes(u, pc[u], loc[u])
      BY <1>5 DEF LInv, AllWrites
    <2> QED BY <1>3, <1>5, <2>1
  <1>6. Cells'
    <2>1. Cells
      BY DEF LInv
    <2>2. \A u \in Threads : pc[u] \in {"destroy", "missing", "delete"} =>
            pc'[u] = pc[u] /\ loc'[u] = loc[u]
      BY DEF Moved
    <2> QED BY <1>1, <2>1, <2>2 DEF Cells
  <1> QED BY <1>1, <1>3, <1>4, <1>5, <1>6, WritesStep

(* A step outside the load phase to a place where nothing is written. *)
LEMMA ReadsOn ==
  ASSUME TInv, LInv, Undisputed(workload), NEW t \in Threads, NEW l,
         NEW p \in {"idle", "scan", "visit", "copy", "field"},
         pc[t] \notin {"idle", "destroy", "missing", "delete"}, Moved(t, p, l),
         UNCHANGED <<keyTable, heap, driver>>, ~loading
  PROVE  LInv'
  <1>1. Writes(t, p, l)
    BY DEF Writes, WritesTab, WritesNew, WritesMissing, WritesList, LoadsList, Writing
  <1> QED BY <1>1, QuietWrites

LEMMA ReadPhase ==
  ASSUME TInv, LInv, NEW t \in Threads, pc[t] \in {"entries", "scan", "visit", "copy", "field"}
  PROVE  ~loading
  <1>1. pc[t] # "idle" /\ loc[t].op \in {"Read", "Scan"}
    BY BusyFacts DEF OpsAt
  <1> QED BY <1>1, LoadPhase

LEMMA ReadLoses ==
  ASSUME TInv, LInv, Undisputed(workload), NEW t \in Threads,
         \/ ScanEntries(t) \/ ScanNext(t) \/ Visit(t) \/ GetField(t) \/ CopyResult(t)
         \/ EndCopy(t) \/ EndFields(t)
  PROVE  LInv'
  <1>1. /\ pc[t] \in {"entries", "scan", "visit", "copy", "field"}
        /\ UNCHANGED <<keyTable, heap, driver>>
    BY ScanEntriesType, ScanNextType, VisitType, GetFieldType, CopyResultType, EndCopyType,
       EndFieldsType
  <1>2. \E p \in {"idle", "scan", "visit", "copy", "field"} : \E l : Moved(t, p, l)
    <2>1. CASE ScanEntries(t) BY <2>1, ScanEntriesType
    <2>2. CASE ScanNext(t) BY <2>2, ScanNextType
    <2>3. CASE Visit(t) BY <2>3, VisitType
    <2>4. CASE GetField(t) BY <2>4, GetFieldType
    <2>5. CASE CopyResult(t) BY <2>5, CopyResultType
    <2>6. CASE EndCopy(t) BY <2>6, EndCopyType
    <2>7. CASE EndFields(t) BY <2>7, EndFieldsType
    <2> QED BY <2>1, <2>2, <2>3, <2>4, <2>5, <2>6, <2>7
  <1>3. PICK p \in {"idle", "scan", "visit", "copy", "field"} : \E l : Moved(t, p, l)
    BY <1>2
  <1>4. PICK l : Moved(t, p, l)
    BY <1>3
  <1>5. pc[t] \notin {"idle", "destroy", "missing", "delete"} /\ ~loading
    BY <1>1, ReadPhase
  <1> QED BY <1>1, <1>4, <1>5, ReadsOn

(* What the thread that takes the step knows. *)
LEMMA MyWrites ==
  ASSUME LInv, NEW t \in Threads
  PROVE  /\ WritesTab(pc[t], loc[t]) /\ WritesNew(pc[t], loc[t]) /\ WritesMissing(pc[t], loc[t])
         /\ WritesList(pc[t], loc[t]) /\ LoadsList(t, pc[t], loc[t]) /\ Kept /\ Loaded /\ Cells
  BY DEF LInv, AllWrites, Writes

LEMMA GetLoses ==
  ASSUME TInv, LInv, Undisputed(workload), NEW t \in Threads, Get(t)
  PROVE  LInv'
  <1>1. /\ pc[t] = "get" /\ UNCHANGED <<keyTable, heap, driver>>
        /\ pc[t] \notin {"idle", "destroy", "missing", "delete"}
    BY GetType
  <1>2. loc[t] \in Locals /\ loc[t].key \in Keys
    BY <1>1, BusyFacts
  <1>3. PICK n : n = keyTable[loc[t].key]
    OBVIOUS
  <1>4. /\ LoadsList(t, pc[t], loc[t]) /\ WritesList(pc[t], loc[t])
    BY MyWrites
  <1>5. ASSUME n # NULL, NEW p \in {"visit", "update", "insert"}, NEW l,
               l = [loc[t] EXCEPT !.tab = n], Moved(t, p, l)
        PROVE  LInv'
    <2>1. l.key = loc[t].key /\ l.tab = n
      BY <1>2, <1>5 DEF Locals
    <2>2. ~loading
      BY <1>1, <1>3, <1>4, <1>5 DEF LoadsList
    <2>3. Writes(t, p, l)
      BY <1>3, <2>1, <2>2 DEF Writes, WritesTab, WritesNew, WritesMissing, WritesList, LoadsList
    <2> QED BY <1>1, <1>5, <2>2, <2>3, QuietWrites
  <1>6. ASSUME n = NULL, Moved(t, "attach", loc[t]) PROVE LInv'
    <2>1. Writes(t, "attach", loc[t])
      BY <1>1, <1>3, <1>4, <1>6
         DEF Writes, WritesTab, WritesNew, WritesMissing, WritesList, LoadsList, Writing
    <2> QED BY <1>1, <1>6, <2>1, QuietWrites
  <1>7. ASSUME loc[t].op = "Read", Moved(t, "idle", Idle) PROVE LInv'
    <2>1. ~loading
      BY <1>1, <1>7, LoadPhase
    <2> QED BY <1>1, <1>7, <2>1, ReadsOn
  <1>8. \/ /\ n # NULL /\ pc'[t] \in {"visit", "update", "insert"}
           /\ Moved(t, pc'[t], [loc[t] EXCEPT !.tab = n])
        \/ n = NULL /\ Moved(t, "attach", loc[t])
        \/ loc[t].op = "Read" /\ Moved(t, "idle", Idle)
    BY <1>3, GetType
  <1> QED BY <1>5, <1>6, <1>7, <1>8

LEMMA ReturnOKLoses ==
  ASSUME TInv, LInv, Undisputed(workload), NEW t \in Threads, ReturnOK(t)
  PROVE  LInv'
  <1>1. /\ pc[t] \in {"fresh", "insert", "update"} /\ loc[t].todo = <<>>
        /\ UNCHANGED <<keyTable, heap, driver>> /\ Moved(t, "idle", Idle)
    BY ReturnOKType
  <1>2. CASE ~loading
    BY <1>1, <1>2, ReadsOn
  <1>3. CASE loading
    <2>1. pc[t] # "idle" /\ loc[t].tab \in Tabs /\ loc[t].op \in OpsAt(pc[t])
      BY <1>1, BusyFacts DEF Holding
    <2>2. pc[t] = "insert"
      BY <1>1, <1>3, <2>1, LoadPhase DEF OpsAt
    <2>3. WritesTab(pc[t], loc[t]) /\ LoadsList(t, pc[t], loc[t])
      BY MyWrites
    <2>4. \A f : ~Somewhere(f, <<>>)
      BY DEF Somewhere
    <2>5. \A f \in Fields : fieldOf[loc[t].tab][f] # NULL
      BY <1>1, <1>3, <2>2, <2>3, <2>4 DEF LoadsList
    <2>6. keyTable[loc[t].key] = loc[t].tab
      BY <2>2, <2>3 DEF WritesTab, Writing
    <2>7. Full(loc[t].key)
      BY <2>1, <2>5, <2>6, Nothing DEF Full
    <2>8. Writes(t, "idle", Idle)
      BY DEF Writes, WritesTab, WritesNew, WritesMissing, WritesList, LoadsList, Writing
    <2> QED BY <1>1, <2>7, <2>8, QuietWrites
  <1> QED BY <1>2, <1>3

(* Storing a string fills no field that another thread counts on being empty. *)
LEMMA StoreWrites ==
  ASSUME TInv, SInv, LInv, Separate(workload), Undisputed(workload), NEW t \in Threads,
         NEW n \in Tabs, NEW f \in Fields, NEW s \in Strs, n = loc[t].tab, pc[t] \in Writing,
         Stores(n, f, s), UNCHANGED <<keyTable, workload, toLoad, loading>>
  PROVE  /\ \A k \in Keys : Full(k) => Full(k)'
         /\ \A u, q, m : u \in Threads \ {t} /\ q = pc[u] /\ m = loc[u] => Writes(u, q, m)'
  <1>1. \A j \in Tabs, g \in Fields : fieldOf[j][g] # NULL => fieldOf'[j][g] # NULL
    BY Nothing DEF Stores
  <1>2. \A k \in Keys : Full(k) => Full(k)'
    BY <1>1, HeapParts DEF Full
  <1>3. ASSUME NEW u, NEW q, NEW m, u \in Threads \ {t}, q = pc[u], m = loc[u]
        PROVE  Writes(u, q, m)'
    <2>1. /\ WritesTab(q, m) /\ WritesNew(q, m) /\ WritesMissing(q, m)
          /\ WritesList(q, m) /\ LoadsList(u, q, m)
      BY <1>3, MyWrites
    <2>2. /\ q \in Writing => m.tab \in Tabs /\ m.key \in Keys /\ m.todo \in Seq(Fields)
          /\ q = "missing" => m.todo # <<>>
      BY <1>3, BusyFacts DEF Writing, Holding, Busy
    <2>3. ASSUME q \in Writing, m.tab = n PROVE fieldOf[n][f] # NULL
      <3>1. pc[t] # "idle" /\ pc[u] # "idle" /\ t # u
        BY <1>3, <2>3 DEF Writing
      <3>2. loc[t].key \in Keys /\ loc[t].op \in {"Update", "Insert"}
            /\ loc[u].op \in {"Update", "Insert"}
        BY <1>3, <2>3, <3>1, BusyFacts DEF OpsAt, Writing
      <3>3. keyTable[loc[t].key] = n /\ keyTable[loc[u].key] = n
        BY <1>3, <2>1, <2>3, MyWrites DEF WritesTab
      <3>4. loc[t].key = loc[u].key
        BY <1>3, <2>2, <2>3, <3>2, <3>3, Nothing DEF SInv, Tables
      <3>5. Settled(loc[t].key)
        BY <1>3, <3>1, <3>2, <3>4, OnlyWriter
      <3>6. Kept
        BY MyWrites
      <3> QED BY <3>2, <3>3, <3>5, <3>6 DEF Kept, Full
    <2>4. ASSUME q \in Writing, NEW g \in Fields, fieldOf[m.tab][g] = NULL
          PROVE  fieldOf'[m.tab][g] = NULL
      <3>1. <<m.tab, g>> # <<n, f>>
        BY <2>3, <2>4
      <3> QED BY <2>2, <2>4, <3>1 DEF Stores
    <2>5. WritesTab(q, m)' /\ WritesList(q, m)'
      BY <2>1 DEF WritesTab, WritesList
    <2>6. WritesNew(q, m)'
      BY <2>1, <2>4 DEF WritesNew, Writing
    <2>7. WritesMissing(q, m)'
      <3>1. q = "missing" => Head(m.todo) \in Fields /\ q \in Writing
        BY <2>2, HeadTail DEF Writing
      <3> QED BY <2>1, <2>4, <3>1 DEF WritesMissing
    <2>8. LoadsList(u, q, m)'
      <3>1. q = "insert" => \A g \in Fields : fieldOf'[m.tab][g] = NULL => fieldOf[m.tab][g] = NULL
        BY <1>1, <2>2 DEF Writing
      <3> QED BY <2>1, <3>1 DEF LoadsList
    <2> QED BY <2>5, <2>6, <2>7, <2>8 DEF Writes
  <1> QED BY <1>2, <1>3

(* What the cells are when t stores s in a field that held the string old, or nothing. *)
LEMMA StoreCells ==
  ASSUME TInv, LInv, NEW t \in Threads, NEW p, NEW l, Moved(t, p, l), pc[t] # "destroy",
         NEW n \in Tabs, NEW f \in Fields, NEW s \in Strs, n \in liveTabs, Stores(n, f, s),
         UNCHANGED <<keyTable, liveTabs>>, liveStrs' \subseteq liveStrs \cup {s},
         fieldOf[n][f] = NULL \/ (p \in {"missing", "delete"} /\ l.str = fieldOf[n][f]),
         pc[t] \in {"missing", "delete"} => loc[t].str = s
  PROVE  Cells'
  <1>1. /\ pc'[t] = p /\ loc'[t] = l
        /\ \A u \in Threads \ {t} : pc'[u] = pc[u] /\ loc'[u] = loc[u]
    BY DEF Moved
  <1>2. Cells
    BY DEF LInv
  <1>3. \A x \in liveTabs' : (\E k \in Keys : keyTable'[k] = x)
          \/ (\E u \in Threads : pc'[u] = "destroy" /\ loc'[u].tab = x)
    BY <1>1, <1>2 DEF Cells
  <1>4. ASSUME NEW r \in liveStrs'
        PROVE  (\E x \in liveTabs', g \in Fields : fieldOf'[x][g] = r)
               \/ (\E u \in Threads : pc'[u] \in {"missing", "delete"} /\ loc'[u].str = r)
    <2>1. CASE r = s
      BY <2>1 DEF Stores
    <2>2. CASE r # s
      <3>1. r \in liveStrs /\ r # NULL
        BY <2>2, HeapParts, Nothing
      <3>2. CASE \E u \in Threads : pc[u] \in {"missing", "delete"} /\ loc[u].str = r
        BY <1>1, <2>2, <3>2
      <3>3. ASSUME NEW x \in liveTabs, NEW g \in Fields, fieldOf[x][g] = r
            PROVE  (\E y \in liveTabs', h \in Fields : fieldOf'[y][h] = r)
                   \/ (\E u \in Threads : pc'[u] \in {"missing", "delete"} /\ loc'[u].str = r)
        <4>1. x \in Tabs
          BY HeapParts
        <4>2. CASE <<x, g>> # <<n, f>>
          BY <3>3, <4>1, <4>2 DEF Stores
        <4>3. CASE <<x, g>> = <<n, f>>
          BY <1>1, <3>1, <3>3, <4>3
        <4> QED BY <4>2, <4>3
      <3> QED BY <1>2, <3>1, <3>2, <3>3 DEF Cells
    <2> QED BY <2>1, <2>2
  <1> QED BY <1>3, <1>4 DEF Cells

LEMMA NewFieldLoses ==
  ASSUME TInv, SInv, LInv, Separate(workload), Undisputed(workload), NEW t \in Threads,
         \/ UpdateFresh(t)
         \/ InsertField(t) /\ fieldOf[loc[t].tab][Head(loc[t].todo)] = NULL
  PROVE  LInv'
  <1>1. /\ pc[t] \in {"fresh", "insert"} /\ loc[t].todo # <<>>
        /\ UNCHANGED <<keyTable, liveTabs, driver>>
    BY NewFieldType
  <1>2. PICK s \in Strs : CopyString(t, s) /\ (Fills(t, s) \/ (pc[t] = "fresh" /\ Drops(t)))
    BY NewFieldType
  <1>3. PICK l \in Locals : Moved(t, pc[t], l) /\ AtNext(t, l, NULL)
    BY NewFieldType
  <1>4. PICK p \in {"fresh", "insert"} : p = pc[t]
    BY <1>1
  <1>5. pc[t] # "idle" /\ pc[t] \in Holding /\ pc[t] \in Writing /\ loc[t].todo \in Seq(Fields)
    BY <1>1, BusyFacts DEF Holding, Writing
  <1>6. PICK n \in Tabs, f \in Fields : n = loc[t].tab /\ f = Head(loc[t].todo)
    BY <1>1, <1>5, NextSlot
  <1>7. /\ WritesTab(p, loc[t]) /\ WritesNew(p, loc[t]) /\ LoadsList(t, p, loc[t]) /\ Cells
    BY <1>4, MyWrites
  <1>8. p = "fresh" \/ loading =>
          /\ Distinct(loc[t].todo) /\ Distinct(l.todo) /\ Somewhere(f, loc[t].todo)
          /\ \A g : Somewhere(g, l.todo) => Somewhere(g, loc[t].todo) /\ g # f
          /\ \A g : Somewhere(g, loc[t].todo) /\ g # f => Somewhere(g, l.todo)
    <2>1. p = "fresh" \/ loading => Distinct(loc[t].todo)
      BY <1>7 DEF WritesNew
    <2>2. l.todo = Tail(loc[t].todo)
      BY <1>3 DEF AtNext
    <2> QED BY <1>1, <1>5, <1>6, <2>1, <2>2, RestOfList
  <1>9. fieldOf[n][f] = NULL /\ fieldOf' = [fieldOf EXCEPT ![n][f] = s]
    <2>1. p = "fresh" => fieldOf[n][f] = NULL
      BY <1>6, <1>7, <1>8 DEF WritesNew
    <2> QED BY <1>2, <1>4, <1>6, <2>1 DEF Fills, Drops
  <1>10. Stores(n, f, s)
    BY <1>9, StoreType
  <1>11. UNCHANGED <<workload, toLoad, loading>>
    BY <1>1 DEF driver
  <1>12. /\ \A k \in Keys : Full(k) => Full(k)'
         /\ \A u, q, m : u \in Threads \ {t} /\ q = pc[u] /\ m = loc[u] => Writes(u, q, m)'
    BY <1>1, <1>5, <1>6, <1>10, <1>11, StoreWrites
  <1>13. l.tab = n /\ l.key = loc[t].key /\ l.op = loc[t].op /\ Moved(t, p, l)
    BY <1>3, <1>4, <1>6 DEF AtNext
  <1>14. Writes(t, p, l)'
    <2>1. WritesTab(p, l)' /\ WritesMissing(p, l)' /\ WritesList(p, l)'
      BY <1>1, <1>6, <1>7, <1>13 DEF WritesTab, WritesMissing, WritesList, Writing
    <2>2. WritesNew(p, l)'
      BY <1>6, <1>7, <1>8, <1>10, <1>11, <1>13 DEF WritesNew, Stores
    <2>3. LoadsList(t, p, l)'
      BY <1>1, <1>6, <1>7, <1>8, <1>10, <1>11, <1>13, Nothing DEF LoadsList, Stores
    <2> QED BY <2>1, <2>2, <2>3 DEF Writes
  <1>15. Cells'
    <2>1. n \in liveTabs /\ liveStrs' = liveStrs \cup {s}
      BY <1>2, <1>5, <1>6, MyHands DEF HandsTab, CopyString
    <2> QED BY <1>1, <1>9, <1>10, <1>13, <2>1, StoreCells
  <1> QED BY <1>1, <1>4, <1>5, <1>12, <1>13, <1>14, <1>15, WritesStep

LEMMA UpdateMissingLoses ==
  ASSUME TInv, SInv, LInv, Separate(workload), Undisputed(workload), NEW t \in Threads,
         UpdateMissing(t)
  PROVE  LInv'
  <1>1. /\ pc[t] = "missing" /\ loc[t].todo # <<>>
        /\ UNCHANGED <<keyTable, liveTabs, liveStrs, driver>>
        /\ (Fills(t, loc[t].str) \/ Drops(t))
    BY UpdateMissingType
  <1>2. PICK l \in Locals : Moved(t, "update", l) /\ AtNext(t, l, NULL)
    BY UpdateMissingType
  <1>3. /\ pc[t] # "idle" /\ pc[t] \in Holding /\ pc[t] \in Writing /\ loc[t].str \in Strs
        /\ loc[t].op = "Update"
    BY <1>1, BusyFacts DEF Holding, Writing, OpsAt
  <1>4. PICK n \in Tabs, f \in Fields, s \in Strs :
          n = loc[t].tab /\ f = Head(loc[t].todo) /\ s = loc[t].str
    BY <1>1, <1>3, NextSlot
  <1>5. WritesTab("missing", loc[t]) /\ WritesMissing("missing", loc[t])
    BY <1>1, MyWrites
  <1>6. fieldOf[n][f] = NULL /\ fieldOf' = [fieldOf EXCEPT ![n][f] = s]
    BY <1>1, <1>4, <1>5 DEF WritesMissing, Fills, Drops
  <1>7. Stores(n, f, s)
    BY <1>6, StoreType
  <1>8. UNCHANGED <<workload, toLoad, loading>> /\ ~loading
    BY <1>1, <1>3, LoadPhase DEF driver
  <1>9. /\ \A k \in Keys : Full(k) => Full(k)'
        /\ \A u, q, m : u \in Threads \ {t} /\ q = pc[u] /\ m = loc[u] => Writes(u, q, m)'
    BY <1>1, <1>3, <1>4, <1>7, <1>8, StoreWrites
  <1>10. l.tab = n /\ l.key = loc[t].key
    BY <1>2, <1>4 DEF AtNext
  <1>11. Writes(t, "update", l)'
    BY <1>1, <1>4, <1>5, <1>8, <1>10
       DEF Writes, WritesTab, WritesNew, WritesMissing, WritesList, LoadsList, Writing
  <1>12. Cells'
    <2>1. n \in liveTabs /\ liveStrs' \subseteq liveStrs \cup {s}
      BY <1>1, <1>3, <1>4, MyHands DEF HandsTab
    <2> QED BY <1>1, <1>2, <1>4, <1>6, <1>7, <2>1, StoreCells
  <1> QED BY <1>1, <1>2, <1>3, <1>8, <1>9, <1>11, <1>12, WritesStep

LEMMA UpdateFieldLoses ==
  ASSUME TInv, SInv, LInv, Separate(workload), Undisputed(workload), NEW t \in Threads,
         UpdateField(t)
  PROVE  LInv'
  <1>1. /\ pc[t] = "update" /\ loc[t].todo # <<>> /\ UNCHANGED <<keyTable, liveTabs, driver>>
    BY UpdateFieldType
  <1>2. /\ pc[t] # "idle" /\ pc[t] \in Holding /\ pc[t] \in Writing /\ loc[t] \in Locals
        /\ loc[t].op = "Update"
    BY <1>1, BusyFacts DEF Holding, Writing, OpsAt
  <1>3. PICK n \in Tabs, f \in Fields : n = loc[t].tab /\ f = Head(loc[t].todo)
    BY <1>1, <1>2, NextSlot
  <1>4. PICK s \in Strs, l \in Locals : CopyString(t, s) /\
          \/ /\ fieldOf[n][f] # NULL /\ fieldOf' = [fieldOf EXCEPT ![n][f] = s]
             /\ Moved(t, "delete", l) /\ AtNext(t, l, fieldOf[n][f])
          \/ /\ fieldOf[n][f] = NULL /\ fieldOf' = fieldOf
             /\ Moved(t, "missing", l)
             /\ l = [loc[t] EXCEPT !.str = s]
    BY <1>3, UpdateFieldType
  <1>5. UNCHANGED <<workload, toLoad, loading>> /\ ~loading
    BY <1>1, <1>2, LoadPhase DEF driver
  <1>6. keyTable[loc[t].key] = n
    BY <1>2, <1>3, MyWrites DEF WritesTab
  <1>7. n \in liveTabs /\ liveStrs' = liveStrs \cup {s}
    BY <1>2, <1>3, <1>4, MyHands DEF HandsTab, CopyString
  <1>8. CASE fieldOf[n][f] # NULL
    <2>1. /\ fieldOf' = [fieldOf EXCEPT ![n][f] = s] /\ Moved(t, "delete", l)
          /\ l.str = fieldOf[n][f] /\ l.tab = n /\ l.key = loc[t].key
      BY <1>3, <1>4, <1>8 DEF AtNext
    <2>2. Stores(n, f, s)
      BY <2>1, StoreType
    <2>3. /\ \A k \in Keys : Full(k) => Full(k)'
          /\ \A u, q, m : u \in Threads \ {t} /\ q = pc[u] /\ m = loc[u] => Writes(u, q, m)'
      BY <1>1, <1>2, <1>3, <1>5, <2>2, StoreWrites
    <2>4. Writes(t, "delete", l)'
      BY <1>1, <1>5, <1>6, <2>1
         DEF Writes, WritesTab, WritesNew, WritesMissing, WritesList, LoadsList, Writing
    <2>5. Cells'
      BY <1>1, <1>7, <2>1, <2>2, StoreCells
    <2> QED BY <1>1, <1>2, <1>5, <2>1, <2>3, <2>4, <2>5, WritesStep
  <1>9. CASE fieldOf[n][f] = NULL
    <2>1. fieldOf' = fieldOf /\ Moved(t, "missing", l) /\ l = [loc[t] EXCEPT !.str = s]
      BY <1>4, <1>9
    <2>2. l.str = s /\ l.tab = n /\ l.key = loc[t].key /\ l.todo = loc[t].todo
      BY <1>2, <1>3, <2>1 DEF Locals
    <2>3. \A k \in Keys : Full(k) => Full(k)'
      BY <1>1, <2>1 DEF Full
    <2>4. ASSUME NEW u, NEW q, NEW m, u \in Threads \ {t}, q = pc[u], m = loc[u]
          PROVE  Writes(u, q, m)'
      <3>1. /\ WritesTab(q, m) /\ WritesNew(q, m) /\ WritesMissing(q, m)
            /\ WritesList(q, m) /\ LoadsList(u, q, m)
        BY <2>4, MyWrites
      <3> QED BY <1>1, <1>5, <2>1, <3>1
              DEF Writes, WritesTab, WritesNew, WritesMissing, WritesList, LoadsList
    <2>5. Writes(t, "missing", l)'
      BY <1>1, <1>3, <1>5, <1>6, <1>9, <2>1, <2>2
         DEF Writes, WritesTab, WritesNew, WritesMissing, WritesList, LoadsList, Writing
    <2>6. Cells'
      <3>1. /\ pc'[t] = "missing" /\ loc'[t].str = s
            /\ \A u \in Threads \ {t} : pc'[u] = pc[u] /\ loc'[u] = loc[u]
        BY <2>1, <2>2 DEF Moved
      <3>2. Cells
        BY MyWrites
      <3> QED BY <1>1, <1>7, <2>1, <3>1, <3>2 DEF Cells
    <2> QED BY <1>1, <1>2, <1>5, <2>1, <2>3, <2>4, <2>5, <2>6, WritesStep
  <1> QED BY <1>8, <1>9

(* InsertField() of a field that is there, which the load phase never meets. *)
LEMMA ConflictLoses ==
  ASSUME TInv, LInv, Undisputed(workload), NEW t \in Threads, InsertField(t),
         fieldOf[loc[t].tab][Head(loc[t].todo)] # NULL
  PROVE  LInv'
  <1>1. /\ pc[t] = "insert" /\ loc[t].todo # <<>>
        /\ UNCHANGED <<keyTable, fieldOf, liveTabs, driver>>
        /\ \E s \in Strs : CopyString(t, s) /\ Moved(t, "delete", [loc[t] EXCEPT !.str = s])
    BY ConflictType
  <1>2. /\ pc[t] # "idle" /\ pc[t] \in Writing /\ loc[t] \in Locals
        /\ loc[t].todo \in Seq(Fields) /\ Head(loc[t].todo) \in Fields
    BY <1>1, BusyFacts, HeadTail DEF Writing
  <1>3. PICK s \in Strs : CopyString(t, s) /\ Moved(t, "delete", [loc[t] EXCEPT !.str = s])
    BY <1>1
  <1>4. PICK l : l = [loc[t] EXCEPT !.str = s]
    OBVIOUS
  <1>5. l.tab = loc[t].tab /\ l.key = loc[t].key /\ l.str = s /\ Moved(t, "delete", l)
    BY <1>2, <1>3, <1>4 DEF Locals
  <1>6. UNCHANGED <<workload, toLoad, loading>> /\ ~loading
    <2>1. WritesNew(pc[t], loc[t])
      BY MyWrites
    <2> QED BY <1>1, <1>2, <2>1, RestOfList DEF WritesNew, driver
  <1>7. keyTable[loc[t].key] = loc[t].tab
    BY <1>2, MyWrites DEF WritesTab
  <1>8. Writes(t, "delete", l)'
    BY <1>1, <1>5, <1>6, <1>7
       DEF Writes, WritesTab, WritesNew, WritesMissing, WritesList, LoadsList, Writing
  <1>9. ASSUME NEW u, NEW q, NEW m, u \in Threads \ {t}, q = pc[u], m = loc[u]
        PROVE  Writes(u, q, m)'
    <2>1. /\ WritesTab(q, m) /\ WritesNew(q, m) /\ WritesMissing(q, m)
          /\ WritesList(q, m) /\ LoadsList(u, q, m)
      BY <1>9, MyWrites
    <2> QED BY <1>1, <1>6, <2>1
            DEF Writes, WritesTab, WritesNew, WritesMissing, WritesList, LoadsList
  <1>10. \A k \in Keys : Full(k) => Full(k)'
    BY <1>1 DEF Full
  <1>11. Cells'
    <2>1. /\ pc'[t] = "delete" /\ loc'[t].str = s /\ liveStrs' = liveStrs \cup {s}
          /\ \A u \in Threads \ {t} : pc'[u] = pc[u] /\ loc'[u] = loc[u]
      BY <1>3, <1>5 DEF Moved, CopyString
    <2>2. Cells
      BY MyWrites
    <2> QED BY <1>1, <2>1, <2>2 DEF Cells
  <1> QED BY <1>1, <1>2, <1>5, <1>6, <1>8, <1>9, <1>10, <1>11, WritesStep

(* The string in a thread's hands is deleted. *)
LEMMA FreesLoses ==
  ASSUME TInv, LInv, Undisputed(workload), NEW t \in Threads, pc[t] = "delete",
         DeleteStrings({loc[t].str}), UNCHANGED <<keyTable, fieldOf, liveTabs, driver>>,
         NEW p \in {"idle", "update"}, NEW l, Moved(t, p, l),
         p = "update" => l.tab = loc[t].tab /\ l.key = loc[t].key
  PROVE  LInv'
  <1>1. pc[t] # "idle" /\ pc[t] \in Writing
    BY DEF Writing
  <1>2. UNCHANGED <<workload, toLoad, loading>> /\ ~loading
    <2>1. LoadsList(t, pc[t], loc[t])
      BY MyWrites
    <2> QED BY <2>1 DEF LoadsList, driver
  <1>3. keyTable[loc[t].key] = loc[t].tab
    BY <1>1, MyWrites DEF WritesTab
  <1>4. Writes(t, p, l)'
    BY <1>2, <1>3
       DEF Writes, WritesTab, WritesNew, WritesMissing, WritesList, LoadsList, Writing
  <1>5. ASSUME NEW u, NEW q, NEW m, u \in Threads \ {t}, q = pc[u], m = loc[u]
        PROVE  Writes(u, q, m)'
    <2>1. /\ WritesTab(q, m) /\ WritesNew(q, m) /\ WritesMissing(q, m)
          /\ WritesList(q, m) /\ LoadsList(u, q, m)
      BY <1>5, MyWrites
    <2> QED BY <1>2, <2>1
            DEF Writes, WritesTab, WritesNew, WritesMissing, WritesList, LoadsList
  <1>6. \A k \in Keys : Full(k) => Full(k)'
    BY DEF Full
  <1>7. Cells'
    <2>1. /\ liveStrs' = liveStrs \ {loc[t].str}
          /\ \A u \in Threads \ {t} : pc'[u] = pc[u] /\ loc'[u] = loc[u]
      BY DEF Moved, DeleteStrings
    <2>2. Cells
      BY MyWrites
    <2> QED BY <2>1, <2>2 DEF Cells
  <1> QED BY <1>1, <1>2, <1>4, <1>5, <1>6, <1>7, WritesStep

LEMMA DeleteOldLoses ==
  ASSUME TInv, LInv, Undisputed(workload), NEW t \in Threads,
         DeleteOld(t) \/ InsertConflict(t)
  PROVE  LInv'
  <1>1. CASE DeleteOld(t)
    <2>1. /\ pc[t] = "delete" /\ DeleteStrings({loc[t].str})
          /\ UNCHANGED <<keyTable, fieldOf, liveTabs, driver>>
          /\ Moved(t, "update", [loc[t] EXCEPT !.str = NULL])
      BY <1>1, DeleteOldType
    <2>2. PICK l : l = [loc[t] EXCEPT !.str = NULL]
      OBVIOUS
    <2>3. l.tab = loc[t].tab /\ l.key = loc[t].key /\ Moved(t, "update", l)
      BY <2>1, <2>2, BusyFacts DEF Locals
    <2> QED BY <2>1, <2>3, FreesLoses
  <1>2. CASE InsertConflict(t)
    <2>1. /\ pc[t] = "delete" /\ DeleteStrings({loc[t].str})
          /\ UNCHANGED <<keyTable, fieldOf, liveTabs, driver>> /\ Moved(t, "idle", Idle)
      BY <1>2, RefusedType
    <2> QED BY <2>1, FreesLoses
  <1> QED BY <1>1, <1>2

LEMMA AttachLoses ==
  ASSUME TInv, SInv, LInv, Separate(workload), Undisputed(workload), NEW t \in Threads, Attach(t)
  PROVE  LInv'
  <1>1. pc[t] = "attach" /\ UNCHANGED <<liveStrs, driver>>
    BY AttachType
  <1>2. PICK n \in Tabs \ liveTabs :
          /\ liveTabs' = liveTabs \cup {n}
          /\ fieldOf' = [fieldOf EXCEPT ![n] = NoFields]
          /\ keyTable' = [keyTable EXCEPT ![loc[t].key] = IF @ = NULL THEN n ELSE @]
          /\ Moved(t, pc'[t], [loc[t] EXCEPT !.tab = n])
          /\ pc'[t] \in {"fresh", "insert"} /\ loc[t].op \in OpsAt(pc'[t])
    BY AttachType
  <1>3. PICK p \in {"fresh", "insert"} : p = pc'[t] /\ loc[t].op \in OpsAt(p)
    BY <1>2
  <1>4. /\ loc[t] \in Locals /\ loc[t].key \in Keys /\ pc[t] # "idle"
        /\ loc[t].op \in {"Update", "Insert"}
    BY <1>1, BusyFacts DEF OpsAt
  <1>5. PICK l : l = [loc[t] EXCEPT !.tab = n]
    OBVIOUS
  <1>6. PICK k \in Keys : k = loc[t].key
    BY <1>4
  <1>7. l.key = k /\ l.tab = n /\ l.op = loc[t].op /\ l.todo = loc[t].todo /\ Moved(t, p, l)
    BY <1>2, <1>3, <1>4, <1>5, <1>6 DEF Locals
  <1>8. /\ WritesTab("attach", loc[t]) /\ WritesList("attach", loc[t])
        /\ LoadsList(t, "attach", loc[t]) /\ Cells /\ Kept
    BY <1>1, MyWrites
  <1>9. keyTable[k] = NULL
    BY <1>6, <1>8 DEF WritesTab
  <1>10. /\ \A j \in Keys : keyTable'[j] = IF j = k THEN n ELSE keyTable[j]
         /\ \A j \in Keys : keyTable[j] # n
    BY <1>2, <1>6, <1>9, HeapParts, Nothing DEF SInv, Tables
  <1>11. /\ \A m \in Tabs \ {n} : fieldOf'[m] = fieldOf[m]
         /\ \A f \in Fields : fieldOf'[n][f] = NULL
    BY <1>2, HeapParts DEF NoFields
  <1>12. UNCHANGED <<workload, toLoad, loading>>
    BY <1>1 DEF driver
  <1>13. \A j \in Keys : Full(j) => Full(j)'
    <2> SUFFICES ASSUME NEW j \in Keys, Full(j) PROVE Full(j)'
      OBVIOUS
    <2>1. j # k /\ keyTable'[j] = keyTable[j] /\ keyTable[j] \in Tabs \ {n}
      BY <1>9, <1>10, HeapParts DEF Full
    <2> QED BY <1>11, <2>1 DEF Full
  <1>14. Writes(t, p, l)'
    <2>1. p = "fresh" \/ loading => Distinct(l.todo)
      <3>1. p = "fresh" => loc[t].op = "Update"
        BY <1>3 DEF OpsAt
      <3>2. loading => l.todo = AllFields
        BY <1>1, <1>7, <1>8 DEF LoadsList
      <3> QED BY <1>7, <1>8, <3>1, <3>2, FieldsAssumption DEF WritesList
    <2>2. loading => \A f \in Fields : Somewhere(f, l.todo)
      <3>1. loading => l.todo = AllFields
        BY <1>1, <1>7, <1>8 DEF LoadsList
      <3> QED BY <3>1, FieldsAssumption DEF Somewhere
    <2>3. WritesTab(p, l)' /\ WritesMissing(p, l)' /\ WritesList(p, l)'
      BY <1>7, <1>10 DEF WritesTab, WritesMissing, WritesList
    <2>4. WritesNew(p, l)'
      BY <1>7, <1>11, <1>12, <2>1 DEF WritesNew
    <2>5. LoadsList(t, p, l)'
      BY <1>6, <1>7, <1>8, <1>12, <2>2 DEF LoadsList
    <2> QED BY <2>3, <2>4, <2>5 DEF Writes
  <1>15. ASSUME NEW u, NEW q, NEW m, u \in Threads \ {t}, q = pc[u], m = loc[u]
         PROVE  Writes(u, q, m)'
    <2>1. /\ WritesTab(q, m) /\ WritesNew(q, m) /\ WritesMissing(q, m)
          /\ WritesList(q, m) /\ LoadsList(u, q, m)
      BY <1>15, MyWrites
    <2>2. /\ q # "idle" => m.key \in Keys /\ m.op \in OpsAt(q)
          /\ q \in Writing => q # "idle" /\ m.tab \in Tabs /\ m.tab \in liveTabs
      BY <1>15, BusyFacts, MyHands DEF Writing, Holding, HandsTab
    <2>3. ASSUME q # "idle", m.key = k, m.op \in {"Update", "Insert"} PROVE FALSE
      <3>1. Settled(loc[t].key)
        BY <1>4, <1>6, <1>15, <2>3, OnlyWriter
      <3> QED BY <1>6, <1>8, <1>9, <3>1 DEF Kept, Full
    <2>4. q = "attach" \/ q \in Writing \/ (loading /\ q = "get") => m.key # k
      <3>1. q = "attach" \/ q \in Writing => m.op \in {"Update", "Insert"}
        BY <2>2 DEF OpsAt, Writing
      <3>2. loading /\ q = "get" => m.op = "Insert"
        BY <1>15, LoadPhase
      <3> QED BY <2>3, <3>1, <3>2 DEF Writing
    <2>5. q = "attach" \/ q \in Writing \/ (loading /\ q = "get") => keyTable'[m.key] = keyTable[m.key]
      BY <1>10, <2>2, <2>4 DEF Writing
    <2>6. q \in Writing => fieldOf'[m.tab] = fieldOf[m.tab]
      BY <1>2, <1>11, <2>2
    <2>7. WritesTab(q, m)'
      BY <2>1, <2>5 DEF WritesTab
    <2>8. WritesNew(q, m)' /\ WritesMissing(q, m)' /\ WritesList(q, m)'
      BY <1>12, <2>1, <2>6 DEF WritesNew, WritesMissing, WritesList, Writing
    <2>9. LoadsList(u, q, m)'
      BY <1>12, <2>1, <2>5, <2>6 DEF LoadsList, Writing
    <2> QED BY <2>7, <2>8, <2>9 DEF Writes
  <1>16. Cells'
    <2>1. \A u \in Threads : pc[u] \in {"destroy", "missing", "delete"} =>
            pc'[u] = pc[u] /\ loc'[u] = loc[u]
      BY <1>1, <1>7 DEF Moved
    <2>2. ASSUME NEW x \in liveTabs'
          PROVE  (\E j \in Keys : keyTable'[j] = x)
                 \/ (\E u \in Threads : pc'[u] = "destroy" /\ loc'[u].tab = x)
      <3>1. CASE x = n
        BY <1>10, <3>1
      <3>2. CASE x # n
        <4>1. x \in liveTabs /\ x # NULL
          BY <1>2, <3>2, HeapParts, Nothing
        <4>2. CASE \E j \in Keys : keyTable[j] = x
          BY <1>9, <1>10, <4>1, <4>2
        <4>3. CASE \E u \in Threads : pc[u] = "destroy" /\ loc[u].tab = x
          BY <2>1, <4>3
        <4> QED BY <1>8, <4>1, <4>2, <4>3 DEF Cells
      <3> QED BY <3>1, <3>2
    <2>3. ASSUME NEW r \in liveStrs'
          PROVE  (\E x \in liveTabs', g \in Fields : fieldOf'[x][g] = r)
                 \/ (\E u \in Threads : pc'[u] \in {"missing", "delete"} /\ loc'[u].str = r)
      <3>1. r \in liveStrs
        BY <1>1
      <3>2. CASE \E u \in Threads : pc[u] \in {"missing", "delete"} /\ loc[u].str = r
        BY <2>1, <3>2
      <3>3. CASE \E x \in liveTabs, g \in Fields : fieldOf[x][g] = r
        BY <1>2, <1>11, <3>3, HeapParts
      <3> QED BY <1>8, <3>1, <3>2, <3>3 DEF Cells
    <2> QED BY <2>2, <2>3 DEF Cells
  <1>17. \A j \in Keys : j # loc[t].key => keyTable'[j] = keyTable[j]
    BY <1>6, <1>10
  <1>18. p # "idle"
    OBVIOUS
  <1> QED BY <1>1, <1>4, <1>6, <1>7, <1>13, <1>14, <1>15, <1>16, <1>17, <1>18, WritesStep

LEMMA RemoveLoses ==
  ASSUME TInv, SInv, LInv, Separate(workload), Undisputed(workload), NEW t \in Threads, Remove(t)
  PROVE  LInv'
  <1>1. /\ pc[t] = "remove" /\ UNCHANGED <<heap, driver>>
        /\ keyTable' = [keyTable EXCEPT ![loc[t].key] = NULL]
    BY RemoveType
  <1>2. loc[t] \in Locals /\ loc[t].op = "Delete" /\ loc[t].key \in Keys /\ pc[t] # "idle"
    BY <1>1, BusyFacts DEF OpsAt
  <1>3. PICK k \in Keys, n \in Tabs \cup {NULL} : k = loc[t].key /\ n = keyTable[k]
    BY <1>2, HeapParts
  <1>4. \/ n = NULL /\ Moved(t, "idle", Idle)
        \/ n # NULL /\ Moved(t, "destroy", [loc[t] EXCEPT !.tab = n])
    BY <1>3, RemoveType
  <1>5. UNCHANGED <<fieldOf, liveTabs, liveStrs>> /\ UNCHANGED <<workload, toLoad, loading>>
    BY <1>1 DEF heap, driver
  <1>6. \A j \in Keys : keyTable'[j] = IF j = k THEN NULL ELSE keyTable[j]
    BY <1>1, <1>3, HeapParts
  <1>7. ~loading /\ ~Settled(k)
    <2>1. ~loading /\ Called(t, loc[t])
      BY <1>2, LoadPhase, BusyFacts DEF Busy
    <2> QED BY <1>2, <1>3, <2>1 DEF Called, Settled
  <1>8. \A j \in Keys : Full(j) /\ (~loading => Settled(j)) => Full(j)'
    BY <1>5, <1>6, <1>7 DEF Full
  <1>9. ASSUME NEW u, NEW q, NEW m, u \in Threads \ {t}, q = pc[u], m = loc[u]
        PROVE  Writes(u, q, m)'
    <2>1. /\ WritesTab(q, m) /\ WritesNew(q, m) /\ WritesMissing(q, m)
          /\ WritesList(q, m) /\ LoadsList(u, q, m)
      BY <1>9, MyWrites
    <2>2. q # "idle" => m.key \in Keys /\ m.key # k
      BY <1>2, <1>3, <1>9, BusyFacts, Exclusion
    <2>3. WritesTab(q, m)'
      BY <1>6, <2>1, <2>2 DEF WritesTab, Writing
    <2>4. WritesNew(q, m)' /\ WritesMissing(q, m)' /\ WritesList(q, m)'
      BY <1>5, <2>1 DEF WritesNew, WritesMissing, WritesList
    <2>5. LoadsList(u, q, m)'
      BY <1>5, <1>7 DEF LoadsList
    <2> QED BY <2>3, <2>4, <2>5 DEF Writes
  <1>10. ASSUME NEW p \in {"idle", "destroy"}, NEW l, Moved(t, p, l),
                n = NULL \/ (p = "destroy" /\ l.tab = n)
         PROVE  LInv'
    <2>1. Writes(t, p, l)'
      BY <1>5, <1>7 DEF Writes, WritesTab, WritesNew, WritesMissing, WritesList, LoadsList, Writing
    <2>2. /\ pc'[t] = p /\ loc'[t] = l
          /\ \A u \in Threads \ {t} : pc'[u] = pc[u] /\ loc'[u] = loc[u]
      BY <1>10 DEF Moved
    <2>3. Cells
      BY MyWrites
    <2>4. ASSUME NEW x \in liveTabs'
          PROVE  (\E j \in Keys : keyTable'[j] = x)
                 \/ (\E u \in Threads : pc'[u] = "destroy" /\ loc'[u].tab = x)
      <3>1. x \in liveTabs /\ x # NULL
        BY <1>5, HeapParts, Nothing
      <3>2. CASE \E u \in Threads : pc[u] = "destroy" /\ loc[u].tab = x
        BY <1>1, <2>2, <3>2
      <3>3. ASSUME NEW j \in Keys, keyTable[j] = x
            PROVE  (\E i \in Keys : keyTable'[i] = x)
                   \/ (\E u \in Threads : pc'[u] = "destroy" /\ loc'[u].tab = x)
        <4>1. CASE j # k
          BY <1>6, <3>3, <4>1
        <4>2. CASE j = k
          BY <1>3, <1>10, <2>2, <3>1, <3>3, <4>2
        <4> QED BY <4>1, <4>2
      <3> QED BY <2>3, <3>1, <3>2, <3>3 DEF Cells
    <2>5. ASSUME NEW r \in liveStrs'
          PROVE  (\E x \in liveTabs', g \in Fields : fieldOf'[x][g] = r)
                 \/ (\E u \in Threads : pc'[u] \in {"missing", "delete"} /\ loc'[u].str = r)
      BY <1>1, <1>5, <2>2, <2>3 DEF Cells
    <2>6. Cells'
      BY <2>4, <2>5 DEF Cells
    <2> QED BY <1>1, <1>2, <1>7, <1>8, <1>9, <1>10, <2>1, <2>6, WritesStep
  <1>11. PICK l : l = [loc[t] EXCEPT !.tab = n]
    OBVIOUS
  <1>12. l.tab = n
    BY <1>2, <1>11 DEF Locals
  <1> QED BY <1>4, <1>10, <1>11, <1>12

LEMMA DestroyLoses ==
  ASSUME TInv, SInv, LInv, Separate(workload), Undisputed(workload), NEW t \in Threads, Destroy(t)
  PROVE  LInv'
  <1>1. /\ pc[t] = "destroy" /\ UNCHANGED <<keyTable, driver>>
        /\ DeleteStrings({e[2] : e \in Entries(loc[t].tab)})
        /\ liveTabs' = liveTabs \ {loc[t].tab}
        /\ fieldOf' = [fieldOf EXCEPT ![loc[t].tab] = NoFields]
        /\ Moved(t, "idle", Idle)
    BY DestroyType
  <1>2. pc[t] \in Holding /\ pc[t] # "idle" /\ loc[t].tab \in Tabs /\ loc[t].op = "Delete"
    BY <1>1, BusyFacts DEF Holding, OpsAt
  <1>3. PICK n \in Tabs : n = loc[t].tab
    BY <1>2
  <1>4. \A f \in Fields : fieldOf[n][f] # NULL => fieldOf[n][f] \notin liveStrs'
    <2>1. \A f \in Fields : fieldOf[n][f] # NULL => <<f, fieldOf[n][f]>> \in Entries(n)
      BY EntriesType
    <2>2. liveStrs' = liveStrs \ {e[2] : e \in Entries(n)}
      BY <1>1, <1>3 DEF DeleteStrings
    <2>3. ASSUME NEW f \in Fields, fieldOf[n][f] # NULL
          PROVE  fieldOf[n][f] \in {e[2] : e \in Entries(n)}
      <3>1. PICK e \in Entries(n) : e = <<f, fieldOf[n][f]>>
        BY <2>1, <2>3
      <3>2. e[2] = fieldOf[n][f]
        BY <3>1
      <3> QED BY <3>2
    <2> QED BY <2>2, <2>3
  <1>5. liveStrs' \subseteq liveStrs
    BY <1>1 DEF DeleteStrings
  <1>6. \A j \in Tabs \ {n} : fieldOf'[j] = fieldOf[j]
    BY <1>1, <1>3, HeapParts
  <1>7. \A k \in Keys : keyTable[k] # n
    BY <1>1, <1>3, MyHands DEF HandsDestroy
  <1>8. UNCHANGED <<workload, toLoad, loading>> /\ ~loading
    BY <1>1, <1>2, LoadPhase DEF driver
  <1>9. \A k \in Keys : Full(k) => Full(k)'
    <2> SUFFICES ASSUME NEW k \in Keys, Full(k) PROVE Full(k)'
      OBVIOUS
    <2>1. keyTable'[k] = keyTable[k] /\ keyTable[k] \in Tabs \ {n}
      BY <1>1, <1>7, HeapParts DEF Full
    <2> QED BY <1>6, <2>1 DEF Full
  <1>10. ASSUME NEW u, NEW q, NEW m, u \in Threads \ {t}, q = pc[u], m = loc[u]
         PROVE  Writes(u, q, m)'
    <2>1. /\ WritesTab(q, m) /\ WritesNew(q, m) /\ WritesMissing(q, m) /\ WritesList(q, m)
      BY <1>10, MyWrites
    <2>2. q \in Writing => m.tab \in Tabs \ {n}
      <3>1. q \in Writing => q \in Holding /\ q # "idle"
        BY DEF Writing, Holding
      <3>2. Apart(pc[t], loc[t], pc[u], loc[u])
        BY <1>10 DEF SInv, InHands
      <3> QED BY <1>1, <1>3, <1>10, <3>1, <3>2, BusyFacts DEF Apart
    <2>3. q \in Writing => fieldOf'[m.tab] = fieldOf[m.tab]
      BY <1>6, <2>2
    <2>4. WritesTab(q, m)' /\ WritesNew(q, m)' /\ WritesMissing(q, m)' /\ WritesList(q, m)'
      BY <1>1, <1>8, <2>1, <2>3 DEF WritesTab, WritesNew, WritesMissing, WritesList, Writing
    <2>5. LoadsList(u, q, m)'
      BY <1>8 DEF LoadsList
    <2> QED BY <2>4, <2>5 DEF Writes
  <1>11. Writes(t, "idle", Idle)'
    BY DEF Writes, WritesTab, WritesNew, WritesMissing, WritesList, LoadsList, Writing
  <1>12. Cells'
    <2>1. Cells
      BY MyWrites
    <2>2. \A u \in Threads \ {t} : pc'[u] = pc[u] /\ loc'[u] = loc[u]
      BY <1>1 DEF Moved
    <2>3. ASSUME NEW x \in liveTabs'
          PROVE  (\E j \in Keys : keyTable'[j] = x)
                 \/ (\E u \in Threads : pc'[u] = "destroy" /\ loc'[u].tab = x)
      BY <1>1, <1>3, <2>1, <2>2 DEF Cells
    <2>4. ASSUME NEW r \in liveStrs'
          PROVE  (\E x \in liveTabs', g \in Fields : fieldOf'[x][g] = r)
                 \/ (\E u \in Threads : pc'[u] \in {"missing", "delete"} /\ loc'[u].str = r)
      <3>1. r \in liveStrs /\ r # NULL
        BY <1>5, HeapParts, Nothing
      <3>2. CASE \E u \in Threads : pc[u] \in {"missing", "delete"} /\ loc[u].str = r
        BY <1>1, <2>2, <3>2
      <3>3. ASSUME NEW x \in liveTabs, NEW g \in Fields, fieldOf[x][g] = r
            PROVE  x \in liveTabs' /\ fieldOf'[x][g] = r
        <4>1. x \in Tabs /\ x # n
          BY <1>4, <3>1, <3>3, HeapParts
        <4> QED BY <1>1, <1>3, <1>6, <3>3, <4>1
      <3> QED BY <2>1, <3>1, <3>2, <3>3 DEF Cells
    <2> QED BY <2>3, <2>4 DEF Cells
  <1> QED BY <1>1, <1>2, <1>8, <1>9, <1>10, <1>11, <1>12, WritesStep

(* A call begins. *)
LEMMA BeginLoses ==
  ASSUME TInv, LInv, NEW t \in Threads, NEW p \in {"remove", "entries", "get"}, NEW l,
         pc[t] = "idle", Moved(t, p, l), UNCHANGED <<keyTable, heap, workload, loading>>,
         WritesList(p, l), LoadsList(t, p, l)',
         \A u \in Threads \ {t} : toLoad'[u] = toLoad[u],
         toLoad[t] \subseteq toLoad'[t] \cup {l.key}, toLoad'[t] \subseteq toLoad[t]
  PROVE  LInv'
  <1>1. /\ pc'[t] = p /\ loc'[t] = l /\ p # "idle"
        /\ \A u \in Threads \ {t} : pc'[u] = pc[u] /\ loc'[u] = loc[u]
    BY DEF Moved
  <1>2. UNCHANGED <<keyTable, fieldOf, liveTabs, liveStrs>>
    BY DEF heap
  <1>3. Kept /\ Loaded /\ Cells
    BY MyWrites
  <1>4. \A k : Full(k) <=> Full(k)'
    BY <1>2 DEF Full
  <1>5. Kept'
    BY <1>3, <1>4 DEF Kept, Settled, May
  <1>6. Loaded'
    <2> SUFFICES ASSUME loading, NEW u \in Threads, NEW k \in workload.load[u]
                 PROVE  IF k \in toLoad'[u] THEN keyTable'[k] = NULL
                        ELSE Full(k)' \/ (pc'[u] # "idle" /\ loc'[u].key = k)
      BY DEF Loaded
    <2>1. IF k \in toLoad[u] THEN keyTable[k] = NULL
          ELSE Full(k) \/ (pc[u] # "idle" /\ loc[u].key = k)
      BY <1>3 DEF Loaded
    <2>2. CASE u = t
      BY <1>1, <1>2, <1>4, <2>1, <2>2
    <2>3. CASE u # t
      BY <1>1, <1>2, <1>4, <2>1, <2>3
    <2> QED BY <2>2, <2>3
  <1>7. AllWrites'
    <2> SUFFICES ASSUME NEW u \in Threads, NEW q, NEW m, q = pc'[u], m = loc'[u]
                 PROVE  Writes(u, q, m)'
      BY DEF AllWrites, Writes, WritesTab, WritesNew, WritesMissing, WritesList, LoadsList
    <2>1. CASE u = t
      <3>1. q = p /\ m = l
        BY <1>1, <2>1
      <3>2. WritesTab(p, l)' /\ WritesNew(p, l)' /\ WritesMissing(p, l)' /\ WritesList(p, l)'
        BY DEF WritesTab, WritesNew, WritesMissing, WritesList, Writing
      <3> QED BY <2>1, <3>1, <3>2 DEF Writes
    <2>2. CASE u # t
      <3>1. q = pc[u] /\ m = loc[u] /\ toLoad'[u] = toLoad[u]
        BY <1>1, <2>2
      <3>2. /\ WritesTab(q, m) /\ WritesNew(q, m) /\ WritesMissing(q, m)
            /\ WritesList(q, m) /\ LoadsList(u, q, m)
        BY <3>1, MyWrites
      <3> QED BY <1>2, <3>1, <3>2
              DEF Writes, WritesTab, WritesNew, WritesMissing, WritesList, LoadsList
    <2> QED BY <2>1, <2>2
  <1>8. Cells'
    <2>1. \A u \in Threads : pc[u] \in {"destroy", "missing", "delete"} =>
            pc'[u] = pc[u] /\ loc'[u] = loc[u]
      BY <1>1
    <2> QED BY <1>2, <1>3, <2>1 DEF Cells
  <1> QED BY <1>5, <1>6, <1>7, <1>8 DEF LInv

LEMMA LoadInsertLoses ==
  ASSUME TInv, LInv, NEW t \in Threads, NEW k \in Keys, LoadInsert(t, k)
  PROVE  LInv'
  <1>1. /\ loading /\ pc[t] = "idle" /\ k \in toLoad[t]
        /\ UNCHANGED <<keyTable, heap, workload, loading>>
        /\ toLoad' = [toLoad EXCEPT ![t] = @ \ {k}]
    BY LoadInsertType
  <1>2. PICK l \in Locals : /\ Moved(t, "get", l) /\ l.op = "Insert" /\ l.key = k
                            /\ l.todo = AllFields
    BY LoadInsertType
  <1>3. toLoad'[t] = toLoad[t] \ {k} /\ \A u \in Threads \ {t} : toLoad'[u] = toLoad[u]
    BY <1>1 DEF TInv, DriverType
  <1>4. keyTable[k] = NULL
    <2>1. Loaded /\ k \in workload.load[t]
      BY <1>1, MyWrites DEF TInv, DriverType
    <2> QED BY <1>1, <2>1 DEF Loaded
  <1>5. WritesList("get", l) /\ LoadsList(t, "get", l)'
    BY <1>1, <1>2, <1>3, <1>4 DEF WritesList, LoadsList
  <1> QED BY <1>1, <1>2, <1>3, <1>5, BeginLoses

LEMMA CallLoses ==
  ASSUME TInv, LInv, NEW t \in Threads, NEW k \in Keys, NEW fs \in FieldLists \cup {<<>>},
         NEW op \in Operations, Call(t, op, k, fs)
  PROVE  LInv'
  <1>1. ~loading /\ pc[t] = "idle" /\ UNCHANGED <<keyTable, heap, workload, loading, toLoad>>
    BY CallType DEF driver
  <1>2. PICK p \in {"remove", "entries", "get"}, l \in Locals :
          Moved(t, p, l) /\ l.op = op /\ (op = "Update" => l.todo = fs)
    BY CallType
  <1>3. Distinct(fs)
    <2>1. Distinct(<<>>)
      BY DEF Distinct
    <2> QED BY <2>1, FieldsAssumption
  <1>4. WritesList(p, l) /\ LoadsList(t, p, l)'
    BY <1>1, <1>2, <1>3 DEF WritesList, LoadsList
  <1> QED BY <1>1, <1>2, <1>4, BeginLoses

LEMMA LoadDoneLoses ==
  ASSUME TInv, LInv, LoadDone
  PROVE  LInv'
  <1>1. /\ loading /\ loading' = FALSE /\ (\A t \in Threads : toLoad[t] = {} /\ pc[t] = "idle")
        /\ UNCHANGED <<keyTable, heap, pc, loc, workload, toLoad>>
    BY LoadDoneType
  <1>2. UNCHANGED <<keyTable, fieldOf, liveTabs, liveStrs>>
    BY <1>1 DEF heap
  <1>3. Kept'
    <2> SUFFICES ASSUME NEW k \in Keys, NEW v \in Threads, k \in workload.load[v]
                 PROVE  Full(k)'
      BY <1>1 DEF Kept, Settled
    <2>1. Full(k)
      BY <1>1 DEF LInv, Loaded
    <2> QED BY <1>2, <2>1 DEF Full
  <1>4. Loaded'
    BY <1>1 DEF Loaded
  <1>5. AllWrites'
    BY <1>1 DEF AllWrites, Writes, WritesTab, WritesNew, WritesMissing, WritesList, LoadsList,
       Writing
  <1>6. Cells'
    BY <1>1, <1>2 DEF LInv, Cells
  <1> QED BY <1>3, <1>4, <1>5, <1>6 DEF LInv

-----------------------------------------------------------------------------
LEMMA InitLoses == Init => LInv
  <1> SUFFICES ASSUME Init PROVE LInv
    OBVIOUS
  <1>1. /\ \A k \in Keys : keyTable[k] = NULL
        /\ liveTabs = {} /\ liveStrs = {} /\ loading /\ toLoad = workload.load
        /\ \A t \in Threads : pc[t] = "idle"
    BY DEF Init
  <1>2. Kept
    BY <1>1 DEF Kept, Settled
  <1>3. Loaded
    <2>1. \A t \in Threads : workload.load[t] \subseteq Keys
      BY WorkloadsAssumption DEF Init
    <2> QED BY <1>1, <2>1 DEF Loaded
  <1>4. AllWrites
    BY <1>1 DEF AllWrites, Writes, WritesTab, WritesNew, WritesMissing, WritesList, LoadsList,
       Writing
  <1>5. Cells
    BY <1>1 DEF Cells
  <1> QED BY <1>2, <1>3, <1>4, <1>5 DEF LInv

LEMMA NextLoses ==
  ASSUME TInv, SInv, LInv, Separate(workload), Undisputed(workload), [Next]_vars
  PROVE  LInv'
  <1>1. ASSUME NEW t \in Threads, Step(t) PROVE LInv'
    <2>1. CASE Get(t) BY <2>1, GetLoses
    <2>2. CASE Attach(t) BY <2>2, AttachLoses
    <2>3. CASE UpdateFresh(t) BY <2>3, NewFieldLoses
    <2>4. CASE InsertField(t) BY <2>4, NewFieldLoses, ConflictLoses
    <2>5. CASE UpdateField(t) BY <2>5, UpdateFieldLoses
    <2>6. CASE UpdateMissing(t) BY <2>6, UpdateMissingLoses
    <2>7. CASE DeleteOld(t) \/ InsertConflict(t) BY <2>7, DeleteOldLoses
    <2>8. CASE ReturnOK(t) BY <2>8, ReturnOKLoses
    <2>9. CASE ScanEntries(t) \/ ScanNext(t) \/ Visit(t) \/ GetField(t) \/ CopyResult(t)
               \/ EndCopy(t) \/ EndFields(t)
      BY <2>9, ReadLoses
    <2>10. CASE Remove(t) BY <2>10, RemoveLoses
    <2>11. CASE Destroy(t) BY <2>11, DestroyLoses
    <2> QED BY <1>1, <2>1, <2>2, <2>3, <2>4, <2>5, <2>6, <2>7, <2>8, <2>9, <2>10, <2>11 DEF Step
  <1>2. ASSUME NEW t \in Threads, NEW k \in Keys, LoadInsert(t, k) PROVE LInv'
    BY <1>2, LoadInsertLoses
  <1>3. CASE LoadDone
    BY <1>3, LoadDoneLoses
  <1>4. ASSUME NEW t \in Threads, NEW k \in Keys, NEW fs \in FieldLists \cup {<<>>},
               NEW op \in Operations, Call(t, op, k, fs)
        PROVE  LInv'
    BY <1>4, CallLoses
  <1>5. CASE UNCHANGED vars
    <2>1. UNCHANGED <<keyTable, fieldOf, liveTabs, liveStrs, pc, loc, workload, toLoad, loading>>
      BY <1>5 DEF vars, heap, driver
    <2>2. Kept' /\ Loaded' /\ Cells'
      BY <2>1 DEF LInv, Kept, Settled, Full, Loaded, Cells, May
    <2>3. AllWrites'
      BY <2>1 DEF LInv, AllWrites, Writes, WritesTab, WritesNew, WritesMissing, WritesList,
         LoadsList
    <2> QED BY <2>2, <2>3 DEF LInv
  <1> QED BY <1>1, <1>2, <1>3, <1>4, <1>5 DEF Next

LEMMA LossInvariant ==
  ASSUME \A w \in Workloads : Separate(w) /\ Undisputed(w)
  PROVE  Spec => []LInv
  <1>1. TInv => Separate(workload) /\ Undisputed(workload)
    BY DEF TInv, DriverType
  <1>2. Init => LInv
    BY InitLoses
  <1>3. LInv /\ SInv /\ TInv /\ [Next]_vars => LInv'
    BY <1>1, NextLoses
  <1>4. \A w \in Workloads : Separate(w)
    OBVIOUS
  <1>5. Spec => []SInv
    BY <1>4, SafeInvariant
  <1> QED BY <1>2, <1>3, <1>5, TypeInvariant, PTL DEF Spec

(* The copies of keys that are lost: the calls of the workload that lose them. *)
Losses ==
  \A op \in lostKeys : /\ op \in {"Insert", "Delete"}
                       /\ \E t \in Threads, k \in Keys : May(workload, t, op, k)

LEMMA LosesByCall ==
  ASSUME TInv, LInv, NEW t \in Threads, NEW c, Loses(t, c)
  PROVE  c \in {"Insert", "Delete"} /\ \E k \in Keys : May(workload, t, c, k)
  <1>1. pc[t] # "idle"
    BY DEF Loses
  <1>2. loc[t].key \in Keys /\ Called(t, loc[t]) /\ loc[t].op \in OpsAt(pc[t])
    BY <1>1, BusyFacts DEF Busy
  <1>3. /\ WritesTab(pc[t], loc[t]) /\ WritesNew(pc[t], loc[t])
        /\ WritesMissing(pc[t], loc[t])
    BY MyWrites
  <1>4. loading => loc[t].op = "Insert"
    BY <1>1, LoadPhase
  <1>5. CASE pc[t] = "attach" /\ keyTable[loc[t].key] # NULL
    BY <1>3, <1>5 DEF WritesTab
  <1>6. CASE /\ pc[t] \in {"fresh", "missing", "insert"} /\ loc[t].todo # <<>>
             /\ fieldOf[loc[t].tab][Head(loc[t].todo)] # NULL /\ c = loc[t].op
    <2>1. loc[t].todo \in Seq(Fields) /\ Head(loc[t].todo) \in Fields
      BY <1>1, <1>6, BusyFacts, HeadTail
    <2>2. pc[t] # "missing"
      BY <1>3, <1>6 DEF WritesMissing
    <2>3. pc[t] # "fresh" /\ ~(loading /\ pc[t] = "insert")
      BY <1>3, <1>6, <2>1, RestOfList DEF WritesNew
    <2>4. pc[t] = "insert" /\ ~loading
      BY <1>6, <2>2, <2>3
    <2>5. loc[t].op = "Insert"
      BY <1>2, <2>4 DEF OpsAt
    <2> QED BY <1>2, <1>6, <2>4, <2>5 DEF Called
  <1>7. CASE pc[t] = "destroy" /\ c = "Delete"
    <2>1. loc[t].op = "Delete"
      BY <1>2, <1>7 DEF OpsAt
    <2> QED BY <1>2, <1>4, <1>7, <2>1 DEF Called
  <1> QED BY <1>5, <1>6, <1>7 DEF Loses

LEMMA LossesInvariant ==
  ASSUME \A w \in Workloads : Separate(w) /\ Undisputed(w)
  PROVE  Spec => []Losses
  <1>1. Init => Losses
    BY DEF Init, Losses
  <1>2. Losses /\ TInv /\ LInv /\ [Next]_vars => Losses'
    <2> SUFFICES ASSUME Losses, TInv, LInv, [Next]_vars PROVE Losses'
      OBVIOUS
    <2>1. /\ workload' = workload
          /\ \/ lostKeys' = lostKeys
             \/ \E t \in Threads : \E c : Loses(t, c) /\ lostKeys' = lostKeys \cup {c}
      BY KeysLostNext
    <2> SUFFICES ASSUME NEW op \in lostKeys'
                 PROVE  /\ op \in {"Insert", "Delete"}
                        /\ \E t \in Threads, k \in Keys : May(workload, t, op, k)
      BY <2>1 DEF Losses, May
    <2>2. CASE op \in lostKeys
      BY <2>2 DEF Losses
    <2>3. CASE op \notin lostKeys
      <3>1. PICK t \in Threads : Loses(t, op)
        BY <2>1, <2>3
      <3> QED BY <3>1, LosesByCall
    <2> QED BY <2>2, <2>3
  <1>3. Spec => []LInv
    BY LossInvariant
  <1> QED BY <1>1, <1>2, <1>3, TypeInvariant, PTL DEF Spec

(***************************************************************************)
(* When, moreover, no record is loaded by two threads, and two threads     *)
(* write only records that were loaded, no table and no string that        *)
(* CopyString() made is ever lost, although Attach, UpdateFresh and        *)
(* UpdateMissing ignore the results of the inserts that could fail: they   *)
(* never do.  The copies of keys that the tables make are lost only by the *)
(* calls of Insert() and of Delete() of the workload.                      *)
(***************************************************************************)
THEOREM NothingIsLeaked ==
  ASSUME \A w \in Workloads : Separate(w) /\ Undisputed(w)
  PROVE  Spec => []NothingLeaked
  <1>1. TInv /\ SInv /\ LInv /\ Losses => NothingLeaked
    <2>1. SUFFICES ASSUME TInv, SInv, LInv, Losses, \A t \in Threads : pc[t] = "idle"
                   PROVE  liveTabs = Attached /\ liveStrs = Reachable
      BY DEF NothingLeaked, Losses
    <2>2. Tables /\ Slots /\ Cells
      BY <2>1 DEF SInv, LInv
    <2>3. liveTabs = Attached /\ Attached \subseteq Tabs
      BY <2>1, <2>2, HeapParts, Nothing DEF Tables, Cells, Attached
    <2>4. ASSUME NEW s \in liveStrs PROVE s \in Reachable
      <3>1. PICK n \in liveTabs, f \in Fields : fieldOf[n][f] = s
        BY <2>1, <2>2 DEF Cells
      <3>2. s # NULL /\ n \in Tabs
        BY <2>1, HeapParts, Nothing
      <3>3. PICK e \in Entries(n) : e = <<f, s>>
        BY <2>1, <3>1, <3>2, EntriesType
      <3>4. e[2] = s
        BY <3>3
      <3> QED BY <2>3, <3>4 DEF Reachable
    <2>5. ASSUME NEW n \in Attached, NEW e \in Entries(n) PROVE e[2] \in liveStrs
      BY <2>1, <2>2, <2>3, EntriesType DEF Slots
    <2>6. Reachable \subseteq liveStrs
      BY <2>5 DEF Reachable
    <2> QED BY <2>3, <2>4, <2>6
  <1>2. \A w \in Workloads : Separate(w)
    OBVIOUS
  <1>3. Spec => []SInv
    BY <1>2, SafeInvariant
  <1>4. (Spec => []LInv) /\ (Spec => []Losses)
    BY LossInvariant, LossesInvariant
  <1> QED BY <1>1, <1>3, <1>4, TypeInvariant, PTL

-----------------------------------------------------------------------------
(* The refinement of RecordStore. *)

WriteOps == {"Update", "Insert"}

(***************************************************************************)
(* Of an insert, only one that a table has refused has a string in its     *)
(* hands.                                                                  *)
(***************************************************************************)
Unrefused(p, l) == p \in {"get", "attach", "insert"} /\ l.op = "Insert" => l.str = NULL
RInv == \A t \in Threads : Unrefused(pc[t], loc[t])

LEMMA UnrefusedStep ==
  ASSUME RInv, NEW t \in Threads, NEW p, NEW l, Moved(t, p, l), Unrefused(p, l)
  PROVE  RInv'
  BY DEF RInv, Moved, Unrefused

(* Most steps lead to places where there is nothing to show. *)
LEMMA UnrefusedElsewhere ==
  ASSUME RInv, NEW t \in Threads, NEW p, NEW l, Moved(t, p, l),
         p \notin {"get", "attach", "insert"}
  PROVE  RInv'
  BY UnrefusedStep DEF Unrefused

LEMMA StepUnrefused ==
  ASSUME TInv, RInv, NEW t \in Threads, Step(t)
  PROVE  RInv'
  <1>1. Unrefused(pc[t], loc[t])
    BY DEF RInv
  <1>2. ASSUME pc[t] \in {"get", "attach"}, NEW p, NEW n, Moved(t, p, [loc[t] EXCEPT !.tab = n])
        PROVE  RInv'
    <2>1. PICK l : l = [loc[t] EXCEPT !.tab = n]
      OBVIOUS
    <2>2. l.op = loc[t].op /\ l.str = loc[t].str
      BY <1>2, <2>1, BusyFacts DEF Locals
    <2>3. Unrefused(p, l)
      BY <1>1, <1>2, <2>2 DEF Unrefused
    <2> QED BY <1>2, <2>1, <2>3, UnrefusedStep
  <1>3. CASE Get(t)
    <2>1. pc[t] = "get"
          /\ \/ Moved(t, pc'[t], [loc[t] EXCEPT !.tab = keyTable[loc[t].key]])
             \/ Moved(t, "attach", loc[t])
             \/ Moved(t, "idle", Idle)
      BY <1>3, GetType
    <2>2. Unrefused("attach", loc[t])
      BY <1>1, <2>1 DEF Unrefused
    <2> QED BY <1>2, <2>1, <2>2, UnrefusedStep, UnrefusedElsewhere
  <1>4. CASE Attach(t)
    <2>1. pc[t] = "attach" /\ \E n : Moved(t, pc'[t], [loc[t] EXCEPT !.tab = n])
      BY <1>4, AttachType
    <2> QED BY <1>2, <2>1
  <1>5. CASE UpdateFresh(t) \/ InsertField(t)
    <2>1. CASE \/ UpdateFresh(t)
               \/ InsertField(t) /\ fieldOf[loc[t].tab][Head(loc[t].todo)] = NULL
      <3>1. PICK l : Moved(t, pc[t], l) /\ AtNext(t, l, NULL)
        BY <2>1, NewFieldType
      <3> QED BY <3>1, UnrefusedStep DEF AtNext, Unrefused
    <2>2. CASE InsertField(t) /\ fieldOf[loc[t].tab][Head(loc[t].todo)] # NULL
      <3>1. \E l : Moved(t, "delete", l)
        BY <2>2, ConflictType
      <3> QED BY <3>1, UnrefusedElsewhere
    <2> QED BY <1>5, <2>1, <2>2
  <1>6. \/ Get(t) \/ Attach(t) \/ UpdateFresh(t) \/ InsertField(t)
        \/ \E p : p \notin {"get", "attach", "insert"} /\ \E l : Moved(t, p, l)
    <2>1. CASE UpdateField(t) BY <2>1, UpdateFieldType
    <2>2. CASE UpdateMissing(t) BY <2>2, UpdateMissingType
    <2>3. CASE DeleteOld(t) BY <2>3, DeleteOldType
    <2>4. CASE InsertConflict(t) BY <2>4, RefusedType
    <2>5. CASE ReturnOK(t) BY <2>5, ReturnOKType
    <2>6. CASE ScanEntries(t) BY <2>6, ScanEntriesType
    <2>7. CASE ScanNext(t) BY <2>7, ScanNextType
    <2>8. CASE Visit(t) BY <2>8, VisitType
    <2>9. CASE GetField(t) BY <2>9, GetFieldType
    <2>10. CASE CopyResult(t) BY <2>10, CopyResultType
    <2>11. CASE EndCopy(t) BY <2>11, EndCopyType
    <2>12. CASE EndFields(t) BY <2>12, EndFieldsType
    <2>13. CASE Remove(t) BY <2>13, RemoveType
    <2>14. CASE Destroy(t) BY <2>14, DestroyType
    <2> QED BY <2>1, <2>2, <2>3, <2>4, <2>5, <2>6, <2>7, <2>8, <2>9, <2>10, <2>11, <2>12, <2>13,
               <2>14 DEF Step
  <1> QED BY <1>3, <1>4, <1>5, <1>6, UnrefusedElsewhere

LEMMA RefusalInvariant == Spec => []RInv
  <1>1. Init => RInv
    BY DEF Init, RInv, Unrefused
  <1>2. RInv /\ TInv /\ [Next]_vars => RInv'
    <2> SUFFICES ASSUME RInv, TInv, [Next]_vars PROVE RInv'
      OBVIOUS
    <2>1. ASSUME NEW t \in Threads, NEW op, NEW k, NEW fs, Begin(t, op, k, fs) PROVE RInv'
      <3> DEFINE p == CASE op = "Delete" -> "remove" [] op = "Scan" -> "entries" [] OTHER -> "get"
                 l == [Idle EXCEPT !.op = op, !.key = k, !.fields = fs,
                         !.todo = IF op \in {"Update", "Insert"} THEN fs ELSE <<>>]
      <3>1. /\ pc' = [pc EXCEPT ![t] = p] /\ loc' = [loc EXCEPT ![t] = l]
            /\ l.str = NULL
        BY <2>1 DEF Begin, Set, Idle
      <3> HIDE DEF p, l
      <3>2. Moved(t, p, l) /\ Unrefused(p, l)
        BY <3>1 DEF Moved, Unrefused, TInv, ThreadType
      <3> QED BY <3>2, UnrefusedStep
    <2>2. CASE LoadDone \/ UNCHANGED vars
      <3>1. UNCHANGED <<pc, loc>>
        BY <2>2 DEF LoadDone, vars
      <3> QED BY <3>1 DEF RInv, Unrefused
    <2>3. ASSUME NEW t \in Threads, NEW k \in Keys, LoadInsert(t, k) PROVE RInv'
      BY <2>1, <2>3 DEF LoadInsert
    <2>4. ASSUME NEW t \in Threads, NEW k \in Keys, NEW fs \in FieldLists \cup {<<>>},
                 NEW op \in Operations, Call(t, op, k, fs)
          PROVE  RInv'
      BY <2>1, <2>4 DEF Call
    <2> QED BY <2>2, <2>3, <2>4, StepUnrefused DEF Next
  <1> QED BY <1>1, <1>2, TypeInvariant, PTL DEF Spec

(* A call goes on for its client until a table has refused a field of it. *)
LEMMA NotRefused ==
  ASSUME TInv, RInv, NEW t \in Threads, pc[t] # "delete" \/ loc[t].op # "Insert"
  PROVE  ~Refused(loc[t])
  <1>1. CASE pc[t] = "idle"
    <2>1. loc[t] = Idle
      BY <1>1 DEF TInv, Control, Consistent
    <2> QED BY <2>1, NULLIsNothing DEF Idle, Refused
  <1>2. CASE pc[t] # "idle"
    <2>1. loc[t].op \in OpsAt(pc[t]) /\ pc[t] \in Places
      BY <1>2, BusyFacts DEF TInv, ThreadType
    <2>2. loc[t].op = "Insert" /\ pc[t] # "delete" => pc[t] \in {"get", "attach", "insert"}
      BY <1>2, <2>1 DEF OpsAt, Places
    <2>3. Unrefused(pc[t], loc[t])
      BY DEF RInv
    <2> QED BY <2>2, <2>3 DEF Refused, Unrefused
  <1> QED BY <1>1, <1>2

(***************************************************************************)
(* What the mapping rests on: a string in use holds what some thread       *)
(* wrote; a call that writes has stored all fields but those it has still  *)
(* to deal with; and a string about to be inserted holds what its thread   *)
(* writes.                                                                 *)
(***************************************************************************)
Remaining(l) ==
  l.op \in WriteOps =>
    /\ l.stored <= Len(l.fields)
    /\ l.todo = SubSeq(l.fields, l.stored + 1, Len(l.fields))
Filled == \A s \in liveStrs : content[s] \in Threads
Counted == \A t \in Threads : Remaining(loc[t])
Copied == \A t \in Threads : pc[t] = "missing" => content[loc[t].str] = t
AInv == Filled /\ Counted /\ Copied

(* A call as the abstract store sees it. *)
View(l) ==
  IF l.op \notin WriteOps \/ Refused(l) THEN NULL ELSE [op |-> l.op, key |-> l.key, todo |-> l.todo]

LEMMA Views ==
  ASSUME Counted
  PROVE  AbsCall = [t \in Threads |-> View(loc[t])]
  BY DEF Counted, Remaining, AbsCall, View, WriteOps

LEMMA ViewsNext ==
  ASSUME Counted'
  PROVE  AbsCall' = [t \in Threads |-> View(loc'[t])]
  BY DEF Counted, Remaining, AbsCall, View, WriteOps

(* The rest of a list, one field further. *)
LEMMA OneFurther ==
  ASSUME NEW s \in Seq(Fields), NEW n \in Nat, n <= Len(s), SubSeq(s, n + 1, Len(s)) # <<>>
  PROVE  n + 1 <= Len(s) /\ Tail(SubSeq(s, n + 1, Len(s))) = SubSeq(s, n + 2, Len(s))
  <1>1. /\ SubSeq(s, n + 1, Len(s)) \in Seq(Fields)
        /\ Len(SubSeq(s, n + 1, Len(s))) = Len(s) - n
        /\ \A i \in 1 .. Len(s) - n : SubSeq(s, n + 1, Len(s))[i] = s[n + i]
    OBVIOUS
  <1>2. n + 1 <= Len(s)
    BY <1>1
  <1>3. /\ SubSeq(s, n + 2, Len(s)) \in Seq(Fields)
        /\ Len(SubSeq(s, n + 2, Len(s))) = Len(s) - n - 1
        /\ \A i \in 1 .. Len(s) - n - 1 : SubSeq(s, n + 2, Len(s))[i] = s[n + 1 + i]
    BY <1>2
  <1> DEFINE a == SubSeq(s, n + 1, Len(s))
             b == SubSeq(s, n + 2, Len(s))
  <1> HIDE DEF a, b
  <1>4. Tail(a) \in Seq(Fields) /\ Len(Tail(a)) = Len(a) - 1
        /\ \A i \in 1 .. Len(a) - 1 : Tail(a)[i] = a[i + 1]
    BY <1>1, <1>2 DEF a
  <1>5. Len(a) = Len(s) - n /\ Len(b) = Len(s) - n - 1 /\ Len(s) \in Nat
    BY <1>1, <1>3 DEF a, b
  <1>6. ASSUME NEW i \in 1 .. Len(b) PROVE Tail(a)[i] = b[i]
    <2>1. i \in 1 .. Len(a) - 1 /\ i + 1 \in 1 .. Len(s) - n /\ i \in 1 .. Len(s) - n - 1
      BY <1>5
    <2>2. Tail(a)[i] = a[i + 1] /\ n + (i + 1) = n + 1 + i
      BY <1>4, <2>1
    <2>3. a[i + 1] = s[n + (i + 1)] /\ b[i] = s[n + 1 + i]
      BY <1>1, <1>3, <2>1 DEF a, b
    <2> QED BY <2>2, <2>3
  <1>7. b \in Seq(Fields) /\ Len(Tail(a)) = Len(b)
    BY <1>3, <1>4, <1>5 DEF b
  <1>8. Tail(a) = b
    BY <1>4, <1>6, <1>7, SeqEqual
  <1> QED BY <1>2, <1>8 DEF a, b

LEMMA NextRemaining ==
  ASSUME NEW l \in Locals, l.op \in WriteOps, Remaining(l), l.todo # <<>>,
         NEW m, m.fields = l.fields, m.stored = l.stored + 1, m.todo = Tail(l.todo)
  PROVE  Remaining(m)
  <1>1. PICK s \in Seq(Fields), n \in Nat : s = l.fields /\ n = l.stored
    BY LocalsParts
  <1>2. n <= Len(s) /\ l.todo = SubSeq(s, n + 1, Len(s))
    BY <1>1 DEF Remaining
  <1>3. n + 1 <= Len(s) /\ Tail(l.todo) = SubSeq(s, n + 2, Len(s))
    BY <1>2, OneFurther
  <1>4. m.fields = s /\ m.stored = n + 1 /\ n + 1 + 1 = n + 2
    BY <1>1
  <1> QED BY <1>3, <1>4 DEF Remaining

(* A step of t that leaves the count of its fields right. *)
LEMMA CountedStep ==
  ASSUME AInv, NEW t \in Threads, NEW p, NEW l, Moved(t, p, l), Remaining(l)
  PROVE  Counted'
  BY DEF AInv, Counted, Moved

(* Outside the calls that write there is nothing to count. *)
LEMMA NotWriting ==
  ASSUME TInv, NEW t \in Threads,
         pc[t] \in {"idle", "remove", "destroy", "entries", "scan", "visit", "copy", "field"}
  PROVE  loc[t].op \notin WriteOps /\ Remaining(loc[t]) /\ View(loc[t]) = NULL
  <1>1. CASE pc[t] = "idle"
    <2>1. loc[t] = Idle
      BY <1>1 DEF TInv, Control, Consistent
    <2> QED BY <2>1, NULLIsNothing DEF Idle, WriteOps, Remaining, View
  <1>2. CASE pc[t] # "idle"
    BY <1>2, BusyFacts DEF OpsAt, WriteOps, Remaining, View
  <1> QED BY <1>1, <1>2

LEMMA NotWritingNext ==
  ASSUME TInv', NEW t \in Threads,
         pc'[t] \in {"idle", "remove", "destroy", "entries", "scan", "visit", "copy", "field"}
  PROVE  loc'[t].op \notin WriteOps /\ Remaining(loc'[t]) /\ View(loc'[t]) = NULL
  <1>1. CASE pc'[t] = "idle"
    <2>1. loc'[t] = Idle
      BY <1>1 DEF TInv, Control, Consistent
    <2> QED BY <2>1, NULLIsNothing DEF Idle, WriteOps, Remaining, View
  <1>2. CASE pc'[t] # "idle"
    <2>1. Busy(t, pc[t], loc[t])'
      BY <1>2 DEF TInv, Control, Consistent
    <2> QED BY <2>1, <1>2 DEF Busy, OpsAt, WriteOps, Remaining, View
  <1> QED BY <1>1, <1>2

(* No string changes, and t is not about to insert one. *)
LEMMA SameStrings ==
  ASSUME AInv, NEW t \in Threads, NEW p, NEW l, Moved(t, p, l), p # "missing", Remaining(l),
         UNCHANGED <<liveStrs, content>>
  PROVE  AInv'
  BY CountedStep DEF AInv, Filled, Copied, Moved

(* A string more. *)
LEMMA MoreStrings ==
  ASSUME TInv, SInv, AInv, NEW t \in Threads, NEW p, NEW l, Moved(t, p, l), Remaining(l),
         NEW s \in Strs, CopyString(t, s), p = "missing" => l.str = s
  PROVE  AInv'
  <1>1. /\ s \notin liveStrs
        /\ \A u \in Threads : pc[u] \in {"missing", "delete"} => loc[u].str # s /\ loc[u].str \in Strs
    BY NewString, AnyHands
  <1>2. content \in [Strs -> Threads \cup {NULL}] /\ liveStrs \subseteq Strs
    BY HeapParts
  <1>3. liveStrs' = liveStrs \cup {s} /\ content' = [content EXCEPT ![s] = t]
    BY DEF CopyString
  <1>4. content'[s] = t /\ \A r \in Strs \ {s} : content'[r] = content[r]
    BY <1>2, <1>3
  <1>5. Filled'
    BY <1>1, <1>2, <1>3, <1>4 DEF AInv, Filled
  <1>6. Copied'
    BY <1>1, <1>4 DEF AInv, Copied, Moved
  <1> QED BY <1>5, <1>6, CountedStep DEF AInv

(* Strings that no other thread is about to insert are deleted. *)
LEMMA FewerStrings ==
  ASSUME TInv, SInv, AInv, NEW t \in Threads, NEW p, NEW l, Moved(t, p, l), Remaining(l),
         p # "missing", NEW S, DeleteStrings(S),
         \A u \in Threads \ {t} : pc[u] = "missing" => loc[u].str \notin S
  PROVE  AInv'
  <1>1. \A u \in Threads : pc[u] = "missing" => loc[u].str \in Strs
    BY AnyHands
  <1>2. liveStrs \subseteq Strs /\ liveStrs' = liveStrs \ S
        /\ \A s \in Strs : s \notin S => content'[s] = content[s]
    BY HeapParts DEF DeleteStrings
  <1>3. Filled'
    BY <1>2 DEF AInv, Filled
  <1>4. Copied'
    BY <1>1, <1>2 DEF AInv, Copied, Moved
  <1> QED BY <1>3, <1>4, CountedStep DEF AInv

-----------------------------------------------------------------------------
(* What the steps are for the abstract store. *)

Sim == Abs!AbsNext \/ UNCHANGED <<Store, Present, AbsCall>>

LEMMA CallsStep ==
  ASSUME AInv, Counted', NEW t \in Threads, NEW p, NEW l, Moved(t, p, l)
  PROVE  AbsCall' = [AbsCall EXCEPT ![t] = View(l)] /\ AbsCall[t] = View(loc[t])
  <1>1. AbsCall = [u \in Threads |-> View(loc[u])]
    BY Views DEF AInv
  <1>2. AbsCall' = [u \in Threads |-> View(loc'[u])]
    BY ViewsNext
  <1>3. \A u \in Threads : View(loc'[u]) = IF u = t THEN View(l) ELSE View(loc[u])
    BY DEF Moved
  <1> QED BY <1>1, <1>2, <1>3

(* A call that writes is one. *)
LEMMA WriteView ==
  ASSUME NEW l \in Locals, l.op \in WriteOps, ~Refused(l), l.key \in Keys
  PROVE  /\ View(l) = [op |-> l.op, key |-> l.key, todo |-> l.todo]
         /\ View(l) # NULL
  <1>1. View(l) = [op |-> l.op, key |-> l.key, todo |-> l.todo]
    BY DEF View
  <1>2. View(l) \in [op : WriteOps, key : Keys, todo : Seq(Fields)]
    BY <1>1, LocalsParts
  <1> QED BY <1>1, <1>2, NULLIsNothing DEF WriteOps

(* The records are as they were. *)
LEMMA SameStore ==
  ASSUME keyTable' = keyTable,
         \A k \in Keys, f \in Fields : keyTable[k] # NULL =>
           /\ fieldOf'[keyTable[k]][f] = fieldOf[keyTable[k]][f]
           /\ fieldOf[keyTable[k]][f] # NULL =>
                content'[fieldOf[keyTable[k]][f]] = content[fieldOf[keyTable[k]][f]]
  PROVE  Store' = Store /\ Present' = Present
  BY DEF Store, Present

LEMMA SameCalls ==
  ASSUME AInv, Counted', NEW t \in Threads, NEW p, NEW l, Moved(t, p, l), View(l) = View(loc[t])
  PROVE  AbsCall' = AbsCall
  <1>1. AbsCall' = [AbsCall EXCEPT ![t] = View(l)] /\ AbsCall[t] = View(loc[t])
    BY CallsStep
  <1>2. AbsCall = [u \in Threads |-> AbsCall[u]]
    BY DEF AbsCall
  <1> QED BY <1>1, <1>2

LEMMA NewTodo ==
  ASSUME NEW r \in [op : WriteOps, key : Keys, todo : Seq(Fields)], NEW d \in Seq(Fields)
  PROVE  [r EXCEPT !.todo = d] = [op |-> r.op, key |-> r.key, todo |-> d]
  OBVIOUS

(* A field reaches its record. *)
LEMMA Wrote ==
  ASSUME TInv, SInv, LInv, AInv, Counted', NEW t \in Threads, pc[t] \in Writing,
         loc[t].todo # <<>>, NEW n \in Tabs, NEW f \in Fields, NEW s \in Strs,
         n = loc[t].tab, f = Head(loc[t].todo), Stores(n, f, s), keyTable' = keyTable,
         content'[s] = t, \A r \in Strs \ {s} : content'[r] = content[r],
         \A j \in Tabs, g \in Fields : fieldOf[j][g] # s,
         loc[t].op = "Insert" => fieldOf[n][f] = NULL,
         NEW p, NEW l, Moved(t, p, l), l.op = loc[t].op, l.key = loc[t].key,
         l.todo = Tail(loc[t].todo), ~Refused(loc[t]), ~Refused(l)
  PROVE  Abs!AbsNext
  <1>1. pc[t] # "idle" /\ pc[t] \in Holding
    BY DEF Writing, Holding
  <1>2. PICK k \in Keys : k = loc[t].key
    BY <1>1, BusyFacts
  <1>3. loc[t] \in Locals /\ loc[t].op \in WriteOps
    BY <1>1, BusyFacts DEF OpsAt, Writing, WriteOps
  <1>4. keyTable[k] = n /\ n # NULL
    BY <1>2, MyWrites, Nothing DEF WritesTab
  <1>5. \A j \in Keys : j # k => keyTable[j] # n
    BY <1>4, Nothing DEF SInv, Tables
  <1>6. \A j \in Tabs, g \in Fields :
          fieldOf[j][g] # NULL => content'[fieldOf[j][g]] = content[fieldOf[j][g]]
    BY HeapParts
  <1>7. ASSUME NEW j \in Keys, NEW g \in Fields
        PROVE  Store'[j][g] = IF j = k /\ g = f THEN t ELSE Store[j][g]
    <2>1. CASE j = k /\ g = f
      <3>1. keyTable'[j] = n /\ fieldOf'[n][g] = s /\ s # NULL
        BY <1>4, <2>1, Nothing DEF Stores
      <3> QED BY <1>4, <2>1, <3>1 DEF Store
    <2>2. CASE ~(j = k /\ g = f)
      <3>1. CASE keyTable[j] = NULL
        BY <2>2, <3>1 DEF Store
      <3>2. CASE keyTable[j] # NULL
        <4>1. keyTable[j] \in Tabs /\ <<keyTable[j], g>> # <<n, f>>
          BY <1>5, <2>2, <3>2, HeapParts
        <4>2. fieldOf'[keyTable[j]][g] = fieldOf[keyTable[j]][g]
          BY <4>1 DEF Stores
        <4> QED BY <1>6, <2>2, <4>1, <4>2 DEF Store
      <3> QED BY <3>1, <3>2
    <2> QED BY <2>1, <2>2
  <1>8. Store' = [Store EXCEPT ![k][f] = t]
    <2>1. Store = [j \in Keys |-> [g \in Fields |-> Store[j][g]]]
      BY DEF Store
    <2>2. Store' = [j \in Keys |-> [g \in Fields |-> Store'[j][g]]]
      BY DEF Store
    <2> QED BY <1>7, <2>1, <2>2
  <1>9. Store[k][f] = NULL <=> fieldOf[n][f] = NULL
    <2>1. fieldOf[n][f] # NULL => content[fieldOf[n][f]] \in Threads
      BY DEF SInv, Slots, AInv, Filled
    <2> QED BY <1>4, <2>1, Nothing DEF Store
  <1>10. Present' = Present /\ k \in Present
    BY <1>4 DEF Present
  <1>11. /\ AbsCall[t] = [op |-> loc[t].op, key |-> k, todo |-> loc[t].todo] /\ AbsCall[t] # NULL
         /\ AbsCall' = [AbsCall EXCEPT ![t] = View(l)]
    BY <1>2, <1>3, CallsStep, WriteView
  <1>12. View(l) = [op |-> loc[t].op, key |-> k, todo |-> Tail(loc[t].todo)]
    BY <1>2, <1>3 DEF View
  <1>13. AbsCall' = [AbsCall EXCEPT ![t].todo = Tail(@)]
    <2> DEFINE r == AbsCall[t]
    <2>1. r \in [op : WriteOps, key : Keys, todo : Seq(Fields)]
      BY <1>3, <1>11, LocalsParts
    <2>2. r.op = loc[t].op /\ r.key = k /\ r.todo = loc[t].todo /\ Tail(r.todo) \in Seq(Fields)
      BY <1>3, <1>11, LocalsParts, HeadTail
    <2> HIDE DEF r
    <2>3. \A d \in Seq(Fields) :
            [r EXCEPT !.todo = d] = [op |-> r.op, key |-> r.key, todo |-> d]
      BY <2>1, NewTodo
    <2>4. [r EXCEPT !.todo = Tail(r.todo)] = View(l)
      <3>1. [r EXCEPT !.todo = Tail(r.todo)]
              = [op |-> r.op, key |-> r.key, todo |-> Tail(r.todo)]
        BY <2>2, <2>3, Zenon
      <3> QED BY <1>12, <2>2, <3>1
    <2> QED BY <1>11, <2>4 DEF r
  <1>14. AbsCall[t].op = loc[t].op /\ AbsCall[t].key = k /\ AbsCall[t].todo = loc[t].todo
    BY <1>11
  <1>15. Abs!WriteField(t)
    BY <1>8, <1>9, <1>10, <1>11, <1>13, <1>14 DEF Abs!WriteField
  <1> QED BY <1>15 DEF Abs!AbsNext

(* The hash tables and the heap are left alone. *)
LEMMA QuietSim ==
  ASSUME AInv, NEW t \in Threads, NEW p, NEW l, Moved(t, p, l), p # "missing",
         Remaining(l), View(l) = View(loc[t]), UNCHANGED <<keyTable, heap>>
  PROVE  AInv' /\ Sim
  <1>1. UNCHANGED <<keyTable, fieldOf, liveStrs, content>>
    BY DEF heap
  <1>2. AInv'
    BY <1>1, SameStrings
  <1>3. Store' = Store /\ Present' = Present
    BY <1>1, SameStore
  <1>4. AbsCall' = AbsCall
    BY <1>2, SameCalls DEF AInv
  <1> QED BY <1>2, <1>3, <1>4 DEF Sim

(* Reading is no step of the abstract store. *)
LEMMA ReadSim ==
  ASSUME TInv, TInv', AInv, NEW t \in Threads,
         \/ ScanEntries(t) \/ ScanNext(t) \/ Visit(t) \/ GetField(t) \/ CopyResult(t)
         \/ EndCopy(t) \/ EndFields(t)
  PROVE  AInv' /\ Sim
  <1>1. /\ pc[t] \in {"entries", "scan", "visit", "copy", "field"}
        /\ UNCHANGED <<keyTable, heap>>
    BY ScanEntriesType, ScanNextType, VisitType, GetFieldType, CopyResultType, EndCopyType,
       EndFieldsType
  <1>2. \E p \in {"idle", "scan", "visit", "copy", "field"} : \E l : Moved(t, p, l)
    <2>1. CASE ScanEntries(t) BY <2>1, ScanEntriesType
    <2>2. CASE ScanNext(t) BY <2>2, ScanNextType
    <2>3. CASE Visit(t) BY <2>3, VisitType
    <2>4. CASE GetField(t) BY <2>4, GetFieldType
    <2>5. CASE CopyResult(t) BY <2>5, CopyResultType
    <2>6. CASE EndCopy(t) BY <2>6, EndCopyType
    <2>7. CASE EndFields(t) BY <2>7, EndFieldsType
    <2> QED BY <2>1, <2>2, <2>3, <2>4, <2>5, <2>6, <2>7
  <1>3. PICK p \in {"idle", "scan", "visit", "copy", "field"} : \E l : Moved(t, p, l)
    BY <1>2
  <1>4. PICK l : Moved(t, p, l)
    BY <1>3
  <1>5. p = pc'[t] /\ l = loc'[t]
    BY <1>4 DEF Moved
  <1>6. Remaining(l) /\ View(l) = NULL
    BY <1>5, NotWritingNext
  <1>7. View(loc[t]) = NULL
    BY <1>1, NotWriting
  <1> QED BY <1>1, <1>4, <1>6, <1>7, QuietSim

(* Neither is looking the key up. *)
LEMMA GetSim ==
  ASSUME TInv, TInv', AInv, NEW t \in Threads, Get(t)
  PROVE  AInv' /\ Sim
  <1>1. pc[t] = "get" /\ UNCHANGED <<keyTable, heap>>
    BY GetType
  <1>2. loc[t] \in Locals
    BY <1>1, BusyFacts
  <1>3. Remaining(loc[t])
    BY DEF AInv, Counted
  <1>4. ASSUME NEW p \in {"visit", "update", "insert"}, NEW n,
               Moved(t, p, [loc[t] EXCEPT !.tab = n])
        PROVE  AInv' /\ Sim
    <2>1. PICK l : l = [loc[t] EXCEPT !.tab = n]
      OBVIOUS
    <2>2. /\ l.op = loc[t].op /\ l.key = loc[t].key /\ l.todo = loc[t].todo
          /\ l.fields = loc[t].fields /\ l.stored = loc[t].stored /\ l.str = loc[t].str
      BY <1>2, <2>1 DEF Locals
    <2>3. Remaining(l) /\ View(l) = View(loc[t])
      BY <1>3, <2>2 DEF Remaining, View, Refused
    <2> QED BY <1>1, <1>4, <2>1, <2>3, QuietSim
  <1>5. ASSUME Moved(t, "attach", loc[t]) PROVE AInv' /\ Sim
    BY <1>1, <1>3, <1>5, QuietSim
  <1>6. ASSUME loc[t].op = "Read", Moved(t, "idle", Idle) PROVE AInv' /\ Sim
    <2>1. pc'[t] = "idle" /\ loc'[t] = Idle
      BY <1>6 DEF Moved
    <2>2. Remaining(Idle) /\ View(Idle) = NULL
      BY <2>1, NotWritingNext
    <2>3. View(loc[t]) = NULL
      BY <1>6 DEF View, WriteOps
    <2> QED BY <1>1, <1>6, <2>2, <2>3, QuietSim
  <1>7. \/ \E p \in {"visit", "update", "insert"} :
             \E n : Moved(t, p, [loc[t] EXCEPT !.tab = n])
        \/ Moved(t, "attach", loc[t])
        \/ loc[t].op = "Read" /\ Moved(t, "idle", Idle)
    BY GetType
  <1> QED BY <1>4, <1>5, <1>6, <1>7

(* A call that writes comes to its end. *)
LEMMA EndCall ==
  ASSUME TInv, TInv', RInv, AInv, NEW t \in Threads, Moved(t, "idle", Idle),
         pc[t] \in {"fresh", "insert", "update"}, UNCHANGED <<keyTable, heap>>
  PROVE  /\ AInv' /\ Store' = Store /\ Present' = Present
         /\ AbsCall[t] = [op |-> loc[t].op, key |-> loc[t].key, todo |-> loc[t].todo]
         /\ AbsCall[t] # NULL /\ AbsCall' = [AbsCall EXCEPT ![t] = NULL]
  <1>1. UNCHANGED <<keyTable, fieldOf, liveStrs, content>>
    BY DEF heap
  <1>2. pc'[t] = "idle" /\ loc'[t] = Idle
    BY DEF Moved
  <1>3. Remaining(Idle) /\ View(Idle) = NULL
    BY <1>2, NotWritingNext
  <1>4. AInv'
    BY <1>1, <1>3, SameStrings
  <1>5. Store' = Store /\ Present' = Present
    BY <1>1, SameStore
  <1>6. loc[t] \in Locals /\ loc[t].op \in WriteOps /\ loc[t].key \in Keys /\ ~Refused(loc[t])
    BY BusyFacts, NotRefused DEF OpsAt, WriteOps
  <1>7. AbsCall' = [AbsCall EXCEPT ![t] = View(Idle)] /\ AbsCall[t] = View(loc[t])
    BY <1>4, CallsStep DEF AInv
  <1> QED BY <1>3, <1>4, <1>5, <1>6, <1>7, WriteView

LEMMA ReturnOKSim ==
  ASSUME TInv, TInv', RInv, AInv, NEW t \in Threads, ReturnOK(t)
  PROVE  AInv' /\ Sim
  <1>1. /\ pc[t] \in {"fresh", "insert", "update"} /\ loc[t].todo = <<>>
        /\ UNCHANGED <<keyTable, heap>> /\ Moved(t, "idle", Idle)
    BY ReturnOKType
  <1>2. /\ AInv' /\ Store' = Store /\ Present' = Present
        /\ AbsCall[t] = [op |-> loc[t].op, key |-> loc[t].key, todo |-> loc[t].todo]
        /\ AbsCall[t] # NULL /\ AbsCall' = [AbsCall EXCEPT ![t] = NULL]
    BY <1>1, EndCall
  <1>3. AbsCall[t].todo = <<>>
    BY <1>1, <1>2
  <1>4. Abs!ReturnOK(t)
    BY <1>2, <1>3 DEF Abs!ReturnOK
  <1> QED BY <1>2, <1>4 DEF Sim, Abs!AbsNext

(* An insert is refused: it is over for its client. *)
LEMMA ConflictSim ==
  ASSUME TInv, TInv', SInv, LInv, RInv, AInv, NEW t \in Threads, InsertField(t),
         fieldOf[loc[t].tab][Head(loc[t].todo)] # NULL
  PROVE  AInv' /\ Sim
  <1>1. /\ pc[t] = "insert" /\ loc[t].todo # <<>> /\ UNCHANGED <<keyTable, fieldOf>>
        /\ \E s \in Strs : CopyString(t, s) /\ Moved(t, "delete", [loc[t] EXCEPT !.str = s])
    BY ConflictType
  <1>2. PICK s \in Strs : CopyString(t, s) /\ Moved(t, "delete", [loc[t] EXCEPT !.str = s])
    BY <1>1
  <1>3. PICK l : l = [loc[t] EXCEPT !.str = s]
    OBVIOUS
  <1>4. /\ loc[t] \in Locals /\ loc[t].op = "Insert" /\ loc[t].key \in Keys
        /\ pc[t] \in Holding /\ Remaining(loc[t]) /\ ~Refused(loc[t])
    BY <1>1, BusyFacts, NotRefused DEF OpsAt, Holding, AInv, Counted
  <1>5. /\ Moved(t, "delete", l) /\ l.op = loc[t].op /\ l.key = loc[t].key
        /\ l.todo = loc[t].todo /\ l.str = s /\ l.fields = loc[t].fields
        /\ l.stored = loc[t].stored
    BY <1>2, <1>3, <1>4 DEF Locals
  <1>6. Remaining(l) /\ View(l) = NULL
    BY <1>4, <1>5, Nothing DEF Remaining, View, Refused
  <1>7. AInv'
    BY <1>2, <1>5, <1>6, MoreStrings
  <1>8. AbsCall' = [AbsCall EXCEPT ![t] = NULL] /\ AbsCall[t] = View(loc[t])
    BY <1>5, <1>6, <1>7, CallsStep DEF AInv
  <1>9. /\ AbsCall[t] = [op |-> loc[t].op, key |-> loc[t].key, todo |-> loc[t].todo]
        /\ AbsCall[t] # NULL
    BY <1>4, <1>8, WriteView DEF WriteOps
  <1>10. Store' = Store /\ Present' = Present
    <2>1. \A j \in Tabs, g \in Fields : fieldOf[j][g] # s
      BY <1>2, NewString
    <2>2. \A r \in Strs \ {s} : content'[r] = content[r]
      BY <1>2, HeapParts DEF CopyString
    <2> QED BY <1>1, <2>1, <2>2, SameStore, HeapParts
  <1>11. PICK n \in Tabs, f \in Fields : n = loc[t].tab /\ f = Head(loc[t].todo)
    BY <1>1, <1>4, NextSlot
  <1>12. keyTable[loc[t].key] = n /\ n # NULL
    BY <1>1, <1>11, MyWrites, Nothing DEF WritesTab, Writing
  <1>13. content[fieldOf[n][f]] \in Threads
    BY <1>11 DEF SInv, Slots, AInv, Filled
  <1>14. Store[loc[t].key][f] # NULL
    BY <1>4, <1>11, <1>12, <1>13, Nothing DEF Store
  <1>15. AbsCall[t].op = "Insert" /\ AbsCall[t].key = loc[t].key /\ AbsCall[t].todo = loc[t].todo
    BY <1>4, <1>9
  <1>16. Abs!ReturnConflict(t)
    BY <1>1, <1>8, <1>9, <1>10, <1>11, <1>14, <1>15 DEF Abs!ReturnConflict
  <1> QED BY <1>7, <1>16 DEF Sim, Abs!AbsNext

(* The record comes into being. *)
LEMMA AttachSim ==
  ASSUME TInv, TInv', SInv, LInv, RInv, AInv, NEW t \in Threads, Attach(t)
  PROVE  AInv' /\ Sim
  <1>1. pc[t] = "attach" /\ UNCHANGED <<liveStrs, content>>
    BY AttachType
  <1>2. PICK n \in Tabs \ liveTabs :
          /\ fieldOf' = [fieldOf EXCEPT ![n] = NoFields]
          /\ keyTable' = [keyTable EXCEPT ![loc[t].key] = IF @ = NULL THEN n ELSE @]
          /\ Moved(t, pc'[t], [loc[t] EXCEPT !.tab = n]) /\ pc'[t] \in {"fresh", "insert"}
    BY AttachType
  <1>3. /\ loc[t] \in Locals /\ loc[t].key \in Keys /\ loc[t].op \in WriteOps
        /\ Remaining(loc[t]) /\ ~Refused(loc[t])
    BY <1>1, BusyFacts, NotRefused DEF OpsAt, WriteOps, AInv, Counted
  <1>4. PICK l : l = [loc[t] EXCEPT !.tab = n]
    OBVIOUS
  <1>5. /\ l.op = loc[t].op /\ l.key = loc[t].key /\ l.todo = loc[t].todo
        /\ l.fields = loc[t].fields /\ l.stored = loc[t].stored /\ l.str = loc[t].str
    BY <1>3, <1>4 DEF Locals
  <1>6. Remaining(l) /\ View(l) = View(loc[t])
    BY <1>3, <1>5 DEF Remaining, View, Refused
  <1>7. AInv'
    BY <1>1, <1>2, <1>4, <1>6, SameStrings
  <1>8. AbsCall' = AbsCall /\ AbsCall[t] = View(loc[t])
    BY <1>2, <1>4, <1>6, <1>7, SameCalls, CallsStep DEF AInv
  <1>9. AbsCall[t] # NULL /\ AbsCall[t].key = loc[t].key
    BY <1>3, <1>8, WriteView
  <1>10. PICK k \in Keys : k = loc[t].key
    BY <1>3
  <1>11. keyTable[k] = NULL /\ keyTable'[k] = n /\ n # NULL
         /\ \A j \in Keys : j # k => keyTable'[j] = keyTable[j]
    BY <1>1, <1>2, <1>10, MyWrites, HeapParts, Nothing DEF WritesTab
  <1>12. fieldOf'[n] = NoFields /\ \A j \in Tabs : j # n => fieldOf'[j] = fieldOf[j]
    BY <1>2, HeapParts
  <1>13. \A j \in Keys : keyTable[j] # NULL => keyTable[j] \in Tabs /\ keyTable[j] # n
    BY <1>2, HeapParts DEF SInv, Tables
  <1>14. ASSUME NEW j \in Keys, NEW f \in Fields PROVE Store'[j][f] = Store[j][f]
    <2>1. CASE j = k
      BY <1>11, <1>12, <2>1 DEF Store, NoFields
    <2>2. CASE j # k
      BY <1>1, <1>11, <1>12, <1>13, <2>2 DEF Store
    <2> QED BY <2>1, <2>2
  <1>15. Store' = Store
    <2>1. Store = [j \in Keys |-> [g \in Fields |-> Store[j][g]]]
      BY DEF Store
    <2>2. Store' = [j \in Keys |-> [g \in Fields |-> Store'[j][g]]]
      BY DEF Store
    <2> QED BY <1>14, <2>1, <2>2
  <1>16. Present' = Present \cup {k} /\ k \notin Present
    BY <1>11 DEF Present
  <1>17. Abs!Create(t)
    BY <1>8, <1>9, <1>10, <1>15, <1>16 DEF Abs!Create
  <1> QED BY <1>7, <1>17 DEF Sim, Abs!AbsNext

(* The locals of a call that has just written a field of its record. *)
LEMMA WrittenCounts ==
  ASSUME TInv, LInv, AInv, NEW t \in Threads, pc[t] \in Writing, loc[t].todo # <<>>,
         NEW str, NEW l, l = [Written(t) EXCEPT !.str = str]
  PROVE  /\ Remaining(l) /\ l.op = loc[t].op /\ l.key = loc[t].key
         /\ l.todo = Tail(loc[t].todo)
  <1>1. /\ loc[t] \in Locals /\ loc[t].op \in WriteOps /\ loc[t].stored \in Nat
        /\ Remaining(loc[t])
    BY BusyFacts DEF OpsAt, WriteOps, Writing, AInv, Counted
  <1>2. keyTable[loc[t].key] = loc[t].tab
    BY MyWrites DEF WritesTab
  <1>3. /\ l.op = loc[t].op /\ l.key = loc[t].key /\ l.todo = Tail(loc[t].todo)
        /\ l.fields = loc[t].fields /\ l.stored = loc[t].stored + 1
    BY <1>1, <1>2 DEF Written, Locals
  <1> QED BY <1>1, <1>3, NextRemaining

LEMMA NewFieldSim ==
  ASSUME TInv, TInv', SInv, LInv, RInv, AInv, NEW t \in Threads,
         \/ UpdateFresh(t)
         \/ InsertField(t) /\ fieldOf[loc[t].tab][Head(loc[t].todo)] = NULL
  PROVE  AInv' /\ Sim
  <1>1. /\ pc[t] \in {"fresh", "insert"} /\ loc[t].todo # <<>>
        /\ UNCHANGED <<keyTable, liveTabs>>
    BY NewFieldType
  <1>2. PICK s \in Strs : CopyString(t, s) /\ FieldInsert(t, s)
    BY DEF UpdateFresh, InsertField, NextHeld
  <1>3. pc[t] \in Writing /\ pc[t] \in Holding /\ pc[t] # "idle" /\ pc[t] # "missing"
    BY <1>1 DEF Writing, Holding
  <1>4. PICK n \in Tabs, f \in Fields : n = loc[t].tab /\ f = Head(loc[t].todo)
    BY <1>1, <1>3, NextSlot
  <1>5. fieldOf[n][f] = NULL
    <2>1. CASE pc[t] = "fresh"
      <3>1. WritesNew(pc[t], loc[t]) /\ loc[t].todo \in Seq(Fields)
        BY <1>3, MyWrites, BusyFacts
      <3>2. loc[t].todo[1] = f /\ 1 \in 1 .. Len(loc[t].todo)
        BY <1>1, <1>4, <3>1
      <3>3. Somewhere(f, loc[t].todo)
        BY <3>2 DEF Somewhere
      <3> QED BY <1>4, <2>1, <3>1, <3>3 DEF WritesNew
    <2>2. CASE pc[t] = "insert"
      BY <1>4, <2>2 DEF UpdateFresh
    <2> QED BY <1>1, <2>1, <2>2
  <1>6. PICK l : l = [Written(t) EXCEPT !.str = NULL]
    OBVIOUS
  <1>7. fieldOf' = [fieldOf EXCEPT ![n][f] = s] /\ loc' = [loc EXCEPT ![t] = l] /\ pc' = pc
    BY <1>2, <1>4, <1>5, <1>6 DEF FieldInsert, NextHeld, Set, UpdateFresh, InsertField
  <1>8. Moved(t, pc[t], l)
    BY <1>7 DEF Moved, TInv, ThreadType
  <1>9. /\ Remaining(l) /\ l.op = loc[t].op /\ l.key = loc[t].key
        /\ l.todo = Tail(loc[t].todo) /\ ~Refused(loc[t]) /\ ~Refused(l)
    <2>1. /\ Remaining(l) /\ l.op = loc[t].op /\ l.key = loc[t].key
          /\ l.todo = Tail(loc[t].todo)
      BY <1>1, <1>3, <1>6, WrittenCounts
    <2>2. ~Refused(loc[t])
      BY <1>1, NotRefused
    <2>3. l.str = NULL
      BY <1>8, NewFieldType DEF Moved, AtNext
    <2> QED BY <2>1, <2>2, <2>3 DEF Refused
  <1>10. AInv'
    BY <1>2, <1>3, <1>8, <1>9, MoreStrings
  <1>11. Stores(n, f, s)
    BY <1>7, StoreType
  <1>12. \A j \in Tabs, g \in Fields : fieldOf[j][g] # s
    BY <1>2, NewString
  <1>13. content'[s] = t /\ \A r \in Strs \ {s} : content'[r] = content[r]
    BY <1>2, HeapParts DEF CopyString
  <1>14. Abs!AbsNext
    BY <1>1, <1>3, <1>4, <1>5, <1>8, <1>9, <1>10, <1>11, <1>12, <1>13, Wrote DEF AInv
  <1> QED BY <1>10, <1>14 DEF Sim

LEMMA UpdateFieldSim ==
  ASSUME TInv, TInv', SInv, LInv, AInv, NEW t \in Threads, UpdateField(t)
  PROVE  AInv' /\ Sim
  <1>1. pc[t] = "update" /\ loc[t].todo # <<>> /\ UNCHANGED <<keyTable, liveTabs>>
    BY UpdateFieldType
  <1>2. pc[t] \in Writing /\ pc[t] \in Holding /\ pc[t] # "idle"
    BY <1>1 DEF Writing, Holding
  <1>3. PICK n \in Tabs, f \in Fields : n = loc[t].tab /\ f = Head(loc[t].todo)
    BY <1>1, <1>2, NextSlot
  <1>4. loc[t] \in Locals /\ loc[t].op = "Update" /\ Remaining(loc[t])
    BY <1>1, <1>2, BusyFacts DEF OpsAt, AInv, Counted
  <1>5. PICK s \in Strs :
          /\ CopyString(t, s)
          /\ IF fieldOf[n][f] # NULL
               THEN /\ fieldOf' = [fieldOf EXCEPT ![n][f] = s]
                    /\ pc' = [pc EXCEPT ![t] = "delete"]
                    /\ loc' = [loc EXCEPT ![t] = [Written(t) EXCEPT !.str = fieldOf[n][f]]]
               ELSE /\ pc' = [pc EXCEPT ![t] = "missing"]
                    /\ loc' = [loc EXCEPT ![t] = [loc[t] EXCEPT !.str = s]]
                    /\ fieldOf' = fieldOf
    BY <1>3 DEF UpdateField, Set
  <1>6. content'[s] = t /\ \A r \in Strs \ {s} : content'[r] = content[r]
    BY <1>5, HeapParts DEF CopyString
  <1>7. \A j \in Tabs, g \in Fields : fieldOf[j][g] # s
    BY <1>5, NewString
  <1>8. CASE fieldOf[n][f] # NULL
    <2>1. PICK l : l = [Written(t) EXCEPT !.str = fieldOf[n][f]]
      OBVIOUS
    <2>2. fieldOf' = [fieldOf EXCEPT ![n][f] = s] /\ Moved(t, "delete", l)
      BY <1>5, <1>8, <2>1 DEF Moved, TInv, ThreadType
    <2>3. /\ Remaining(l) /\ l.op = loc[t].op /\ l.key = loc[t].key
          /\ l.todo = Tail(loc[t].todo) /\ ~Refused(loc[t]) /\ ~Refused(l)
      <3>1. /\ Remaining(l) /\ l.op = loc[t].op /\ l.key = loc[t].key
            /\ l.todo = Tail(loc[t].todo)
        BY <1>1, <1>2, <2>1, WrittenCounts
      <3> QED BY <1>4, <3>1 DEF Refused
    <2>4. AInv'
      BY <1>5, <2>2, <2>3, MoreStrings
    <2>5. Stores(n, f, s)
      BY <2>2, StoreType
    <2>6. Abs!AbsNext
      BY <1>1, <1>2, <1>3, <1>4, <1>6, <1>7, <2>2, <2>3, <2>4, <2>5, Wrote DEF AInv
    <2> QED BY <2>4, <2>6 DEF Sim
  <1>9. CASE fieldOf[n][f] = NULL
    <2>1. PICK l : l = [loc[t] EXCEPT !.str = s]
      OBVIOUS
    <2>2. fieldOf' = fieldOf /\ Moved(t, "missing", l)
      BY <1>5, <1>9, <2>1 DEF Moved, TInv, ThreadType
    <2>3. /\ l.op = loc[t].op /\ l.key = loc[t].key /\ l.todo = loc[t].todo /\ l.str = s
          /\ l.fields = loc[t].fields /\ l.stored = loc[t].stored
      BY <1>4, <2>1 DEF Locals
    <2>4. Remaining(l) /\ View(l) = View(loc[t])
      BY <1>4, <2>3 DEF Remaining, View, Refused
    <2>5. AInv'
      BY <1>5, <2>2, <2>3, <2>4, MoreStrings
    <2>6. Store' = Store /\ Present' = Present
      BY <1>1, <1>6, <1>7, <2>2, SameStore, HeapParts
    <2>7. AbsCall' = AbsCall
      BY <2>2, <2>4, <2>5, SameCalls DEF AInv
    <2> QED BY <2>5, <2>6, <2>7 DEF Sim
  <1> QED BY <1>8, <1>9

LEMMA UpdateMissingSim ==
  ASSUME TInv, TInv', SInv, LInv, AInv, NEW t \in Threads, UpdateMissing(t)
  PROVE  AInv' /\ Sim
  <1>1. /\ pc[t] = "missing" /\ loc[t].todo # <<>>
        /\ UNCHANGED <<keyTable, liveTabs, liveStrs, content>>
    BY UpdateMissingType
  <1>2. pc[t] \in Writing /\ pc[t] \in Holding /\ pc[t] # "idle"
    BY <1>1 DEF Writing, Holding
  <1>3. PICK n \in Tabs, f \in Fields : n = loc[t].tab /\ f = Head(loc[t].todo)
    BY <1>1, <1>2, NextSlot
  <1>4. PICK s \in Strs : s = loc[t].str
    BY <1>1, <1>2, BusyFacts
  <1>5. fieldOf[n][f] = NULL
    BY <1>1, <1>3, MyWrites DEF WritesMissing
  <1>6. PICK l : l = [Written(t) EXCEPT !.str = NULL]
    OBVIOUS
  <1>7. /\ fieldOf' = [fieldOf EXCEPT ![n][f] = s] /\ loc' = [loc EXCEPT ![t] = l]
        /\ pc' = [pc EXCEPT ![t] = "update"]
    BY <1>3, <1>4, <1>5, <1>6 DEF UpdateMissing, FieldInsert, NextHeld, Set, Goto
  <1>8. Moved(t, "update", l)
    BY <1>7 DEF Moved, TInv, ThreadType
  <1>9. /\ Remaining(l) /\ l.op = loc[t].op /\ l.key = loc[t].key
        /\ l.todo = Tail(loc[t].todo) /\ ~Refused(loc[t]) /\ ~Refused(l)
    <2>1. loc[t].op = "Update"
      BY <1>1, <1>2, BusyFacts DEF OpsAt
    <2>2. /\ Remaining(l) /\ l.op = loc[t].op /\ l.key = loc[t].key
          /\ l.todo = Tail(loc[t].todo)
      BY <1>1, <1>2, <1>6, WrittenCounts
    <2> QED BY <2>1, <2>2 DEF Refused
  <1>10. AInv'
    BY <1>1, <1>8, <1>9, SameStrings
  <1>11. Stores(n, f, s)
    BY <1>7, StoreType
  <1>12. \A j \in Tabs, g \in Fields : fieldOf[j][g] # s
    BY <1>1, <1>4, AnyHands DEF HandsStr
  <1>13. content'[s] = t /\ \A r \in Strs \ {s} : content'[r] = content[r]
    BY <1>1, <1>4 DEF AInv, Copied
  <1>14. Abs!AbsNext
    BY <1>1, <1>2, <1>3, <1>5, <1>8, <1>9, <1>10, <1>11, <1>12, <1>13, Wrote DEF AInv
  <1> QED BY <1>10, <1>14 DEF Sim

(* A string that has been replaced, or refused, is in no record. *)
LEMMA FreesSim ==
  ASSUME TInv, TInv', SInv, AInv, NEW t \in Threads, pc[t] = "delete",
         DeleteStrings({loc[t].str}), UNCHANGED <<keyTable, fieldOf>>,
         NEW p \in {"idle", "update"}, NEW l, Moved(t, p, l), Remaining(l),
         View(l) = View(loc[t])
  PROVE  AInv' /\ Sim
  <1>1. \A u \in Threads \ {t} : pc[u] = "missing" => loc[u].str \notin {loc[t].str}
    BY DEF SInv, InHands, Apart
  <1>2. AInv'
    BY <1>1, FewerStrings
  <1>3. \A j \in Tabs, g \in Fields : fieldOf[j][g] # loc[t].str
    BY AnyHands DEF HandsStr
  <1>4. \A r \in Strs : r # loc[t].str => content'[r] = content[r]
    BY DEF DeleteStrings
  <1>5. Store' = Store /\ Present' = Present
    BY <1>3, <1>4, SameStore, HeapParts
  <1>6. AbsCall' = AbsCall
    BY <1>2, SameCalls DEF AInv
  <1> QED BY <1>2, <1>5, <1>6 DEF Sim

LEMMA DeleteOldSim ==
  ASSUME TInv, TInv', SInv, AInv, NEW t \in Threads, DeleteOld(t)
  PROVE  AInv' /\ Sim
  <1>1. /\ pc[t] = "delete" /\ DeleteStrings({loc[t].str}) /\ loc[t].op = "Update"
        /\ UNCHANGED <<keyTable, fieldOf>>
    BY DeleteOldType
  <1>2. PICK l : l = [loc[t] EXCEPT !.str = NULL]
    OBVIOUS
  <1>3. Moved(t, "update", l)
    BY <1>2, DeleteOldType
  <1>4. loc[t] \in Locals /\ Remaining(loc[t])
    BY <1>1, BusyFacts DEF AInv, Counted
  <1>5. /\ l.op = loc[t].op /\ l.key = loc[t].key /\ l.todo = loc[t].todo
        /\ l.fields = loc[t].fields /\ l.stored = loc[t].stored
    BY <1>2, <1>4 DEF Locals
  <1>6. Remaining(l) /\ View(l) = View(loc[t])
    BY <1>1, <1>4, <1>5 DEF Remaining, View, Refused
  <1> QED BY <1>1, <1>3, <1>6, FreesSim

LEMMA RefusedSim ==
  ASSUME TInv, TInv', SInv, AInv, NEW t \in Threads, InsertConflict(t)
  PROVE  AInv' /\ Sim
  <1>1. /\ pc[t] = "delete" /\ DeleteStrings({loc[t].str}) /\ loc[t].op = "Insert"
        /\ UNCHANGED <<keyTable, fieldOf>> /\ Moved(t, "idle", Idle)
    BY RefusedType
  <1>2. pc'[t] = "idle" /\ loc'[t] = Idle
    BY <1>1 DEF Moved
  <1>3. Remaining(Idle) /\ View(Idle) = NULL
    BY <1>2, NotWritingNext
  <1>4. View(loc[t]) = NULL
    BY <1>1, BusyFacts, Nothing DEF View, Refused
  <1> QED BY <1>1, <1>3, <1>4, FreesSim

(* The record goes. *)
LEMMA RemoveSim ==
  ASSUME TInv, TInv', SInv, AInv, NEW t \in Threads, Remove(t)
  PROVE  AInv' /\ Sim
  <1>1. /\ pc[t] = "remove" /\ UNCHANGED heap
        /\ keyTable' = [keyTable EXCEPT ![loc[t].key] = NULL]
    BY RemoveType
  <1>2. PICK k \in Keys : k = loc[t].key
    BY <1>1, BusyFacts
  <1>3. UNCHANGED <<fieldOf, liveStrs, content>>
    BY <1>1 DEF heap
  <1>4. \E p \in {"idle", "destroy"} : \E l : Moved(t, p, l)
    BY RemoveType
  <1>5. PICK p \in {"idle", "destroy"} : \E l : Moved(t, p, l)
    BY <1>4
  <1>6. PICK l : Moved(t, p, l)
    BY <1>5
  <1>7. p = pc'[t] /\ l = loc'[t]
    BY <1>6 DEF Moved
  <1>8. Remaining(l) /\ View(l) = NULL /\ View(loc[t]) = NULL
    BY <1>1, <1>7, NotWriting, NotWritingNext
  <1>9. AInv'
    BY <1>3, <1>6, <1>8, SameStrings
  <1>10. AbsCall' = AbsCall
    BY <1>6, <1>8, <1>9, SameCalls DEF AInv
  <1>11. keyTable'[k] = NULL /\ \A j \in Keys : j # k => keyTable'[j] = keyTable[j]
    BY <1>1, <1>2, HeapParts
  <1>12. CASE keyTable[k] = NULL
    <2>1. keyTable' = keyTable
      BY <1>1, <1>2, <1>12, HeapParts
    <2>2. Store' = Store /\ Present' = Present
      BY <1>3, <2>1, SameStore
    <2> QED BY <1>9, <1>10, <2>2 DEF Sim
  <1>13. CASE keyTable[k] # NULL
    <2>1. k \in Present /\ Present' = Present \ {k}
      BY <1>11, <1>13 DEF Present
    <2>2. \A j \in Keys :
            Store'[j] = IF j = k THEN [f \in Fields |-> NULL] ELSE Store[j]
      BY <1>3, <1>11 DEF Store
    <2>3. Store' = [Store EXCEPT ![k] = [f \in Fields |-> NULL]]
      <3>1. Store = [j \in Keys |-> Store[j]] /\ Store' = [j \in Keys |-> Store'[j]]
        BY DEF Store
      <3> QED BY <2>2, <3>1
    <2>4. Abs!Remove(k)
      BY <1>10, <2>1, <2>3 DEF Abs!Remove
    <2> QED BY <1>9, <2>4 DEF Sim, Abs!AbsNext
  <1> QED BY <1>12, <1>13

(* The strings of a removed record are in no other. *)
LEMMA DestroySim ==
  ASSUME TInv, TInv', SInv, AInv, NEW t \in Threads, Destroy(t)
  PROVE  AInv' /\ Sim
  <1>1. /\ pc[t] = "destroy" /\ keyTable' = keyTable /\ Moved(t, "idle", Idle)
        /\ fieldOf' = [fieldOf EXCEPT ![loc[t].tab] = NoFields]
        /\ DeleteStrings({e[2] : e \in Entries(loc[t].tab)})
    BY DestroyType
  <1>2. PICK n \in Tabs : n = loc[t].tab
    BY <1>1, BusyFacts DEF Holding
  <1>3. PICK S : S = {e[2] : e \in Entries(n)}
    OBVIOUS
  <1>4. ASSUME NEW s \in S PROVE \E f \in Fields : fieldOf[n][f] = s /\ s # NULL
    <2>1. PICK e \in Entries(n) : s = e[2]
      BY <1>3
    <2>2. PICK f \in Fields : e = <<f, fieldOf[n][f]>> /\ fieldOf[n][f] # NULL
      BY <2>1 DEF Entries
    <2> QED BY <2>1, <2>2
  <1>5. pc'[t] = "idle" /\ loc'[t] = Idle
    BY <1>1 DEF Moved
  <1>6. Remaining(Idle) /\ View(Idle) = NULL /\ View(loc[t]) = NULL
    BY <1>1, <1>5, NotWriting, NotWritingNext
  <1>7. \A u \in Threads \ {t} : pc[u] = "missing" => loc[u].str \notin S
    BY <1>2, <1>4, AnyHands DEF HandsStr
  <1>8. AInv'
    BY <1>1, <1>2, <1>3, <1>6, <1>7, FewerStrings
  <1>9. \A k \in Keys : keyTable[k] # n
    BY <1>1, <1>2, AnyHands DEF HandsDestroy
  <1>10. \A j \in Tabs : j # n => fieldOf'[j] = fieldOf[j]
    BY <1>1, <1>2, HeapParts
  <1>11. \A j \in Tabs, f \in Fields : j # n => fieldOf[j][f] \notin S
    BY <1>2, <1>4 DEF SInv, Slots
  <1>12. \A r \in Strs : r \notin S => content'[r] = content[r]
    BY <1>1, <1>2, <1>3 DEF DeleteStrings
  <1>13. Store' = Store /\ Present' = Present
    <2>1. ASSUME NEW k \in Keys, NEW f \in Fields, keyTable[k] # NULL
          PROVE  /\ fieldOf'[keyTable[k]][f] = fieldOf[keyTable[k]][f]
                 /\ fieldOf[keyTable[k]][f] # NULL =>
                      content'[fieldOf[keyTable[k]][f]] = content[fieldOf[keyTable[k]][f]]
      <3>1. keyTable[k] \in Tabs /\ keyTable[k] # n
        BY <1>9, <2>1, HeapParts
      <3> QED BY <1>10, <1>11, <1>12, <3>1, HeapParts
    <2> QED BY <1>1, <2>1, SameStore
  <1>14. AbsCall' = AbsCall
    BY <1>1, <1>6, <1>8, SameCalls DEF AInv
  <1> QED BY <1>8, <1>13, <1>14 DEF Sim
(* A call begins: one that writes has all its fields before it. *)
LEMMA BeginSim ==
  ASSUME TInv, TInv', AInv, NEW t \in Threads, NEW op \in Operations, NEW k \in Keys,
         NEW fs \in Seq(Fields), Begin(t, op, k, fs), UNCHANGED <<keyTable, heap>>,
         op \in WriteOps => fs \in FieldLists \cup {AllFields}
  PROVE  AInv' /\ Sim
  <1> DEFINE p == CASE op = "Delete" -> "remove" [] op = "Scan" -> "entries" [] OTHER -> "get"
             l == [Idle EXCEPT !.op = op, !.key = k, !.fields = fs,
                     !.todo = IF op \in {"Update", "Insert"} THEN fs ELSE <<>>]
  <1>1. pc[t] = "idle" /\ pc' = [pc EXCEPT ![t] = p] /\ loc' = [loc EXCEPT ![t] = l]
    BY DEF Begin, Set
  <1>2. p # "missing"
    OBVIOUS
  <1> HIDE DEF p
  <1>3. l.op = op /\ l.key = k /\ l.fields = fs /\ l.stored = 0 /\ l.str = NULL
        /\ (op \in WriteOps => l.todo = fs)
    BY DEF Idle, WriteOps
  <1> HIDE DEF l
  <1>4. Moved(t, p, l)
    BY <1>1 DEF Moved, TInv, ThreadType
  <1>5. View(loc[t]) = NULL
    BY <1>1, NotWriting
  <1>6. 0 <= Len(fs) /\ fs = SubSeq(fs, 0 + 1, Len(fs))
    <2>1. Len(fs) \in Nat /\ SubSeq(fs, 1, Len(fs)) \in Seq(Fields)
          /\ Len(SubSeq(fs, 1, Len(fs))) = Len(fs)
          /\ \A i \in 1 .. Len(fs) : SubSeq(fs, 1, Len(fs))[i] = fs[i]
      OBVIOUS
    <2>2. fs = SubSeq(fs, 1, Len(fs))
      BY <2>1, SeqEqual
    <2>3. 0 + 1 = 1
      OBVIOUS
    <2> QED BY <2>1, <2>2, <2>3
  <1>7. Remaining(l)
    BY <1>3, <1>6 DEF Remaining
  <1>8. CASE op \notin WriteOps
    <2>1. View(l) = NULL
      BY <1>3, <1>8 DEF View
    <2> QED BY <1>2, <1>4, <1>5, <1>7, <2>1, QuietSim
  <1>9. CASE op \in WriteOps
    <2>1. UNCHANGED <<keyTable, fieldOf, liveStrs, content>>
      BY DEF heap
    <2>2. AInv'
      BY <1>2, <1>4, <1>7, <2>1, SameStrings
    <2>3. Store' = Store /\ Present' = Present
      BY <2>1, SameStore
    <2>4. AbsCall[t] = NULL /\ AbsCall' = [AbsCall EXCEPT ![t] = View(l)]
      BY <1>4, <1>5, <2>2, CallsStep DEF AInv
    <2>5. View(l) = [op |-> op, key |-> k, todo |-> fs]
      BY <1>3, <1>9 DEF View, Refused
    <2>6. Abs!CallWrite(t, op, k, fs)
      BY <2>3, <2>4, <2>5 DEF Abs!CallWrite
    <2>7. op \in Abs!Writes
      BY <1>9 DEF WriteOps, Abs!Writes
    <2>8. Abs!AbsNext
      BY <1>9, <2>6, <2>7 DEF Abs!AbsNext
    <2> QED BY <2>2, <2>8 DEF Sim
  <1> QED BY <1>8, <1>9

(* Nothing the abstract store is made of changes. *)
LEMMA StutterSim ==
  ASSUME AInv, UNCHANGED <<keyTable, heap, pc, loc>>
  PROVE  AInv' /\ Sim
  <1>1. UNCHANGED <<keyTable, fieldOf, liveStrs, content, pc, loc>>
    BY DEF heap
  <1>2. AInv'
    BY <1>1 DEF AInv, Filled, Counted, Copied, Remaining
  <1>3. UNCHANGED <<Store, Present, AbsCall>>
    BY <1>1 DEF Store, Present, AbsCall
  <1> QED BY <1>2, <1>3 DEF Sim

LEMMA NextSim ==
  ASSUME TInv, TInv', SInv, LInv, RInv, AInv, [Next]_vars
  PROVE  AInv' /\ Sim
  <1>1. ASSUME NEW t \in Threads, Step(t) PROVE AInv' /\ Sim
    <2>1. CASE Get(t) BY <2>1, GetSim
    <2>2. CASE Attach(t) BY <2>2, AttachSim
    <2>3. CASE UpdateFresh(t) BY <2>3, NewFieldSim
    <2>4. CASE InsertField(t) BY <2>4, NewFieldSim, ConflictSim
    <2>5. CASE UpdateField(t) BY <2>5, UpdateFieldSim
    <2>6. CASE UpdateMissing(t) BY <2>6, UpdateMissingSim
    <2>7. CASE DeleteOld(t) BY <2>7, DeleteOldSim
    <2>8. CASE ReturnOK(t) BY <2>8, ReturnOKSim
    <2>9. CASE ScanEntries(t) \/ ScanNext(t) \/ Visit(t) \/ GetField(t) \/ CopyResult(t)
               \/ EndCopy(t) \/ EndFields(t)
      BY <2>9, ReadSim
    <2>10. CASE Remove(t) BY <2>10, RemoveSim
    <2>11. CASE Destroy(t) BY <2>11, DestroySim
    <2>12. CASE InsertConflict(t) BY <2>12, RefusedSim
    <2> QED BY <1>1, <2>1, <2>2, <2>3, <2>4, <2>5, <2>6, <2>7, <2>8, <2>9, <2>10, <2>11, <2>12
            DEF Step
  <1>2. ASSUME NEW t \in Threads, NEW k \in Keys, LoadInsert(t, k) PROVE AInv' /\ Sim
    <2>1. Begin(t, "Insert", k, AllFields) /\ UNCHANGED <<keyTable, heap>>
      BY <1>2 DEF LoadInsert
    <2>2. "Insert" \in Operations /\ AllFields \in Seq(Fields)
      BY FieldsAssumption DEF Operations
    <2> QED BY <2>1, <2>2, BeginSim
  <1>3. CASE LoadDone
    <2>1. UNCHANGED <<keyTable, heap, pc, loc>>
      BY <1>3 DEF LoadDone
    <2> QED BY <2>1, StutterSim
  <1>4. ASSUME NEW t \in Threads, NEW k \in Keys, NEW fs \in FieldLists \cup {<<>>},
               NEW op \in Operations, Call(t, op, k, fs)
        PROVE  AInv' /\ Sim
    <2>1. /\ Begin(t, op, k, fs) /\ UNCHANGED <<keyTable, heap>>
          /\ op \in WriteOps => fs \in FieldLists \cup {AllFields}
      BY <1>4 DEF Call, WriteOps
    <2>2. fs \in Seq(Fields)
      <3>1. <<>> \in Seq(Fields)
        OBVIOUS
      <3> QED BY <3>1, FieldsAssumption
    <2> QED BY <2>1, <2>2, BeginSim
  <1>5. CASE UNCHANGED vars
    <2>1. UNCHANGED <<keyTable, heap, pc, loc>>
      BY <1>5 DEF vars
    <2> QED BY <2>1, StutterSim
  <1> QED BY <1>1, <1>2, <1>3, <1>4, <1>5 DEF Next

LEMMA InitSim == Init => AInv /\ Abs!AbsInit([k \in Keys |-> NoFields], {})
  <1> SUFFICES ASSUME Init PROVE AInv /\ Abs!AbsInit([k \in Keys |-> NoFields], {})
    OBVIOUS
  <1>1. \A t \in Threads : pc[t] = "idle" /\ loc[t] = Idle
    BY DEF Init
  <1>2. Idle.op \notin WriteOps /\ Idle.op \notin {"Update", "Insert"}
    BY NULLIsNothing DEF Idle, WriteOps
  <1>3. AInv
    BY <1>1, <1>2 DEF Init, AInv, Filled, Counted, Copied, Remaining
  <1>4. Store = [k \in Keys |-> NoFields] /\ Present = {}
    BY DEF Init, Store, Present, NoFields
  <1>5. AbsCall = [t \in Threads |-> NULL]
    BY <1>1, <1>2 DEF AbsCall
  <1> QED BY <1>3, <1>4, <1>5 DEF Abs!AbsInit

(***************************************************************************)
(* Under the same conditions on the workload the hash tables implement the *)
(* record store that db.h describes: whatever the threads do between the   *)
(* locks, each step creates a record, writes one field of one, removes     *)
(* one, begins or ends a call, or changes nothing a client can see; a call *)
(* returns kOK only after all its fields were stored, and an insert fails  *)
(* only when it meets a field that is there.                               *)
(***************************************************************************)
THEOREM RecordStoreImplemented ==
  ASSUME \A w \in Workloads : Separate(w) /\ Undisputed(w)
  PROVE  Spec => ImplementsRecordStore
  <1>1. Init => AInv /\ Abs!AbsInit([k \in Keys |-> NoFields], {})
    BY InitSim
  <1>2. AInv /\ TInv /\ TInv' /\ SInv /\ LInv /\ RInv /\ [Next]_vars => AInv'
    BY NextSim
  <1>3. AInv /\ TInv /\ TInv' /\ SInv /\ LInv /\ RInv /\ [Next]_vars
          => [Abs!AbsNext]_(Abs!absVars)
    BY NextSim DEF Sim, Abs!absVars
  <1>4. \A w \in Workloads : Separate(w)
    OBVIOUS
  <1>5. Spec => []SInv
    BY <1>4, SafeInvariant
  <1>6. Spec => []LInv
    BY LossInvariant
  <1> QED BY <1>1, <1>2, <1>3, <1>5, <1>6, TypeInvariant, RefusalInvariant, PTL
          DEF Spec, ImplementsRecordStore
=============================================================================
