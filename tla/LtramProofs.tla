---------------------------- MODULE LtramProofs ----------------------------
(***************************************************************************)
(* Proofs about Ltram, for any number of processes, pages and frames.      *)
(*                                                                         *)
(* LastStoreVisible and LtramNeverWritten are not inductive by themselves: *)
(* they need to know that no two pages share a frame, that no PTE lets a   *)
(* store into LtRAM, and what a process inside the handler may still       *)
(* assume about the frame it captured when it faulted.  IInv collects      *)
(* those facts.                                                            *)
(***************************************************************************)
EXTENDS Ltram, Integers, FiniteSetTheorems, TLAPS

(* No two pages share a frame. *)
OneFramePerPage ==
  \A v, w \in Pages : v # w /\ cache[v] # None => cache[v] # cache[w]

(* A writable PTE points into DRAM. *)
NoWritableLtram ==
  \A p \in Procs, v \in Pages : pteW[p][v] => pteF[p][v] \in DramFrames

InHandler == {"mkwrite", "isolate", "move", "moved", "failed"}

(***************************************************************************)
(* A process outside user code is storing to a page it has mapped; inside  *)
(* the handler it holds a frame that is either still the frame of that     *)
(* page or of no page at all, because a referenced frame is never reused.  *)
(***************************************************************************)
FaultFrame ==
  \A p \in Procs :
    /\ pc[p] # "run" => want[p] \in Pages /\ pteF[p][want[p]] # None
    /\ pc[p] \in InHandler =>
         /\ vmf[p] \in Frames
         /\ \A v \in Pages : cache[v] = vmf[p] => v = want[p]
    /\ pc[p] \in {"isolate", "move"} => vmf[p] \in LtFrames

IInv ==
  /\ TypeOK
  /\ LastStoreVisible
  /\ OneFramePerPage
  /\ NoWritableLtram
  /\ FaultFrame
  /\ OneMigrationPerFolio

USE FramesDisjoint, NoneIsNothing, ZeroIsNoProc, CounterModAssumption
USE DEF Frames, Contents, PcValues, InHandler, Goto, kernel, tables, contents

(* A counter stays within its width. *)
LEMMA BumpInRange ==
  ASSUME NEW n \in Nat
  PROVE  Bump(n) \in 0 .. CounterMod - 1
BY DEF Bump

(* Counting an event keeps all three counters within their width. *)
LEMMA IncStatInRange ==
  ASSUME stats \in [StatNames -> 0 .. CounterMod - 1],
         NEW n \in StatNames, IncStat(n)
  PROVE  stats' \in [StatNames -> 0 .. CounterMod - 1]
<1>1. Bump(stats[n]) \in 0 .. CounterMod - 1
  <2>1. stats[n] \in 0 .. CounterMod - 1
    OBVIOUS
  <2>2. stats[n] \in Nat
    BY <2>1
  <2> QED BY <2>2, BumpInRange
<1> QED BY <1>1 DEF IncStat

(* Nothing is mapped, cached or referenced at first. *)
LEMMA InitIInv == Init => IInv
BY DEF Init, IInv, TypeOK, LastStoreVisible, OneFramePerPage, NoWritableLtram,
       FaultFrame, OneMigrationPerFolio, StatNames

(* A page is routed to a free frame, which no page and no fault uses. *)
LEMMA ReadFaultKeepsIInv ==
  ASSUME IInv, NEW p \in Procs, NEW v \in Pages, ReadFault(p, v)
  PROVE  IInv'
<1>1. TypeOK'
  <2>1. PICK f \in RouteReadOnly(v) :
          /\ cache' = [cache EXCEPT ![v] = f]
          /\ pteF' = [pteF EXCEPT ![p][v] = f]
          /\ mem' = IF cache[v] = None THEN [mem EXCEPT ![f] = file[v]] ELSE mem
    BY DEF ReadFault
  <2>2. f \in Frames
    BY <2>1 DEF RouteReadOnly, Free, IInv, TypeOK
  <2>3. cache' \in [Pages -> Frames \cup {None}]
    BY <2>1, <2>2 DEF IInv, TypeOK
  <2>4. pteF' \in [Procs -> [Pages -> Frames \cup {None}]]
    BY <2>1, <2>2 DEF IInv, TypeOK
  <2>5. mem' \in [Frames -> Contents]
    BY <2>1, <2>2 DEF IInv, TypeOK
  <2>6. pteW' \in [Procs -> [Pages -> BOOLEAN]]
    BY DEF IInv, TypeOK, ReadFault
  <2> QED BY <2>3, <2>4, <2>5, <2>6 DEF IInv, TypeOK, ReadFault
<1>2. LastStoreVisible'
  <2>1. PICK f \in RouteReadOnly(v) :
          /\ cache' = [cache EXCEPT ![v] = f]
          /\ pteF' = [pteF EXCEPT ![p][v] = f]
          /\ mem' = IF cache[v] = None THEN [mem EXCEPT ![f] = file[v]] ELSE mem
    BY DEF ReadFault
  <2>2. CASE cache[v] # None
    BY <2>1, <2>2 DEF IInv, TypeOK, LastStoreVisible, ReadFault, RouteReadOnly
  <2>3. CASE cache[v] = None
    <3>1. f \in Frames /\ \A w \in Pages : cache[w] # f
      BY <2>1, <2>3 DEF RouteReadOnly, Free
    <3>2. \A q \in Procs : pteF[q][v] = None
      BY <2>3 DEF IInv, TypeOK, LastStoreVisible
    <3> QED
      BY <2>1, <2>3, <3>1, <3>2 DEF IInv, TypeOK, LastStoreVisible, ReadFault
  <2> QED BY <2>2, <2>3
<1>3. OneFramePerPage'
  <2>1. PICK f \in RouteReadOnly(v) : cache' = [cache EXCEPT ![v] = f]
    BY DEF ReadFault
  <2>2. CASE cache[v] # None
    BY <2>1, <2>2 DEF IInv, TypeOK, OneFramePerPage, RouteReadOnly
  <2>3. CASE cache[v] = None
    <3>1. \A w \in Pages : cache[w] # f
      BY <2>1, <2>3 DEF RouteReadOnly, Free
    <3> QED BY <2>1, <2>3, <3>1 DEF IInv, TypeOK, OneFramePerPage
  <2> QED BY <2>2, <2>3
<1>4. NoWritableLtram'
  BY DEF IInv, NoWritableLtram, TypeOK, LastStoreVisible, FaultFrame,
         ReadFault, RouteReadOnly, Free
<1>5. FaultFrame'
  BY DEF IInv, FaultFrame, TypeOK, LastStoreVisible, OneFramePerPage,
         OneMigrationPerFolio, ReadFault, RouteReadOnly, Free
<1>6. OneMigrationPerFolio'
  BY DEF IInv, OneMigrationPerFolio, TypeOK, FaultFrame, LastStoreVisible,
         ReadFault, RouteReadOnly, Free
<1> QED BY <1>1, <1>2, <1>3, <1>4, <1>5, <1>6 DEF IInv

(* Reaching a store changes no memory. *)
LEMMA BeginStoreKeepsIInv ==
  ASSUME IInv, NEW p \in Procs, NEW v \in Pages, BeginStore(p, v)
  PROVE  IInv'
<1>1. TypeOK'
  BY DEF IInv, TypeOK, FaultFrame, BeginStore
<1>2. LastStoreVisible'
  BY DEF IInv, LastStoreVisible, BeginStore
<1>3. OneFramePerPage'
  BY DEF IInv, OneFramePerPage, BeginStore
<1>4. NoWritableLtram'
  BY DEF IInv, NoWritableLtram, BeginStore
<1>5. FaultFrame'
  BY DEF IInv, FaultFrame, TypeOK, LastStoreVisible, OneFramePerPage,
         OneMigrationPerFolio, BeginStore
<1>6. OneMigrationPerFolio'
  BY DEF IInv, OneMigrationPerFolio, TypeOK, FaultFrame, LastStoreVisible,
         BeginStore
<1> QED BY <1>1, <1>2, <1>3, <1>4, <1>5, <1>6 DEF IInv

(* A store writes the one frame of its page. *)
LEMMA StoreHitKeepsIInv ==
  ASSUME IInv, NEW p \in Procs, StoreHit(p)
  PROVE  IInv'
<1>1. TypeOK'
  BY DEF IInv, TypeOK, FaultFrame, StoreHit
<1>2. LastStoreVisible'
  BY DEF IInv, LastStoreVisible, TypeOK, OneFramePerPage, FaultFrame,
         NoWritableLtram, StoreHit
<1>3. OneFramePerPage'
  BY DEF IInv, OneFramePerPage, StoreHit
<1>4. NoWritableLtram'
  BY DEF IInv, NoWritableLtram, StoreHit
<1>5. FaultFrame'
  BY DEF IInv, FaultFrame, TypeOK, LastStoreVisible, OneFramePerPage,
         OneMigrationPerFolio, StoreHit
<1>6. OneMigrationPerFolio'
  BY DEF IInv, OneMigrationPerFolio, TypeOK, FaultFrame, LastStoreVisible,
         StoreHit
<1> QED BY <1>1, <1>2, <1>3, <1>4, <1>5, <1>6 DEF IInv

(* The fault captures the frame the PTE maps, the frame of the page. *)
LEMMA StoreFaultKeepsIInv ==
  ASSUME IInv, NEW p \in Procs, StoreFault(p)
  PROVE  IInv'
<1>1. TypeOK'
  BY BumpInRange DEF IInv, TypeOK, FaultFrame, StoreFault
<1>2. LastStoreVisible'
  BY DEF IInv, LastStoreVisible, StoreFault
<1>3. OneFramePerPage'
  BY DEF IInv, OneFramePerPage, StoreFault
<1>4. NoWritableLtram'
  BY DEF IInv, NoWritableLtram, StoreFault
<1>5. FaultFrame'
  BY DEF IInv, FaultFrame, TypeOK, LastStoreVisible, OneFramePerPage,
         OneMigrationPerFolio, StoreFault
<1>6. OneMigrationPerFolio'
  BY DEF IInv, OneMigrationPerFolio, TypeOK, FaultFrame, LastStoreVisible,
         StoreFault
<1> QED BY <1>1, <1>2, <1>3, <1>4, <1>5, <1>6 DEF IInv

(* Unmapping only removes PTEs, and no fault is under way. *)
LEMMA MunmapKeepsIInv ==
  ASSUME IInv, NEW p \in Procs, Munmap(p)
  PROVE  IInv'
<1>1. TypeOK'
  BY DEF IInv, TypeOK, FaultFrame, Munmap
<1>2. LastStoreVisible'
  BY DEF IInv, LastStoreVisible, TypeOK, OneFramePerPage, FaultFrame,
         NoWritableLtram, Munmap
<1>3. OneFramePerPage'
  BY DEF IInv, OneFramePerPage, Munmap
<1>4. NoWritableLtram'
  BY DEF IInv, NoWritableLtram, TypeOK, LastStoreVisible, FaultFrame,
         Munmap
<1>5. FaultFrame'
  BY DEF IInv, FaultFrame, TypeOK, LastStoreVisible, OneFramePerPage,
         OneMigrationPerFolio, Munmap
<1>6. OneMigrationPerFolio'
  BY DEF IInv, OneMigrationPerFolio, Munmap
<1> QED BY <1>1, <1>2, <1>3, <1>4, <1>5, <1>6 DEF IInv

(* Writeback copies the last store to the file and takes write access away. *)
LEMMA WritebackKeepsIInv ==
  ASSUME IInv, NEW v \in Pages, Writeback(v)
  PROVE  IInv'
<1>1. TypeOK'
  BY DEF IInv, TypeOK, Writeback
<1>2. LastStoreVisible'
  BY DEF IInv, LastStoreVisible, TypeOK, Writeback
<1>3. OneFramePerPage'
  BY DEF IInv, OneFramePerPage, Writeback
<1>4. NoWritableLtram'
  BY DEF IInv, NoWritableLtram, TypeOK, Writeback
<1>5. FaultFrame'
  BY DEF IInv, FaultFrame, Writeback
<1>6. OneMigrationPerFolio'
  BY DEF IInv, OneMigrationPerFolio, Writeback
<1> QED BY <1>1, <1>2, <1>3, <1>4, <1>5, <1>6 DEF IInv

(* Only unmapped pages leave the cache, so no fault is under way on them. *)
LEMMA DropCachesKeepsIInv ==
  ASSUME IInv, DropCaches
  PROVE  IInv'
<1>1. TypeOK'
  BY DEF IInv, TypeOK, FaultFrame, DropCaches, Dropped, Mapped
<1>2. LastStoreVisible'
  BY DEF IInv, LastStoreVisible, TypeOK, OneFramePerPage, FaultFrame,
         NoWritableLtram, DropCaches, Dropped, Mapped
<1>3. OneFramePerPage'
  BY DEF IInv, OneFramePerPage, TypeOK, FaultFrame, OneMigrationPerFolio,
         DropCaches, Dropped, Mapped
<1>4. NoWritableLtram'
  BY DEF IInv, NoWritableLtram, DropCaches
<1>5. FaultFrame'
  BY DEF IInv, FaultFrame, TypeOK, LastStoreVisible, OneFramePerPage,
         OneMigrationPerFolio, DropCaches, Dropped, Mapped
<1>6. OneMigrationPerFolio'
  BY DEF IInv, OneMigrationPerFolio, TypeOK, FaultFrame, LastStoreVisible,
         DropCaches, Dropped, Mapped
<1> QED BY <1>1, <1>2, <1>3, <1>4, <1>5, <1>6 DEF IInv

(* The PTE made writable maps a DRAM frame. *)
LEMMA WrongZoneKeepsIInv ==
  ASSUME IInv, NEW p \in Procs, WrongZone(p)
  PROVE  IInv'
<1>0. stats' \in [StatNames -> 0 .. CounterMod - 1]
  <2>1. IncStat("nr_warn_wrong_zone") /\ "nr_warn_wrong_zone" \in StatNames
    BY DEF WrongZone, StatNames
  <2> QED BY <2>1, IncStatInRange DEF IInv, TypeOK
<1>1. TypeOK'
  BY <1>0 DEF IInv, TypeOK, FaultFrame, WrongZone
<1>2. LastStoreVisible'
  BY DEF IInv, LastStoreVisible, WrongZone
<1>3. OneFramePerPage'
  BY DEF IInv, OneFramePerPage, WrongZone
<1>4. NoWritableLtram'
  BY DEF IInv, NoWritableLtram, TypeOK, LastStoreVisible, FaultFrame,
         WrongZone
<1>5. FaultFrame'
  BY DEF IInv, FaultFrame, TypeOK, LastStoreVisible, OneFramePerPage,
         OneMigrationPerFolio, WrongZone
<1>6. OneMigrationPerFolio'
  BY DEF IInv, OneMigrationPerFolio, TypeOK, FaultFrame, LastStoreVisible,
         WrongZone
<1> QED BY <1>1, <1>2, <1>3, <1>4, <1>5, <1>6 DEF IInv

(* The zone check passed: the captured frame is in LtRAM. *)
LEMMA CallMigrateKeepsIInv ==
  ASSUME IInv, NEW p \in Procs, CallMigrate(p)
  PROVE  IInv'
<1>1. TypeOK'
  BY DEF IInv, TypeOK, FaultFrame, CallMigrate
<1>2. LastStoreVisible'
  BY DEF IInv, LastStoreVisible, CallMigrate
<1>3. OneFramePerPage'
  BY DEF IInv, OneFramePerPage, CallMigrate
<1>4. NoWritableLtram'
  BY DEF IInv, NoWritableLtram, CallMigrate
<1>5. FaultFrame'
  BY DEF IInv, FaultFrame, TypeOK, LastStoreVisible, OneFramePerPage,
         OneMigrationPerFolio, CallMigrate
<1>6. OneMigrationPerFolio'
  BY DEF IInv, OneMigrationPerFolio, TypeOK, FaultFrame, LastStoreVisible,
         CallMigrate
<1> QED BY <1>1, <1>2, <1>3, <1>4, <1>5, <1>6 DEF IInv

(* A failed migration only drops the reference. *)
LEMMA RepatFailKeepsIInv ==
  ASSUME IInv, NEW p \in Procs, RepatFail(p)
  PROVE  IInv'
<1>0. stats' \in [StatNames -> 0 .. CounterMod - 1]
  <2>1. IncStat("nr_repat_fail") /\ "nr_repat_fail" \in StatNames
    BY DEF RepatFail, StatNames
  <2> QED BY <2>1, IncStatInRange DEF IInv, TypeOK
<1>1. TypeOK'
  BY <1>0 DEF IInv, TypeOK, FaultFrame, RepatFail
<1>2. LastStoreVisible'
  BY DEF IInv, LastStoreVisible, RepatFail
<1>3. OneFramePerPage'
  BY DEF IInv, OneFramePerPage, RepatFail
<1>4. NoWritableLtram'
  BY DEF IInv, NoWritableLtram, RepatFail
<1>5. FaultFrame'
  BY DEF IInv, FaultFrame, TypeOK, LastStoreVisible, OneFramePerPage,
         OneMigrationPerFolio, RepatFail
<1>6. OneMigrationPerFolio'
  BY DEF IInv, OneMigrationPerFolio, TypeOK, FaultFrame, LastStoreVisible,
         RepatFail
<1> QED BY <1>1, <1>2, <1>3, <1>4, <1>5, <1>6 DEF IInv

(* A finished migration only drops the reference. *)
LEMMA RepatDoneKeepsIInv ==
  ASSUME IInv, NEW p \in Procs, RepatDone(p)
  PROVE  IInv'
<1>0. stats' \in [StatNames -> 0 .. CounterMod - 1]
  <2>1. IncStat("nr_repat") /\ "nr_repat" \in StatNames
    BY DEF RepatDone, StatNames
  <2> QED BY <2>1, IncStatInRange DEF IInv, TypeOK
<1>1. TypeOK'
  BY <1>0 DEF IInv, TypeOK, FaultFrame, RepatDone
<1>2. LastStoreVisible'
  BY DEF IInv, LastStoreVisible, RepatDone
<1>3. OneFramePerPage'
  BY DEF IInv, OneFramePerPage, RepatDone
<1>4. NoWritableLtram'
  BY DEF IInv, NoWritableLtram, RepatDone
<1>5. FaultFrame'
  BY DEF IInv, FaultFrame, TypeOK, LastStoreVisible, OneFramePerPage,
         OneMigrationPerFolio, RepatDone
<1>6. OneMigrationPerFolio'
  BY DEF IInv, OneMigrationPerFolio, TypeOK, FaultFrame, LastStoreVisible,
         RepatDone
<1> QED BY <1>1, <1>2, <1>3, <1>4, <1>5, <1>6 DEF IInv

(* A folio still on the LRU is isolated by one process. *)
LEMMA IsolateKeepsIInv ==
  ASSUME IInv, NEW p \in Procs, Isolate(p)
  PROVE  IInv'
<1>1. TypeOK'
  BY DEF IInv, TypeOK, FaultFrame, Isolate, OnLru
<1>2. LastStoreVisible'
  BY DEF IInv, LastStoreVisible, Isolate
<1>3. OneFramePerPage'
  BY DEF IInv, OneFramePerPage, Isolate
<1>4. NoWritableLtram'
  BY DEF IInv, NoWritableLtram, Isolate
<1>5. FaultFrame'
  BY DEF IInv, FaultFrame, TypeOK, LastStoreVisible, OneFramePerPage,
         OneMigrationPerFolio, Isolate, OnLru
<1>6. OneMigrationPerFolio'
  BY DEF IInv, OneMigrationPerFolio, TypeOK, FaultFrame, LastStoreVisible,
         Isolate, OnLru
<1> QED BY <1>1, <1>2, <1>3, <1>4, <1>5, <1>6 DEF IInv

(* A failed isolation changes nothing. *)
LEMMA IsolateBusyKeepsIInv ==
  ASSUME IInv, NEW p \in Procs, IsolateBusy(p)
  PROVE  IInv'
<1>1. TypeOK'
  BY DEF IInv, TypeOK, FaultFrame, IsolateBusy
<1>2. LastStoreVisible'
  BY DEF IInv, LastStoreVisible, IsolateBusy
<1>3. OneFramePerPage'
  BY DEF IInv, OneFramePerPage, IsolateBusy
<1>4. NoWritableLtram'
  BY DEF IInv, NoWritableLtram, IsolateBusy
<1>5. FaultFrame'
  BY DEF IInv, FaultFrame, TypeOK, LastStoreVisible, OneFramePerPage,
         OneMigrationPerFolio, IsolateBusy
<1>6. OneMigrationPerFolio'
  BY DEF IInv, OneMigrationPerFolio, TypeOK, FaultFrame, LastStoreVisible,
         IsolateBusy
<1> QED BY <1>1, <1>2, <1>3, <1>4, <1>5, <1>6 DEF IInv

(* The page and all its PTEs go to one free DRAM frame with the content. *)
LEMMA MoveKeepsIInv ==
  ASSUME IInv, NEW p \in Procs, Move(p)
  PROVE  IInv'
<1>1. TypeOK'
  BY BumpInRange DEF IInv, TypeOK, FaultFrame, Move, Free
<1>2. LastStoreVisible'
  BY DEF IInv, LastStoreVisible, TypeOK, OneFramePerPage, FaultFrame,
         NoWritableLtram, Move, Free
<1>3. OneFramePerPage'
  BY DEF IInv, OneFramePerPage, TypeOK, FaultFrame, OneMigrationPerFolio,
         Move, Free
<1>4. NoWritableLtram'
  BY DEF IInv, NoWritableLtram, TypeOK, LastStoreVisible, FaultFrame,
         Move, Free
<1>5. FaultFrame'
  BY DEF IInv, FaultFrame, TypeOK, LastStoreVisible, OneFramePerPage,
         OneMigrationPerFolio, Move, Free
<1>6. OneMigrationPerFolio'
  BY DEF IInv, OneMigrationPerFolio, TypeOK, FaultFrame, LastStoreVisible,
         Move, Free
<1> QED BY <1>1, <1>2, <1>3, <1>4, <1>5, <1>6 DEF IInv

(* A failed move puts the folio back. *)
LEMMA MoveFailKeepsIInv ==
  ASSUME IInv, NEW p \in Procs, MoveFail(p)
  PROVE  IInv'
<1>1. TypeOK'
  BY DEF IInv, TypeOK, FaultFrame, MoveFail
<1>2. LastStoreVisible'
  BY DEF IInv, LastStoreVisible, MoveFail
<1>3. OneFramePerPage'
  BY DEF IInv, OneFramePerPage, MoveFail
<1>4. NoWritableLtram'
  BY DEF IInv, NoWritableLtram, MoveFail
<1>5. FaultFrame'
  BY DEF IInv, FaultFrame, TypeOK, LastStoreVisible, OneFramePerPage,
         OneMigrationPerFolio, MoveFail
<1>6. OneMigrationPerFolio'
  BY DEF IInv, OneMigrationPerFolio, TypeOK, FaultFrame, LastStoreVisible,
         MoveFail
<1> QED BY <1>1, <1>2, <1>3, <1>4, <1>5, <1>6 DEF IInv

(* Every step, of whichever process, preserves the inductive invariant. *)
LEMMA NextKeepsIInv == IInv /\ [Next]_vars => IInv'
<1> SUFFICES ASSUME IInv, [Next]_vars PROVE IInv'
  OBVIOUS
<1>1. ASSUME NEW p \in Procs, NEW v \in Pages, ReadFault(p, v) \/ BeginStore(p, v)
      PROVE  IInv'
  BY <1>1, ReadFaultKeepsIInv, BeginStoreKeepsIInv
<1>2. ASSUME NEW p \in Procs, Store(p) \/ Handler(p) \/ Munmap(p)
      PROVE  IInv'
  BY <1>2, StoreHitKeepsIInv, StoreFaultKeepsIInv, MunmapKeepsIInv,
     WrongZoneKeepsIInv, CallMigrateKeepsIInv, RepatFailKeepsIInv,
     RepatDoneKeepsIInv, IsolateKeepsIInv, IsolateBusyKeepsIInv,
     MoveKeepsIInv, MoveFailKeepsIInv
  DEF Store, Handler
<1>3. CASE DropCaches
  BY <1>3, DropCachesKeepsIInv
<1>4. ASSUME NEW v \in Pages, Writeback(v)
      PROVE  IInv'
  BY <1>4, WritebackKeepsIInv
<1>5. CASE UNCHANGED vars
  BY <1>5 DEF vars, IInv, TypeOK, LastStoreVisible, OneFramePerPage,
              NoWritableLtram, FaultFrame, OneMigrationPerFolio
<1> QED BY <1>1, <1>2, <1>3, <1>4, <1>5 DEF Next

(* The inductive invariant holds in every reachable state. *)
LEMMA IInvHolds == Spec => []IInv
<1>1. IInv /\ [Next]_vars => IInv'
  BY NextKeepsIInv
<1> QED BY InitIInv, <1>1, PTL DEF Spec

(***************************************************************************)
(* Every variable of the model keeps its type, whatever the number of      *)
(* processes, pages and frames.                                            *)
(***************************************************************************)
THEOREM TypeCorrect == Spec => []TypeOK
<1>1. IInv => TypeOK
  BY DEF IInv
<1> QED BY IInvHolds, <1>1, PTL

(***************************************************************************)
(* Every process sees the last store to a page, whichever frame the page   *)
(* has been moved to by ltram_page_mkwrite() in any process.               *)
(***************************************************************************)
THEOREM LastStoreAlwaysVisible == Spec => []LastStoreVisible
<1>1. IInv => LastStoreVisible
  BY DEF IInv
<1> QED BY IInvHolds, <1>1, PTL

(***************************************************************************)
(* Two concurrent write faults never both migrate the same folio.          *)
(***************************************************************************)
THEOREM MigrationIsExclusive == Spec => []OneMigrationPerFolio
<1>1. IInv => OneMigrationPerFolio
  BY DEF IInv
<1> QED BY IInvHolds, <1>1, PTL

(***************************************************************************)
(* No step changes the content of an LtRAM frame that is in use: the write *)
(* fault handler keeps every store out of LtRAM.                           *)
(***************************************************************************)
THEOREM NoStoreReachesLtram == Spec => LtramNeverWritten
<1>1. IInv /\ [Next]_vars
        => [\A f \in LtFrames : f \notin Free => mem'[f] = mem[f]]_vars
  <2> SUFFICES ASSUME IInv, Next, NEW f \in LtFrames, f \notin Free
               PROVE  mem'[f] = mem[f]
    BY DEF vars
  <2>1. ASSUME NEW p \in Procs, NEW v \in Pages, ReadFault(p, v)
        PROVE  mem'[f] = mem[f]
    BY <2>1 DEF ReadFault, RouteReadOnly, IInv, TypeOK
  <2>2. ASSUME NEW p \in Procs, StoreHit(p)
        PROVE  mem'[f] = mem[f]
    BY <2>2 DEF StoreHit, IInv, TypeOK, NoWritableLtram, FaultFrame
  <2>3. ASSUME NEW p \in Procs, Move(p)
        PROVE  mem'[f] = mem[f]
    BY <2>3 DEF Move, IInv, TypeOK
  <2>4. ASSUME NEW p \in Procs, NEW v \in Pages, BeginStore(p, v)
        PROVE  mem'[f] = mem[f]
    BY <2>4 DEF BeginStore
  <2>5. ASSUME NEW p \in Procs,
               \/ StoreFault(p) \/ Munmap(p) \/ WrongZone(p) \/ CallMigrate(p)
               \/ RepatFail(p) \/ RepatDone(p) \/ Isolate(p) \/ IsolateBusy(p)
               \/ MoveFail(p)
        PROVE  mem'[f] = mem[f]
    BY <2>5 DEF StoreFault, Munmap, WrongZone, CallMigrate, RepatFail, RepatDone,
                Isolate, IsolateBusy, MoveFail
  <2>6. ASSUME DropCaches PROVE mem'[f] = mem[f]
    BY <2>6 DEF DropCaches
  <2>7. ASSUME NEW v \in Pages, Writeback(v) PROVE mem'[f] = mem[f]
    BY <2>7 DEF Writeback
  <2> QED
    BY <2>1, <2>2, <2>3, <2>4, <2>5, <2>6, <2>7 DEF Next, Store, Handler
<1> QED BY IInvHolds, <1>1, PTL DEF Spec, LtramNeverWritten

(***************************************************************************)
(* The handler never moves a page that is already in DRAM.                 *)
(***************************************************************************)
THEOREM OnlyLtramPagesMove == Spec => DramPagesStay
<1>1. IInv /\ [Next]_vars
        => [\A v \in Pages : cache[v] \in DramFrames
                               => cache'[v] \in {cache[v], None}]_vars
  <2> SUFFICES ASSUME IInv, Next, NEW w \in Pages, cache[w] \in DramFrames
               PROVE  cache'[w] \in {cache[w], None}
    BY DEF vars
  <2>1. ASSUME NEW p \in Procs, NEW v \in Pages, ReadFault(p, v)
        PROVE  cache'[w] \in {cache[w], None}
    BY <2>1 DEF ReadFault, RouteReadOnly, IInv, TypeOK
  <2>2. ASSUME NEW p \in Procs, Move(p)
        PROVE  cache'[w] \in {cache[w], None}
    BY <2>2 DEF Move, IInv, TypeOK, FaultFrame
  <2>3. ASSUME DropCaches PROVE cache'[w] \in {cache[w], None}
    BY <2>3 DEF DropCaches
  <2>4. ASSUME NEW p \in Procs, NEW v \in Pages, BeginStore(p, v)
        PROVE  cache'[w] \in {cache[w], None}
    BY <2>4 DEF BeginStore
  <2>5. ASSUME NEW p \in Procs,
               \/ StoreHit(p) \/ StoreFault(p) \/ Munmap(p) \/ WrongZone(p)
               \/ CallMigrate(p) \/ RepatFail(p) \/ RepatDone(p) \/ Isolate(p)
               \/ IsolateBusy(p) \/ MoveFail(p)
        PROVE  cache'[w] \in {cache[w], None}
    BY <2>5 DEF StoreHit, StoreFault, Munmap, WrongZone, CallMigrate, RepatFail,
                RepatDone, Isolate, IsolateBusy, MoveFail
  <2>6. ASSUME NEW v \in Pages, Writeback(v)
        PROVE  cache'[w] \in {cache[w], None}
    BY <2>6 DEF Writeback
  <2> QED BY <2>1, <2>2, <2>3, <2>4, <2>5, <2>6 DEF Next, Store, Handler
<1> QED BY IInvHolds, <1>1, PTL DEF Spec, DramPagesStay

-----------------------------------------------------------------------------
(***************************************************************************)
(* The counters.  CountersAgree is inductive once it is known that the     *)
(* processes it counts are finitely many, which they are in any reachable  *)
(* state, however many processes there are.  The rest is arithmetic        *)
(* modulo the width of an atomic_long_t.                                   *)
(***************************************************************************)
AtStep(S) == {p \in Procs : pc[p] \in S}

CountersInv ==
  /\ IsFiniteSet(AtStep({"moved"})) /\ IsFiniteSet(AtStep(InHandler))
  /\ CountersAgree

(* Division with remainder has one result. *)
LEMMA ModUnique ==
  ASSUME NEW x \in Int, NEW q \in Int, NEW r \in 0 .. CounterMod - 1,
         x = CounterMod * q + r
  PROVE  x % CounterMod = r
OBVIOUS

(* It has a result. *)
LEMMA ModExists ==
  ASSUME NEW x \in Int
  PROVE  /\ x % CounterMod \in 0 .. CounterMod - 1 /\ x \div CounterMod \in Int
         /\ x = CounterMod * (x \div CounterMod) + (x % CounterMod)
OBVIOUS

(* A summand may be reduced before it is added. *)
LEMMA ModOfSum ==
  ASSUME NEW x \in Nat, NEW y \in Nat
  PROVE  ((x % CounterMod) + y) % CounterMod = (x + y) % CounterMod
<1> DEFINE r == x % CounterMod
           q == x \div CounterMod
           s == (r + y) % CounterMod
           t == (r + y) \div CounterMod
<1>1. r \in 0 .. CounterMod - 1 /\ q \in Int /\ x = CounterMod * q + r
  BY ModExists
<1>2. s \in 0 .. CounterMod - 1 /\ t \in Int /\ r + y = CounterMod * t + s
  <2>1. r + y \in Int
    BY <1>1
  <2> QED BY <2>1, ModExists
<1> HIDE DEF r, q, s, t
<1>3. x + y = CounterMod * (q + t) + s
  BY <1>1, <1>2
<1>4. (x + y) % CounterMod = s
  BY <1>1, <1>2, <1>3, ModUnique
<1> QED BY <1>4 DEF s, r

(* A process that takes a step enters or leaves a set of steps by itself. *)
LEMMA CountAfterGoto ==
  ASSUME pc \in [Procs -> PcValues], NEW p \in Procs, NEW from, NEW to,
         Goto(p, from, to), NEW S, IsFiniteSet(AtStep(S))
  PROVE  /\ IsFiniteSet(AtStep(S)') /\ InStep(S) \in Nat
         /\ from \notin S /\ to \notin S => InStep(S)' = InStep(S)
         /\ from \in S /\ to \in S => InStep(S)' = InStep(S)
         /\ from \notin S /\ to \in S => InStep(S)' = InStep(S) + 1
         /\ from \in S /\ to \notin S => InStep(S)' \in Nat /\ InStep(S) = InStep(S)' + 1
<1>1. InStep(S) = Cardinality(AtStep(S)) /\ InStep(S)' = Cardinality(AtStep(S)')
  BY DEF InStep, AtStep
<1>2. AtStep(S)' = IF to \in S THEN AtStep(S) \cup {p} ELSE AtStep(S) \ {p}
  BY DEF AtStep
<1>3. p \in AtStep(S) <=> from \in S
  BY DEF AtStep
<1>4. InStep(S) \in Nat
  BY <1>1, FS_CardinalityType
<1>5. CASE to \in S
  BY <1>1, <1>2, <1>3, <1>4, <1>5, FS_AddElement
<1>6. CASE to \notin S
  <2>1. IsFiniteSet(AtStep(S)') /\ InStep(S)' \in Nat
    BY <1>1, <1>2, <1>6, FS_RemoveElement, FS_CardinalityType
  <2> QED BY <1>1, <1>2, <1>3, <1>4, <1>6, <2>1, FS_RemoveElement
<1> QED BY <1>5, <1>6

(* What a step of one process does to the two counts of CountersAgree. *)
LEMMA CountsAfterGoto ==
  ASSUME TypeOK, CountersInv, NEW p \in Procs, NEW from, NEW to, Goto(p, from, to)
  PROVE  /\ IsFiniteSet(AtStep({"moved"})') /\ IsFiniteSet(AtStep(InHandler)')
         /\ from # "moved" /\ to # "moved" => InStep({"moved"})' = InStep({"moved"})
         /\ from # "moved" /\ to = "moved" => InStep({"moved"})' = InStep({"moved"}) + 1
         /\ from = "moved" /\ to # "moved" =>
              InStep({"moved"})' \in Nat /\ InStep({"moved"}) = InStep({"moved"})' + 1
         /\ (from \in InHandler <=> to \in InHandler) => InStep(InHandler)' = InStep(InHandler)
         /\ from \notin InHandler /\ to \in InHandler =>
              InStep(InHandler)' = InStep(InHandler) + 1
         /\ from \in InHandler /\ to \notin InHandler =>
              InStep(InHandler)' \in Nat /\ InStep(InHandler) = InStep(InHandler)' + 1
<1>1. /\ pc \in [Procs -> PcValues]
      /\ IsFiniteSet(AtStep({"moved"})) /\ IsFiniteSet(AtStep(InHandler))
  BY DEF TypeOK, CountersInv
<1> HIDE DEF Goto, PcValues, InHandler
<1>2. /\ IsFiniteSet(AtStep({"moved"})')
      /\ from # "moved" /\ to # "moved" => InStep({"moved"})' = InStep({"moved"})
      /\ from # "moved" /\ to = "moved" => InStep({"moved"})' = InStep({"moved"}) + 1
      /\ from = "moved" /\ to # "moved" =>
           InStep({"moved"})' \in Nat /\ InStep({"moved"}) = InStep({"moved"})' + 1
  <2> DEFINE S == {"moved"}
  <2>1. \A x : x \in S <=> x = "moved"
    OBVIOUS
  <2>2. IsFiniteSet(AtStep(S))
    BY <1>1
  <2> HIDE DEF S
  <2>3. /\ IsFiniteSet(AtStep(S)')
        /\ from # "moved" /\ to # "moved" => InStep(S)' = InStep(S)
        /\ from # "moved" /\ to = "moved" => InStep(S)' = InStep(S) + 1
        /\ from = "moved" /\ to # "moved" => InStep(S)' \in Nat /\ InStep(S) = InStep(S)' + 1
    BY <1>1, <2>1, <2>2, CountAfterGoto
  <2> QED BY <2>3 DEF S
<1>3. /\ IsFiniteSet(AtStep(InHandler)')
      /\ (from \in InHandler <=> to \in InHandler) => InStep(InHandler)' = InStep(InHandler)
      /\ from \notin InHandler /\ to \in InHandler =>
           InStep(InHandler)' = InStep(InHandler) + 1
      /\ from \in InHandler /\ to \notin InHandler =>
           InStep(InHandler)' \in Nat /\ InStep(InHandler) = InStep(InHandler)' + 1
  BY <1>1, CountAfterGoto
<1> QED BY <1>2, <1>3

(* Nobody is in the handler at first. *)
LEMMA InitCounters == Init => CountersInv
<1> SUFFICES ASSUME Init PROVE CountersInv
  OBVIOUS
<1>1. AtStep({"moved"}) = {} /\ AtStep(InHandler) = {}
  BY DEF Init, AtStep
<1>2. InStep({"moved"}) = 0 /\ InStep(InHandler) = 0
  BY <1>1, FS_EmptySet DEF InStep, AtStep
<1>3. stats["nr_repat"] = 0 /\ stats["nr_repat_fail"] = 0
        /\ stats["nr_warn_wrong_zone"] = 0 /\ moves = 0 /\ calls = 0
  BY DEF Init, StatNames
<1>4. 0 % CounterMod = 0
  BY ModUnique
<1> QED BY <1>1, <1>2, <1>3, <1>4, FS_EmptySet DEF CountersInv, CountersAgree

(* The counters and the two counts are naturals. *)
LEMMA CountsAreNat ==
  ASSUME TypeOK, CountersInv
  PROVE  /\ stats["nr_repat"] \in Nat /\ stats["nr_repat_fail"] \in Nat
         /\ stats["nr_warn_wrong_zone"] \in Nat /\ moves \in Nat /\ calls \in Nat
         /\ InStep({"moved"}) \in Nat /\ InStep(InHandler) \in Nat
<1>1. InStep({"moved"}) \in Nat /\ InStep(InHandler) \in Nat
  BY FS_CardinalityType DEF CountersInv, InStep, AtStep
<1>2. \A n \in StatNames : stats[n] \in Nat
  BY DEF TypeOK
<1>3. moves \in Nat /\ calls \in Nat
  BY DEF TypeOK
<1> QED BY <1>1, <1>2, <1>3 DEF StatNames

(* A call of the handler is counted when it begins. *)
LEMMA StoreFaultKeepsCounters ==
  ASSUME TypeOK, CountersInv, NEW p \in Procs, StoreFault(p)
  PROVE  CountersInv'
<1> DEFINE all == stats["nr_repat"] + stats["nr_repat_fail"] + stats["nr_warn_wrong_zone"]
<1>1. Goto(p, "store", "mkwrite") /\ stats' = stats /\ moves' = moves /\ calls' = Bump(calls)
  BY DEF StoreFault
<1>2. /\ IsFiniteSet(AtStep({"moved"})') /\ InStep({"moved"})' = InStep({"moved"})
      /\ IsFiniteSet(AtStep(InHandler)') /\ InStep(InHandler)' = InStep(InHandler) + 1
  <2>1. "store" \notin InHandler /\ "mkwrite" \in InHandler
    OBVIOUS
  <2> HIDE DEF InHandler, Goto
  <2> QED BY <1>1, <2>1, CountsAfterGoto
<1>3. all \in Nat /\ InStep(InHandler) \in Nat /\ all + InStep(InHandler) \in Nat
  BY CountsAreNat
<1>4. (all + InStep(InHandler)) % CounterMod = calls
  BY DEF CountersInv, CountersAgree
<1>5. (((all + InStep(InHandler)) % CounterMod) + 1) % CounterMod
        = (all + InStep(InHandler) + 1) % CounterMod
  BY <1>3, ModOfSum
<1>6. (all + (InStep(InHandler) + 1)) % CounterMod = calls'
  BY <1>1, <1>3, <1>4, <1>5 DEF Bump
<1> QED BY <1>1, <1>2, <1>6 DEF CountersInv, CountersAgree

(* A migration is counted as a move when it ends. *)
LEMMA MoveKeepsCounters ==
  ASSUME TypeOK, CountersInv, NEW p \in Procs, Move(p)
  PROVE  CountersInv'
<1> DEFINE n == stats["nr_repat"] + InStep({"moved"})
<1>1. Goto(p, "move", "moved") /\ stats' = stats /\ moves' = Bump(moves) /\ calls' = calls
  BY DEF Move
<1>2. /\ IsFiniteSet(AtStep({"moved"})') /\ InStep({"moved"})' = InStep({"moved"}) + 1
      /\ IsFiniteSet(AtStep(InHandler)') /\ InStep(InHandler)' = InStep(InHandler)
  <2>1. "move" \in InHandler /\ "moved" \in InHandler
    OBVIOUS
  <2> HIDE DEF InHandler, Goto
  <2> QED BY <1>1, <2>1, CountsAfterGoto
<1>3. n \in Nat /\ stats["nr_repat"] \in Nat /\ InStep({"moved"}) \in Nat
  BY CountsAreNat
<1>4. n % CounterMod = moves
  BY DEF CountersInv, CountersAgree
<1>5. ((n % CounterMod) + 1) % CounterMod = (n + 1) % CounterMod
  BY <1>3, ModOfSum
<1>6. (stats["nr_repat"] + (InStep({"moved"}) + 1)) % CounterMod = moves'
  BY <1>1, <1>3, <1>4, <1>5 DEF Bump
<1> QED BY <1>1, <1>2, <1>6 DEF CountersInv, CountersAgree

(* A repatriation is counted in nr_repat by the process that moved the folio. *)
LEMMA RepatDoneKeepsCounters ==
  ASSUME TypeOK, CountersInv, NEW p \in Procs, RepatDone(p)
  PROVE  CountersInv'
<1> DEFINE r == stats["nr_repat"]
           others == stats["nr_repat_fail"] + stats["nr_warn_wrong_zone"]
           m == InStep({"moved"})'
           h == InStep(InHandler)'
<1>1. Goto(p, "moved", "store") /\ moves' = moves /\ calls' = calls
  BY DEF RepatDone
<1>2. /\ stats'["nr_repat"] = Bump(r) /\ stats'["nr_repat_fail"] = stats["nr_repat_fail"]
      /\ stats'["nr_warn_wrong_zone"] = stats["nr_warn_wrong_zone"]
  BY DEF RepatDone, IncStat, TypeOK, StatNames
<1>3. /\ IsFiniteSet(AtStep({"moved"})') /\ m \in Nat /\ InStep({"moved"}) = m + 1
      /\ IsFiniteSet(AtStep(InHandler)') /\ h \in Nat /\ InStep(InHandler) = h + 1
  <2>1. "moved" \in InHandler /\ "store" \notin InHandler
    OBVIOUS
  <2> HIDE DEF InHandler, Goto
  <2> QED BY <1>1, <2>1, CountsAfterGoto
<1>4. /\ r \in Nat /\ stats["nr_repat_fail"] \in Nat
      /\ stats["nr_warn_wrong_zone"] \in Nat /\ others + h \in Nat
  BY <1>3, CountsAreNat
<1> HIDE DEF m, h, r
<1>5. (Bump(r) + m) % CounterMod = moves
  <2>1. (Bump(r) + m) % CounterMod = ((r + 1) + m) % CounterMod
    BY <1>3, <1>4, ModOfSum DEF Bump
  <2>2. (r + (m + 1)) % CounterMod = moves
    BY <1>3 DEF CountersInv, CountersAgree, r
  <2> QED BY <1>3, <1>4, <2>1, <2>2
<1>6. (Bump(r) + (others + h)) % CounterMod = calls
  <2> DEFINE y == others + h
  <2>0. y \in Nat
    BY <1>4
  <2> HIDE DEF y
  <2>1. (Bump(r) + y) % CounterMod = ((r + 1) + y) % CounterMod
    BY <1>4, <2>0, ModOfSum DEF Bump
  <2>2. (r + stats["nr_repat_fail"] + stats["nr_warn_wrong_zone"] + (h + 1)) % CounterMod
          = calls
    BY <1>3 DEF CountersInv, CountersAgree, r
  <2> QED BY <1>3, <1>4, <2>1, <2>2 DEF y
<1>7. Bump(r) \in Nat
  BY <1>4 DEF Bump
<1> QED BY <1>1, <1>2, <1>3, <1>4, <1>5, <1>6, <1>7 DEF CountersInv, CountersAgree, m, h

(* A failed migration and a page outside LtRAM end in their own counter. *)
LEMMA OtherEndsKeepCounters ==
  ASSUME TypeOK, CountersInv, NEW p \in Procs, RepatFail(p) \/ WrongZone(p)
  PROVE  CountersInv'
<1> DEFINE r == stats["nr_repat"]
           h == InStep(InHandler)'
<1>1. moves' = moves /\ calls' = calls
  BY DEF RepatFail, WrongZone
<1>2. PICK from \in {"failed", "mkwrite"} : Goto(p, from, "store")
  BY DEF RepatFail, WrongZone
<1>3. PICK x \in {"nr_repat_fail", "nr_warn_wrong_zone"} : IncStat(x)
  BY DEF RepatFail, WrongZone
<1>4. PICK y \in {"nr_repat_fail", "nr_warn_wrong_zone"} : y # x
  OBVIOUS
<1>5. stats'["nr_repat"] = r /\ stats'[x] = Bump(stats[x]) /\ stats'[y] = stats[y]
  BY <1>3, <1>4 DEF IncStat, TypeOK, StatNames
<1>6. /\ IsFiniteSet(AtStep({"moved"})') /\ InStep({"moved"})' = InStep({"moved"})
      /\ IsFiniteSet(AtStep(InHandler)') /\ h \in Nat /\ InStep(InHandler) = h + 1
  <2>1. from \in InHandler /\ "store" \notin InHandler /\ from # "moved"
    BY <1>2
  <2> HIDE DEF InHandler, Goto
  <2> QED BY <1>2, <2>1, CountsAfterGoto
<1>7. r \in Nat /\ stats[x] \in Nat /\ stats[y] \in Nat /\ r + stats[y] + h \in Nat
  BY <1>6, CountsAreNat
<1>8. Bump(stats[x]) \in Nat
  BY <1>7 DEF Bump
<1> HIDE DEF r, h
<1>9. (r + stats[x] + stats[y] + (h + 1)) % CounterMod = calls
  <2>1. r + stats["nr_repat_fail"] + stats["nr_warn_wrong_zone"] = r + stats[x] + stats[y]
    BY <1>4, <1>7
  <2> QED BY <1>6, <2>1 DEF CountersInv, CountersAgree, r
<1>10. (r + Bump(stats[x]) + stats[y] + h) % CounterMod = calls
  <2> DEFINE z == r + stats[y] + h
             a == stats[x] + 1
  <2>1. z \in Nat /\ a \in Nat
    BY <1>7
  <2>2. a + z = r + stats[x] + stats[y] + (h + 1)
    BY <1>6, <1>7
  <2>3. Bump(stats[x]) = a % CounterMod
    BY DEF Bump
  <2>4. r + Bump(stats[x]) + stats[y] + h = Bump(stats[x]) + z
    BY <1>6, <1>7, <1>8
  <2> HIDE DEF z, a
  <2>5. ((a % CounterMod) + z) % CounterMod = (a + z) % CounterMod
    BY <2>1, ModOfSum
  <2> QED BY <1>9, <2>2, <2>3, <2>4, <2>5
<1>11. r + stats'["nr_repat_fail"] + stats'["nr_warn_wrong_zone"]
         = r + Bump(stats[x]) + stats[y]
  BY <1>4, <1>5, <1>7, <1>8
<1>12. (stats'["nr_repat"] + stats'["nr_repat_fail"] + stats'["nr_warn_wrong_zone"] + h)
         % CounterMod = calls'
  BY <1>1, <1>5, <1>10, <1>11
<1>13. (stats'["nr_repat"] + InStep({"moved"})') % CounterMod = moves'
  BY <1>1, <1>5, <1>6 DEF CountersInv, CountersAgree, r
<1> QED BY <1>6, <1>12, <1>13 DEF CountersInv, CountersAgree, h

(* The other steps inside the handler are not counted. *)
LEMMA InnerStepsKeepCounters ==
  ASSUME TypeOK, CountersInv, NEW p \in Procs,
         \/ StoreHit(p) \/ CallMigrate(p) \/ Isolate(p) \/ IsolateBusy(p) \/ MoveFail(p)
         \/ \E v \in Pages : BeginStore(p, v)
  PROVE  CountersInv'
<1>1. stats' = stats /\ moves' = moves /\ calls' = calls
  BY DEF StoreHit, CallMigrate, Isolate, IsolateBusy, MoveFail, BeginStore
<1>2. PICK from, to \in {"run", "store", "mkwrite", "isolate", "move", "failed"} :
        Goto(p, from, to) /\ (from \in InHandler <=> to \in InHandler)
  BY DEF StoreHit, CallMigrate, Isolate, IsolateBusy, MoveFail, BeginStore
<1>3. /\ IsFiniteSet(AtStep({"moved"})') /\ InStep({"moved"})' = InStep({"moved"})
      /\ IsFiniteSet(AtStep(InHandler)') /\ InStep(InHandler)' = InStep(InHandler)
  BY <1>2, CountsAfterGoto
<1> QED BY <1>1, <1>3 DEF CountersInv, CountersAgree

(* Every step keeps the counters in agreement. *)
LEMMA NextKeepsCounters == TypeOK /\ CountersInv /\ [Next]_vars => CountersInv'
<1> SUFFICES ASSUME TypeOK, CountersInv, [Next]_vars PROVE CountersInv'
  OBVIOUS
<1>1. ASSUME UNCHANGED <<pc, stats, moves, calls>> PROVE CountersInv'
  BY <1>1 DEF CountersInv, CountersAgree, InStep, AtStep
<1>2. ASSUME NEW p \in Procs, NEW v \in Pages, ReadFault(p, v) \/ BeginStore(p, v)
      PROVE  CountersInv'
  BY <1>1, <1>2, InnerStepsKeepCounters DEF ReadFault
<1>3. ASSUME NEW p \in Procs, Store(p) \/ Handler(p)
      PROVE  CountersInv'
  BY <1>3, StoreFaultKeepsCounters, MoveKeepsCounters, RepatDoneKeepsCounters,
     OtherEndsKeepCounters, InnerStepsKeepCounters DEF Store, Handler
<1>4. ASSUME NEW p \in Procs, Munmap(p) PROVE CountersInv'
  BY <1>1, <1>4 DEF Munmap
<1>5. ASSUME NEW v \in Pages, Writeback(v) PROVE CountersInv'
  BY <1>1, <1>5 DEF Writeback
<1>6. CASE DropCaches
  BY <1>1, <1>6 DEF DropCaches
<1>7. CASE UNCHANGED vars
  BY <1>1, <1>7 DEF vars
<1> QED BY <1>2, <1>3, <1>4, <1>5, <1>6, <1>7 DEF Next

(***************************************************************************)
(* The counters of ltram_stats tell the truth: nr_repat counts the folios  *)
(* that left LtRAM, and every call of ltram_page_mkwrite() ends in exactly *)
(* one of the three, across any interleaving and past any wrap-around.     *)
(***************************************************************************)
THEOREM CountersAlwaysAgree == Spec => []CountersAgree
<1>1. TypeOK /\ CountersInv /\ [Next]_vars => CountersInv'
  BY NextKeepsCounters
<1>2. CountersInv => CountersAgree
  BY DEF CountersInv
<1> QED BY InitCounters, TypeCorrect, <1>1, <1>2, PTL DEF Spec

=============================================================================
