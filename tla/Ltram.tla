------------------------------- MODULE Ltram -------------------------------
(***************************************************************************)
(* The write path of an LtRAM mapping: ltram_page_mkwrite() of             *)
(* ltram_module/ltram.c, run by several processes that map the same file   *)
(* pages, over the few kernel services it relies on.                       *)
(*                                                                         *)
(* A file page lives in one physical frame at a time (cache), mapped by    *)
(* any number of processes (pteF, pteW).  A page that is first touched by  *)
(* a read is routed to ZONE_LTRAM and mapped read-only.  A store through   *)
(* a read-only PTE faults; the handler then moves the page to DRAM with    *)
(* ltram_migrate_from() and the store is retried.  The handler takes no    *)
(* lock of its own: between any two of its steps other processes fault on  *)
(* the same page, migrate it, unmap it or reuse its frame.                 *)
(***************************************************************************)
EXTENDS Naturals, FiniteSets

CONSTANTS
  Procs,        \* processes, one thread each
  Pages,        \* pages of the mapped file
  LtFrames,     \* physical frames of node 1, all in ZONE_LTRAM
  DramFrames,   \* physical frames of node 0
  None,         \* no frame, no page, no process
  Zero,         \* the content of a page that nobody has written
  CounterMod    \* the modulus of an atomic_long_t (2^64 in the kernel)

ASSUME FramesDisjoint == LtFrames \cap DramFrames = {}
ASSUME NoneIsNothing ==
  None \notin LtFrames \cup DramFrames \cup Procs \cup Pages
ASSUME ZeroIsNoProc == Zero \notin Procs
ASSUME CounterModAssumption == CounterMod \in Nat /\ CounterMod > 1

Frames == LtFrames \cup DramFrames
Contents == Procs \cup {Zero}    \* what a page holds: who wrote it last

(***************************************************************************)
(* Where a process is: in user code ("run"), about to execute a store      *)
(* ("store"), or inside the handler: before the zone check ("mkwrite"),    *)
(* inside ltram_migrate_from() before and after isolating the folio        *)
(* ("isolate", "move"), and between its return and the statistics update   *)
(* ("moved", "failed").                                                    *)
(***************************************************************************)
PcValues == {"run", "store", "mkwrite", "isolate", "move", "moved", "failed"}

VARIABLES
  pc,        \* the step each process is at
  want,      \* the page of the store a process is executing
  vmf,       \* vmf->page: the frame captured (and referenced) by the fault
  pteF,      \* frame each process maps each page to
  pteW,      \* whether that PTE is writable
  cache,     \* frame that holds each page in the page cache
  isolated,  \* frames taken off the LRU by a migration
  mem,       \* content of each frame
  file,      \* content of each page on disk
  stats,     \* the three counters of ltram_stats
  last,      \* history: the last store executed to each page
  moves,     \* history: migrations that succeeded, modulo CounterMod
  calls      \* history: calls of the handler, modulo CounterMod

kernel == <<cache, isolated>>
tables == <<pteF, pteW>>
contents == <<mem, file, last>>
vars == <<pc, want, vmf, tables, kernel, contents, stats, moves, calls>>

(* struct ltram_stats, and atomic_long_inc() on one of its counters. *)
StatNames == {"nr_repat", "nr_repat_fail", "nr_warn_wrong_zone"}

Bump(n) == (n + 1) % CounterMod
IncStat(n) == stats' = [stats EXCEPT ![n] = Bump(@)]

(***************************************************************************)
(* A frame is free when the page cache does not use it and no fault still  *)
(* holds a reference to it: the last reference dropped returns the folio   *)
(* to its zone's free list.                                                *)
(***************************************************************************)
Free == {f \in Frames : /\ \A v \in Pages : cache[v] # f
                        /\ \A p \in Procs : vmf[p] # f}

Mapped(v) == \E p \in Procs : pteF[p][v] # None

Goto(p, from, to) == pc[p] = from /\ pc' = [pc EXCEPT ![p] = to]

Init ==
  /\ pc = [p \in Procs |-> "run"]
  /\ want = [p \in Procs |-> None]
  /\ vmf = [p \in Procs |-> None]
  /\ pteF = [p \in Procs |-> [v \in Pages |-> None]]
  /\ pteW = [p \in Procs |-> [v \in Pages |-> FALSE]]
  /\ cache = [v \in Pages |-> None]
  /\ isolated = {}
  /\ mem = [f \in Frames |-> Zero]
  /\ file = [v \in Pages |-> Zero]
  /\ stats = [n \in StatNames |-> 0]
  /\ last = [v \in Pages |-> Zero]
  /\ moves = 0
  /\ calls = 0

-----------------------------------------------------------------------------
(* The program's side: loads, stores, unmapping, cache drops.              *)

(***************************************************************************)
(* A load from a page the process has not mapped.  A page already in the   *)
(* page cache is mapped where it is.  Otherwise the read-only routing puts *)
(* it in a free LtRAM frame, or in DRAM when ZONE_LTRAM is full, and reads *)
(* it from the file.  Either way the PTE is read-only.                     *)
(***************************************************************************)
RouteReadOnly(v) ==
  IF cache[v] # None THEN {cache[v]}
  ELSE IF Free \cap LtFrames # {} THEN Free \cap LtFrames
  ELSE Free

ReadFault(p, v) ==
  /\ pc[p] = "run" /\ pteF[p][v] = None
  /\ \E f \in RouteReadOnly(v) :
       /\ cache' = [cache EXCEPT ![v] = f]
       /\ pteF' = [pteF EXCEPT ![p][v] = f]
       /\ mem' = IF cache[v] = None THEN [mem EXCEPT ![f] = file[v]] ELSE mem
  /\ pteW' = [pteW EXCEPT ![p][v] = FALSE]
  /\ UNCHANGED <<pc, want, vmf, isolated, file, last, stats, moves, calls>>

(* The program reaches a store to a page it has read before. *)
BeginStore(p, v) ==
  /\ Goto(p, "run", "store") /\ pteF[p][v] # None
  /\ want' = [want EXCEPT ![p] = v]
  /\ UNCHANGED <<vmf, tables, kernel, contents, stats, moves, calls>>

(* The store instruction through a writable PTE: it completes. *)
StoreHit(p) ==
  /\ Goto(p, "store", "run") /\ pteW[p][want[p]]
  /\ mem' = [mem EXCEPT ![pteF[p][want[p]]] = p]
  /\ last' = [last EXCEPT ![want[p]] = p]
  /\ want' = [want EXCEPT ![p] = None]
  /\ UNCHANGED <<vmf, tables, kernel, file, stats, moves, calls>>

(***************************************************************************)
(* The store instruction through a read-only PTE: the kernel takes a       *)
(* reference to the page it faulted on and calls page_mkwrite.             *)
(***************************************************************************)
StoreFault(p) ==
  /\ Goto(p, "store", "mkwrite") /\ ~pteW[p][want[p]]
  /\ vmf' = [vmf EXCEPT ![p] = pteF[p][want[p]]]
  /\ calls' = Bump(calls)
  /\ UNCHANGED <<want, tables, kernel, contents, stats, moves>>

(* munmap() of the whole mapping. *)
Munmap(p) ==
  /\ pc[p] = "run" /\ \E v \in Pages : pteF[p][v] # None
  /\ pteF' = [pteF EXCEPT ![p] = [v \in Pages |-> None]]
  /\ pteW' = [pteW EXCEPT ![p] = [v \in Pages |-> FALSE]]
  /\ UNCHANGED <<pc, want, vmf, kernel, contents, stats, moves, calls>>

(***************************************************************************)
(* Writeback of a page (msync, sync, the flusher thread): its content goes *)
(* to the file and every PTE that maps it is write-protected again, so the *)
(* next store to it calls page_mkwrite anew.                               *)
(***************************************************************************)
Writeback(v) ==
  /\ cache[v] # None
  /\ \/ file[v] # mem[cache[v]]
     \/ \E q \in Procs : pteW[q][v]
  /\ file' = [file EXCEPT ![v] = mem[cache[v]]]
  /\ pteW' = [q \in Procs |-> [pteW[q] EXCEPT ![v] = FALSE]]
  /\ UNCHANGED <<pc, want, vmf, pteF, kernel, mem, last, stats, moves, calls>>

(* drop_caches: the unmapped clean pages leave the page cache. *)
Dropped == {v \in Pages : /\ cache[v] # None /\ ~Mapped(v)
                          /\ mem[cache[v]] = file[v]}

DropCaches ==
  /\ Dropped # {}
  /\ cache' = [v \in Pages |-> IF v \in Dropped THEN None ELSE cache[v]]
  /\ UNCHANGED <<pc, want, vmf, tables, isolated, contents, stats, moves, calls>>

-----------------------------------------------------------------------------
(* ltram_page_mkwrite(). *)

(* Mutant: the wrong-zone path returns VM_FAULT_NOPAGE instead of 0. *)
WrongZoneNoPage(p) ==
  /\ Goto(p, "mkwrite", "store") /\ vmf[p] \notin LtFrames
  /\ IncStat("nr_warn_wrong_zone")
  /\ vmf' = [vmf EXCEPT ![p] = None]
  /\ UNCHANGED <<want, tables, kernel, contents, moves, calls>>

(***************************************************************************)
(* The folio is not in ZONE_LTRAM: count it and return 0, so the kernel    *)
(* goes on with its normal write-protect fault and makes the PTE writable  *)
(* where it is, if it still maps the page the fault was taken on.          *)
(***************************************************************************)
WrongZone(p) ==
  /\ Goto(p, "mkwrite", "store") /\ vmf[p] \notin LtFrames
  /\ IncStat("nr_warn_wrong_zone")
  /\ pteW' = [pteW EXCEPT ![p][want[p]] = @ \/ pteF[p][want[p]] = vmf[p]]
  /\ vmf' = [vmf EXCEPT ![p] = None]
  /\ UNCHANGED <<want, pteF, kernel, contents, moves, calls>>

(* Mutant: the zone check is missing. *)
CallMigrateAnyZone(p) ==
  /\ Goto(p, "mkwrite", "isolate")
  /\ UNCHANGED <<want, vmf, tables, kernel, contents, stats, moves, calls>>

(* The folio is in ZONE_LTRAM: call ltram_migrate_from(). *)
CallMigrate(p) ==
  /\ Goto(p, "mkwrite", "isolate") /\ vmf[p] \in LtFrames
  /\ UNCHANGED <<want, vmf, tables, kernel, contents, stats, moves, calls>>

(* Mutant: a failed migration returns 0, "finish the fault in place". *)
RepatFailInPlace(p) ==
  /\ Goto(p, "failed", "store")
  /\ IncStat("nr_repat_fail")
  /\ pteW' = [pteW EXCEPT ![p][want[p]] = TRUE]
  /\ vmf' = [vmf EXCEPT ![p] = None]
  /\ UNCHANGED <<want, pteF, kernel, contents, moves, calls>>

(* Mutant: the error path falls through to the success counter. *)
RepatFailFallsThrough(p) ==
  /\ Goto(p, "failed", "store")
  /\ stats' = [stats EXCEPT !["nr_repat_fail"] = Bump(@), !["nr_repat"] = Bump(@)]
  /\ vmf' = [vmf EXCEPT ![p] = None]
  /\ UNCHANGED <<want, tables, kernel, contents, moves, calls>>

(* err != 0: count the failure and return VM_FAULT_RETRY. *)
RepatFail(p) ==
  /\ Goto(p, "failed", "store")
  /\ IncStat("nr_repat_fail")
  /\ vmf' = [vmf EXCEPT ![p] = None]
  /\ UNCHANGED <<want, tables, kernel, contents, moves, calls>>

(* err == 0: count the repatriation and return VM_FAULT_NOPAGE. *)
RepatDone(p) ==
  /\ Goto(p, "moved", "store")
  /\ IncStat("nr_repat")
  /\ vmf' = [vmf EXCEPT ![p] = None]
  /\ UNCHANGED <<want, tables, kernel, contents, moves, calls>>

-----------------------------------------------------------------------------
(* ltram_migrate_from(), as its caller describes it. *)

(* Mutant: a folio is isolated without looking whether somebody has it. *)
OnLruUnchecked(f) == \E v \in Pages : cache[v] = f

OnLru(f) == f \notin isolated /\ \E v \in Pages : cache[v] = f

Isolate(p) ==
  /\ Goto(p, "isolate", "move") /\ OnLru(vmf[p])
  /\ isolated' = isolated \cup {vmf[p]}
  /\ UNCHANGED <<want, vmf, tables, cache, contents, stats, moves, calls>>

(* -EBUSY: another migration has the folio, or it is briefly off the LRU. *)
IsolateBusy(p) ==
  /\ Goto(p, "isolate", "failed")
  /\ UNCHANGED <<want, vmf, tables, kernel, contents, stats, moves, calls>>

(* Mutant: rmap is not walked, only the faulting process gets the new frame. *)
MoveOwnPteOnly(p) ==
  /\ Goto(p, "move", "moved")
  /\ \E d \in Free \cap DramFrames :
       /\ mem' = [mem EXCEPT ![d] = mem[vmf[p]]]
       /\ cache' = [v \in Pages |-> IF cache[v] = vmf[p] THEN d ELSE cache[v]]
       /\ pteF' = [pteF EXCEPT ![p][want[p]] = d]
  /\ pteW' = [pteW EXCEPT ![p][want[p]] = TRUE]
  /\ isolated' = isolated \ {vmf[p]}
  /\ moves' = Bump(moves)
  /\ UNCHANGED <<want, vmf, file, last, stats, calls>>

(***************************************************************************)
(* The migration proper.  Migration entries block every access to the page *)
(* until it is over, so it is one step: the content is copied to a DRAM    *)
(* folio and every PTE that mapped the source folio now maps it, writable. *)
(***************************************************************************)
Move(p) ==
  /\ Goto(p, "move", "moved")
  /\ \E d \in Free \cap DramFrames :
       /\ mem' = [mem EXCEPT ![d] = mem[vmf[p]]]
       /\ cache' = [v \in Pages |-> IF cache[v] = vmf[p] THEN d ELSE cache[v]]
       /\ pteF' = [q \in Procs |-> [v \in Pages |->
                     IF pteF[q][v] = vmf[p] THEN d ELSE pteF[q][v]]]
  /\ pteW' = [q \in Procs |-> [v \in Pages |->
                pteW[q][v] \/ pteF[q][v] = vmf[p]]]
  /\ isolated' = isolated \ {vmf[p]}
  /\ moves' = Bump(moves)
  /\ UNCHANGED <<want, vmf, file, last, stats, calls>>

(* -EFAULT: no DRAM page, or the migration failed; the folio is put back. *)
MoveFail(p) ==
  /\ Goto(p, "move", "failed")
  /\ isolated' = isolated \ {vmf[p]}
  /\ UNCHANGED <<want, vmf, tables, cache, contents, stats, moves, calls>>

-----------------------------------------------------------------------------
Handler(p) ==
  \/ WrongZone(p) \/ CallMigrate(p) \/ RepatFail(p) \/ RepatDone(p)
  \/ Isolate(p) \/ IsolateBusy(p) \/ Move(p) \/ MoveFail(p)

Store(p) == StoreHit(p) \/ StoreFault(p)

Next ==
  \/ \E p \in Procs, v \in Pages : ReadFault(p, v) \/ BeginStore(p, v)
  \/ \E p \in Procs : Store(p) \/ Handler(p) \/ Munmap(p)
  \/ \E v \in Pages : Writeback(v)
  \/ DropCaches

Spec == Init /\ [][Next]_vars

(***************************************************************************)
(* Fairness: a CPU inside a store or the handler keeps executing (weak),   *)
(* a migration that is retried over and over neither fails to isolate the  *)
(* folio nor fails to move it every single time, which is what returning   *)
(* VM_FAULT_RETRY for both errors relies on, and writeback does not win    *)
(* the race against the retried store every single time (strong).  The     *)
(* program itself need not go on reading, storing or unmapping.            *)
(***************************************************************************)
Fairness ==
  \A p \in Procs :
    /\ WF_vars(Store(p) \/ Handler(p))
    /\ SF_vars(Isolate(p))
    /\ SF_vars(Move(p))
    /\ SF_vars(StoreHit(p))

FairSpec == Spec /\ Fairness

-----------------------------------------------------------------------------
(* Properties. *)

TypeOK ==
  /\ pc \in [Procs -> PcValues]
  /\ want \in [Procs -> Pages \cup {None}]
  /\ vmf \in [Procs -> Frames \cup {None}]
  /\ pteF \in [Procs -> [Pages -> Frames \cup {None}]]
  /\ pteW \in [Procs -> [Pages -> BOOLEAN]]
  /\ cache \in [Pages -> Frames \cup {None}]
  /\ isolated \in SUBSET Frames
  /\ mem \in [Frames -> Contents]
  /\ file \in [Pages -> Contents]
  /\ stats \in [StatNames -> 0 .. CounterMod - 1]
  /\ last \in [Pages -> Contents]
  /\ moves \in 0 .. CounterMod - 1
  /\ calls \in 0 .. CounterMod - 1

(***************************************************************************)
(* The content of an LtRAM frame that is in use never changes: no store    *)
(* reaches LtRAM in place, whatever the processes that share the page do   *)
(* while it is being repatriated.                                          *)
(***************************************************************************)
LtramNeverWritten ==
  [][\A f \in LtFrames : f \notin Free => mem'[f] = mem[f]]_vars

(***************************************************************************)
(* Every process sees the last store: wherever a page is after migrations, *)
(* unmappings and cache drops, its frame (or the file) holds the last value*)
(* stored, and every PTE for the page points at that frame.                *)
(***************************************************************************)
LastStoreVisible ==
  \A v \in Pages :
    /\ (IF cache[v] = None THEN file[v] ELSE mem[cache[v]]) = last[v]
    /\ \A p \in Procs : pteF[p][v] \in {None, cache[v]}

(***************************************************************************)
(* Two faults on the same LtRAM page never both move it: the frame that a  *)
(* process inside ltram_migrate_from() has isolated is its own, is still   *)
(* the page's frame, and is the page it is storing to.                     *)
(***************************************************************************)
OneMigrationPerFolio ==
  \A p \in Procs : pc[p] = "move" =>
    /\ vmf[p] \in isolated /\ cache[want[p]] = vmf[p]
    /\ \A q \in Procs \ {p} : pc[q] = "move" => vmf[q] # vmf[p]

(***************************************************************************)
(* The counters tell the truth (modulo their width): a repatriation is     *)
(* counted once per folio that really left LtRAM, and every call of the    *)
(* handler ends in exactly one of the three counters.                      *)
(***************************************************************************)
InStep(S) == Cardinality({p \in Procs : pc[p] \in S})

CountersAgree ==
  /\ (stats["nr_repat"] + InStep({"moved"})) % CounterMod = moves
  /\ (stats["nr_repat"] + stats["nr_repat_fail"] + stats["nr_warn_wrong_zone"]
        + InStep({"mkwrite", "isolate", "move", "moved", "failed"}))
        % CounterMod = calls

(***************************************************************************)
(* What the comment at the zone check says: a fault on a page outside      *)
(* ZONE_LTRAM means the mapping was set up wrong.  With an LtRAM frame for *)
(* every page and every reference, all pages are routed to LtRAM, so such  *)
(* a fault should never be counted.                                        *)
(***************************************************************************)
WrongZoneMeansBadVma ==
  Cardinality(LtFrames) >= Cardinality(Pages) + Cardinality(Procs)
    => stats["nr_warn_wrong_zone"] = 0

(***************************************************************************)
(* The handler only ever moves pages out of LtRAM: a page that is in DRAM  *)
(* stays in its frame until the cache is dropped.                          *)
(***************************************************************************)
DramPagesStay ==
  [][\A v \in Pages : cache[v] \in DramFrames => cache'[v] \in {cache[v], None}]_vars

(***************************************************************************)
(* Every store completes: a process that faults on an LtRAM page is not    *)
(* sent round the retry loop for ever.                                     *)
(***************************************************************************)
StoresComplete == \A p \in Procs : (want[p] # None) ~> (want[p] = None)

=============================================================================
