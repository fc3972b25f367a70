--------------------------- MODULE LtramSmoketest ---------------------------
(***************************************************************************)
(* The smoke test module, ltram_module/ltram_smoketest.c: six tests run    *)
(* once by ltram_smoketest_init() against the page allocator, on a machine *)
(* where other code allocates and frees frames of both nodes all the time. *)
(*                                                                         *)
(* What the tests are looking for is a kernel or a device that misbehaves, *)
(* so the defects of the machine under test are part of the initial state: *)
(*   "falls_back"   a __GFP_THISNODE request may be served from node 0     *)
(*   "no_fence"     a request without __GFP_LTRAM may be served from LtRAM *)
(*   "loses_freed"  a freed LtRAM frame does not return to the free list   *)
(*   "bad_cells"    LtRAM does not read back what was written              *)
(*   "unmapped"     LtRAM has no address in the kernel's linear map        *)
(*   "no_slab"      kmalloc_array() may fail                               *)
(***************************************************************************)
EXTENDS Integers, FiniteSets, Sequences

CONSTANTS
  LtFrames,     \* frames of node 1, all of them ZONE_LTRAM
  DramFrames,   \* frames of node 0
  NULL,         \* the allocator's failure return
  Machines,     \* the sets of defects to try
  BulkCounts,   \* values of the bulk_count parameter
  MaxOthers     \* bound: frames the rest of the machine uses at a time

ASSUME NodesDisjoint == LtFrames \cap DramFrames = {}
ASSUME NULLIsNoFrame == NULL \notin LtFrames \cup DramFrames
ASSUME BulkCountsAreInts == BulkCounts \subseteq Int
ASSUME MaxOthersAssumption == MaxOthers \in Nat

Frames == LtFrames \cup DramFrames

VARIABLES
  defects,      \* what is wrong with the machine under test
  bulk_count,   \* the module parameter
  test,         \* 1..6 the test running, 7 all done, 8 module unloaded
  step,         \* where in the test
  folio,        \* the local variable holding the folio of the current test
  folios,       \* the tracking array of test 2
  errors,       \* test 2: whether a folio was misplaced
  free,         \* frames on the free lists
  held,         \* frames the module holds a reference to
  others,       \* frames the rest of the machine uses
  passes, fails,
  seen          \* history: <<test, folio>> for every folio_alloc() result

locals == <<folio, folios, errors>>
vars == <<defects, bulk_count, test, step, locals, free, held, others,
          passes, fails, seen>>

Init ==
  /\ defects \in Machines
  /\ bulk_count \in BulkCounts
  /\ test = 1 /\ step = "alloc"
  /\ folio = NULL /\ folios = <<>> /\ errors = FALSE
  /\ free = Frames /\ held = {} /\ others = {}
  /\ passes = 0 /\ fails = 0
  /\ seen = {}

-----------------------------------------------------------------------------
(***************************************************************************)
(* folio_alloc(): any free frame the request may be served from, or NULL   *)
(* when there is none.  Tests 4 and 5 ask without __GFP_LTRAM.             *)
(***************************************************************************)
Zones(t) ==
  IF t \in {4, 5}
    THEN DramFrames \cup (IF "no_fence" \in defects THEN LtFrames ELSE {})
    ELSE LtFrames \cup (IF "falls_back" \in defects THEN DramFrames ELSE {})

Alloc(t) == IF free \cap Zones(t) = {} THEN {NULL} ELSE free \cap Zones(t)

Taken(f) ==
  /\ free' = free \ {f}
  /\ held' = held \cup ({f} \ {NULL})
  /\ seen' = seen \cup {<<test, f>>}

(* folio_put(): the frame goes back to its free list, unless it is lost. *)
Put(S) ==
  /\ held' = held \ S
  /\ free' = free \cup (IF "loses_freed" \in defects THEN S \ LtFrames ELSE S)

(***************************************************************************)
(* The end of a test: init counts it and calls the next one.  A test that  *)
(* EXPECT ends early returns at once; its locals are gone.                 *)
(***************************************************************************)
Return(ok) ==
  /\ passes' = IF ok THEN passes + 1 ELSE passes
  /\ fails' = IF ok THEN fails ELSE fails + 1
  /\ test' = test + 1
  /\ step' = CASE test = 1 -> "kmalloc" [] test = 6 -> "loaded" [] OTHER -> "alloc"
  /\ folio' = NULL /\ folios' = <<>> /\ errors' = FALSE

Continue(s) == step' = s /\ UNCHANGED <<test, passes, fails>>

(***************************************************************************)
(* The shape of tests 1, 3, 4, 5 and of the second half of 6: allocate,    *)
(* EXPECT a folio among those the test accepts, keep it for the put.  An   *)
(* EXPECT that fails after the allocation keeps the folio for good.        *)
(***************************************************************************)
AllocExpect(good) ==
  /\ \E f \in Alloc(test) :
       /\ Taken(f)
       /\ IF f \in good
            THEN Continue("put") /\ folio' = f /\ UNCHANGED <<folios, errors>>
            ELSE Return(FALSE)
  /\ UNCHANGED <<defects, bulk_count, others>>

(* Mutant: test 1 does not look at the node or the zone. *)
SinglePageUnchecked == test = 1 /\ step = "alloc" /\ AllocExpect(Frames)

(* Test 1: on node 1, in ZONE_LTRAM. *)
SinglePage ==
  /\ test = 1 /\ step = "alloc"
  /\ AllocExpect(LtFrames)

(* Whether folio_address() of a frame is not NULL. *)
Mapped(f) == ~("unmapped" \in defects /\ f \in LtFrames)

(* Whether the frame gives back what was stored through its address. *)
ReadsBack(f) == ~("bad_cells" \in defects /\ f \in LtFrames)

(* Test 3: the folio has an address and reads back what was written to it; *)
(* where the folio is is not checked.                                      *)
WriteThenRead ==
  /\ test = 3 /\ step = "alloc"
  /\ AllocExpect({f \in Frames : Mapped(f) /\ ReadsBack(f)})

(* Test 4: GFP_KERNEL, not in ZONE_LTRAM and on node 0. *)
KernelAllocAvoidsLtram ==
  /\ test = 4 /\ step = "alloc"
  /\ AllocExpect(DramFrames)

(* Test 5: GFP_HIGHUSER, not in ZONE_LTRAM. *)
HighuserAllocAvoidsLtram ==
  /\ test = 5 /\ step = "alloc"
  /\ AllocExpect(Frames \ LtFrames)

(* Test 6, second half: on node 1. *)
ReallocSecond ==
  /\ test = 6 /\ step = "realloc"
  /\ AllocExpect(LtFrames)

(* The last statements of those tests: put the folio and return 0. *)
PutAndPass ==
  /\ test \in {1, 3, 4, 5, 6} /\ step = "put"
  /\ Put({folio})
  /\ Return(TRUE)
  /\ UNCHANGED <<defects, bulk_count, others, seen>>

(* Test 2: kmalloc_array() of a negative count overflows and returns NULL. *)
BulkStart ==
  /\ test = 2 /\ step = "kmalloc"
  /\ \/ /\ bulk_count >= 0
        /\ Continue("bulk") /\ UNCHANGED locals
     \/ /\ bulk_count < 0 \/ "no_slab" \in defects
        /\ Return(FALSE)
  /\ UNCHANGED <<defects, bulk_count, free, held, others, seen>>

(* Mutant: each folio is put as soon as it has been looked at. *)
BulkAllocPutsEarly ==
  /\ test = 2 /\ step = "bulk" /\ Len(folios) < bulk_count
  /\ \E f \in Alloc(2) :
       /\ seen' = seen \cup {<<test, f>>}
       /\ folios' = Append(folios, f)
       /\ errors' = (errors \/ f \in DramFrames)
  /\ UNCHANGED <<defects, bulk_count, test, step, folio, free, held, others,
                 passes, fails>>

(* One turn of the allocation loop. *)
BulkAlloc ==
  /\ test = 2 /\ step = "bulk" /\ Len(folios) < bulk_count
  /\ \E f \in Alloc(2) :
       /\ Taken(f)
       /\ folios' = Append(folios, f)
       /\ errors' = (errors \/ f \in DramFrames)
  /\ UNCHANGED <<defects, bulk_count, test, step, folio, others, passes, fails>>

Allocated == {i \in DOMAIN folios : folios[i] # NULL}

(* Mutant: the folios are only put when the test is about to pass. *)
BulkFinishLeaks ==
  /\ test = 2 /\ step = "bulk" /\ Len(folios) = bulk_count
  /\ LET ok == Cardinality(Allocated) = bulk_count /\ ~errors
     IN  /\ Return(ok)
         /\ Put(IF ok THEN {folios[i] : i \in Allocated} ELSE {})
  /\ UNCHANGED <<defects, bulk_count, others, seen>>

(* Free everything regardless of outcome, then the two EXPECTs. *)
BulkFinish ==
  /\ test = 2 /\ step = "bulk" /\ Len(folios) = bulk_count
  /\ Put({folios[i] : i \in Allocated})
  /\ Return(Cardinality(Allocated) = bulk_count /\ ~errors)
  /\ UNCHANGED <<defects, bulk_count, others, seen>>

(* Test 6, first half: allocate and write.  Neither where the folio is nor *)
(* its address is checked: memset() of a NULL address is a kernel oops, in *)
(* which the task dies with the folio in its hands and init never returns. *)
ReallocFirst ==
  /\ test = 6 /\ step = "alloc"
  /\ \E f \in Alloc(6) :
       /\ Taken(f)
       /\ IF f # NULL
            THEN /\ Continue(IF Mapped(f) THEN "put1" ELSE "oops")
                 /\ folio' = f /\ UNCHANGED <<folios, errors>>
            ELSE Return(FALSE)
  /\ UNCHANGED <<defects, bulk_count, others>>

(* Mutant: the first folio of test 6 is never put. *)
ReallocPutForgotten ==
  /\ test = 6 /\ step = "put1"
  /\ Continue("realloc") /\ folio' = NULL
  /\ UNCHANGED <<defects, bulk_count, folios, errors, free, held, others, seen>>

ReallocPut ==
  /\ test = 6 /\ step = "put1"
  /\ Put({folio})
  /\ Continue("realloc") /\ folio' = NULL
  /\ UNCHANGED <<defects, bulk_count, folios, errors, others, seen>>

(* rmmod: ltram_smoketest_exit() frees nothing. *)
Unload ==
  /\ step = "loaded"
  /\ test' = 8 /\ step' = "unloaded"
  /\ UNCHANGED <<defects, bulk_count, locals, free, held, others, passes, fails, seen>>

(* The rest of the machine, on both nodes. *)
OtherAlloc ==
  /\ Cardinality(others) < MaxOthers
  /\ \E f \in free : others' = others \cup {f} /\ free' = free \ {f}
  /\ UNCHANGED <<defects, bulk_count, test, step, locals, held, passes, fails, seen>>

OtherFree ==
  /\ \E f \in others : others' = others \ {f} /\ free' = free \cup {f}
  /\ UNCHANGED <<defects, bulk_count, test, step, locals, held, passes, fails, seen>>

ltram_smoketest_init ==
  \/ SinglePage
  \/ BulkStart \/ BulkAlloc \/ BulkFinish
  \/ WriteThenRead \/ KernelAllocAvoidsLtram \/ HighuserAllocAvoidsLtram
  \/ ReallocFirst \/ ReallocPut \/ ReallocSecond
  \/ PutAndPass

Next == ltram_smoketest_init \/ Unload \/ OtherAlloc \/ OtherFree

Spec == Init /\ [][Next]_vars

-----------------------------------------------------------------------------
(* last_pass_count and last_fail_count are set from passes and fails here. *)
Finished == test \in {7, 8}
AllTestsPassed == Finished /\ fails = 0

TypeOK ==
  /\ defects \in Machines /\ bulk_count \in BulkCounts
  /\ test \in 1 .. 8
  /\ step \in {"alloc", "put", "kmalloc", "bulk", "put1", "oops", "realloc",
               "loaded", "unloaded"}
  /\ folio \in Frames \cup {NULL}
  /\ folios \in Seq(Frames \cup {NULL})
  /\ errors \in BOOLEAN
  /\ free \subseteq Frames /\ held \subseteq Frames /\ others \subseteq Frames
  /\ passes + fails = (IF Finished THEN 6 ELSE test - 1)
  /\ seen \subseteq (1 .. 6) \X (Frames \cup {NULL})

(***************************************************************************)
(* A frame has one owner: the module never uses or puts a folio that is on *)
(* a free list or that somebody else was given in the meantime.            *)
(***************************************************************************)
OneOwner ==
  /\ free \cap held = {} /\ free \cap others = {} /\ held \cap others = {}
  /\ step \in {"put", "put1"} => folio \in held
  /\ \A i \in Allocated : folios[i] \in held
  /\ \A i, j \in Allocated : i # j => folios[i] # folios[j]

(***************************************************************************)
(* What the early returns of EXPECT cost: beyond the folios of the test    *)
(* that is running, the module holds at most one folio per failed test, so *)
(* a run that prints ALL TESTS PASSED holds none.                          *)
(***************************************************************************)
LeakBoundedByFails ==
  Cardinality(held \ ({folio} \cup {folios[i] : i \in Allocated})) <= fails

(***************************************************************************)
(* What ALL TESTS PASSED lets one conclude.  Every test was given a folio  *)
(* each time it asked; those of tests 1 and 2 were LtRAM, those of tests 4 *)
(* and 5 were not, that of test 3 had an address and read back what was    *)
(* written, and of those of test 6 one had an address and one was LtRAM.   *)
(* Test 3 does not look where its folio is, so LtRAM itself is known to be *)
(* mapped and to keep its contents only on a kernel that never falls back  *)
(* to DRAM.  A kernel with "falls_back", "no_fence" or "loses_freed"       *)
(* passes when the defect does not show.                                   *)
(***************************************************************************)
VerdictSound ==
  AllTestsPassed =>
    /\ \A x \in seen :
         /\ x[2] # NULL
         /\ x[1] \in {1, 2} => x[2] \in LtFrames
         /\ x[1] = 3 => Mapped(x[2]) /\ ReadsBack(x[2])
         /\ x[1] \in {4, 5} => x[2] \in DramFrames
    /\ \E f \in Frames : <<6, f>> \in seen /\ Mapped(f)
    /\ \E f \in LtFrames : <<6, f>> \in seen
    /\ "falls_back" \notin defects => defects \cap {"bad_cells", "unmapped"} = {}

(***************************************************************************)
(* A failed test can be believed too: on a machine without defects a test  *)
(* only fails when a zone was exhausted or bulk_count is negative, and it  *)
(* costs nothing.                                                          *)
(***************************************************************************)
NoFalseAlarm ==
  defects = {} =>
    /\ fails > 0 => bulk_count < 0 \/ \E x \in seen : x[2] = NULL
    /\ Finished => held = {}

(***************************************************************************)
(* What the README says: after rmmod node 1's MemFree is back to its full  *)
(* value (once nobody else uses LtRAM), whatever the tests found.          *)
(***************************************************************************)
MemFreeRestored ==
  test = 8 /\ others = {} => LtFrames \subseteq free

(***************************************************************************)
(* What test 6 says of itself: it catches a kernel in which freed LtRAM    *)
(* pages do not return to the free list.                                   *)
(***************************************************************************)
Test6CatchesLostPages ==
  Finished /\ "loses_freed" \in defects => fails > 0

=============================================================================
