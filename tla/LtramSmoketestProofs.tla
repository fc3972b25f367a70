------------------------ MODULE LtramSmoketestProofs ------------------------
(***************************************************************************)
(* Proofs about LtramSmoketest, for any number of frames, any bulk_count   *)
(* and any defects of the machine under test.                              *)
(*                                                                         *)
(* The verdict of the module is about what it saw over its whole run, so   *)
(* the inductive invariant carries, from test to test, what the results    *)
(* seen so far say as long as no test has failed, and what the tracking    *)
(* array of test 2 says about the results of that test.                    *)
(***************************************************************************)
EXTENDS LtramSmoketest, FiniteSetTheorems, TLAPS

(* Which steps a test has, and which locals are in use at them. *)
Control ==
  /\ <<test, step>> \in ({1, 3, 4, 5, 6} \X {"alloc", "put"})
       \cup ({2} \X {"kmalloc", "bulk"}) \cup ({6} \X {"put1", "oops", "realloc"})
       \cup {<<7, "loaded">>, <<8, "unloaded">>}
  /\ step \notin {"put", "put1", "oops"} => folio = NULL
  /\ step # "bulk" => folios = <<>> /\ ~errors
  /\ step = "bulk" => Len(folios) <= bulk_count
  /\ passes \in Nat /\ fails \in Nat

(* The frames test 2 has to put, and the frames nobody will ever put. *)
Tracked == {folios[i] : i \in Allocated}
Leaked == held \ ({folio} \cup Tracked)

LeakInv ==
  /\ IsFiniteSet(Leaked) /\ Cardinality(Leaked) <= fails
  /\ defects = {} => Leaked = {}

(* What test 2 has seen is in its tracking array, misplaced folios counted. *)
Tracking ==
  /\ step = "bulk" =>
       /\ \A i \in DOMAIN folios : <<2, folios[i]>> \in seen
       /\ \A x \in seen : x[1] = 2 => \E i \in DOMAIN folios : folios[i] = x[2]
       /\ errors <=> \E i \in DOMAIN folios : folios[i] \in DramFrames
  /\ test = 1 \/ step = "kmalloc" => \A x \in seen : x[1] = 1
  /\ defects = {} => ~errors

(* What an unfailed run has seen so far. *)
SeenInv ==
  fails = 0 =>
    /\ \A x \in seen :
         /\ x[1] = 1 => x[2] \in LtFrames
         /\ x[1] = 2 /\ test > 2 => x[2] \in LtFrames
         /\ x[1] \in {4, 5} => x[2] \in DramFrames
    /\ test = 6 /\ step = "put" => <<6, folio>> \in seen /\ folio \in LtFrames
    /\ test > 6 => \E f \in LtFrames : <<6, f>> \in seen

(* What an unfailed run has seen of the folios it wrote to, in tests 3 and *)
(* 6, and where the folios asked for with __GFP_LTRAM come from.           *)
Usable(f) == f \in Frames /\ Mapped(f) /\ ReadsBack(f)
Written ==
  /\ \A x \in seen :
       /\ x[1] = 3 => Usable(x[2])
       /\ x[1] = 6 => x[2] \in Frames
  /\ test = 3 /\ step = "put" => <<3, folio>> \in seen /\ Usable(folio)
  /\ test > 3 => \E f : <<3, f>> \in seen /\ Usable(f)
  /\ test = 6 /\ step = "put1" => <<6, folio>> \in seen /\ Mapped(folio)
  /\ (test = 6 /\ step \in {"realloc", "put"}) \/ test > 6 =>
       \E f \in Frames : <<6, f>> \in seen /\ Mapped(f)
NoFallback ==
  "falls_back" \notin defects =>
    \A x \in seen : x[1] \in {1, 2, 3, 6} => x[2] \in LtFrames \cup {NULL}
WrittenInv == NoFallback /\ (fails = 0 => Written)

(* On a machine without defects a test only fails for want of a folio. *)
Explained ==
  defects = {} /\ fails > 0 => bulk_count < 0 \/ \E x \in seen : x[2] = NULL

(* TypeOK, in parts. *)
ControlType ==
  /\ defects \in Machines /\ bulk_count \in BulkCounts /\ test \in 1 .. 8
  /\ step \in {"alloc", "put", "kmalloc", "bulk", "put1", "oops", "realloc", "loaded", "unloaded"}
  /\ passes + fails = (IF Finished THEN 6 ELSE test - 1)
LocalsType ==
  folio \in Frames \cup {NULL} /\ folios \in Seq(Frames \cup {NULL}) /\ errors \in BOOLEAN
FramesType ==
  /\ free \subseteq Frames /\ held \subseteq Frames /\ others \subseteq Frames
  /\ seen \subseteq (1 .. 6) \X (Frames \cup {NULL})

IInv == TypeOK /\ Control /\ OneOwner /\ LeakInv /\ Tracking /\ SeenInv /\ Explained

USE NodesDisjoint, NULLIsNoFrame, BulkCountsAreInts, MaxOthersAssumption
USE DEF Frames, Finished

(* folio_alloc() returns a free frame or NULL, of the asked zone if all is well. *)
LEMMA AllocGives ==
  ASSUME TypeOK, NEW t, NEW f \in Alloc(t)
  PROVE  /\ f \in free \/ f = NULL
         /\ f \in Frames \cup {NULL}
         /\ defects = {} /\ t \in {4, 5} => f \in DramFrames \cup {NULL}
         /\ defects = {} /\ t \notin {4, 5} => f \in LtFrames \cup {NULL}
BY DEF Alloc, Zones, TypeOK

(* The parts of the type invariant. *)
LEMMA TypeParts == TypeOK <=> ControlType /\ LocalsType /\ FramesType
BY DEF TypeOK, ControlType, LocalsType, FramesType

(* The locals of a test that has not begun have their types. *)
LEMMA FreshLocalsType ==
  ASSUME NEW b, b = FALSE
  PROVE  NULL \in Frames \cup {NULL} /\ <<>> \in Seq(Frames \cup {NULL}) /\ b \in BOOLEAN
<1>1. b \in BOOLEAN
  BY Zenon
<1>2. <<>> \in Seq(Frames \cup {NULL})
  OBVIOUS
<1> QED BY <1>1, <1>2

(* Nothing has been allocated at first. *)
LEMMA InitIInv == Init => IInv
<1> SUFFICES ASSUME Init PROVE IInv
  OBVIOUS
<1>1. Allocated = {} /\ folios = <<>>
  BY DEF Init, Allocated
<1>2. TypeOK
  <2>1. ControlType
    BY DEF Init, ControlType
  <2>2. LocalsType
    BY <1>1, FreshLocalsType DEF Init, LocalsType
  <2>3. FramesType
    BY DEF Init, FramesType
  <2> QED BY <2>1, <2>2, <2>3, TypeParts
<1>3. Control
  BY DEF Init, Control
<1>4. OneOwner
  BY <1>1 DEF Init, OneOwner
<1>5. LeakInv
  <2>1. Leaked = {}
    BY DEF Init, Leaked
  <2> QED BY <2>1, FS_EmptySet DEF Init, LeakInv
<1>6. Tracking /\ SeenInv /\ Explained
  BY DEF Init, Tracking, SeenInv, Explained
<1> QED BY <1>2, <1>3, <1>4, <1>5, <1>6 DEF IInv

(* With no folio in the tracking array, test 2 has nothing to put. *)
LEMMA NothingTracked ==
  ASSUME folios = <<>>
  PROVE  Allocated = {} /\ Tracked = {}
BY DEF Allocated, Tracked

(* A test that loses at most one frame and fails keeps the leak bounded. *)
LEMMA OneMoreLeak ==
  ASSUME LeakInv, fails \in Nat, fails' = fails + 1, NEW f,
         Leaked' = Leaked \cup {f} \/ Leaked' = Leaked
  PROVE  IsFiniteSet(Leaked') /\ Cardinality(Leaked') <= fails'
<1>1. IsFiniteSet(Leaked) /\ Cardinality(Leaked) \in Nat /\ Cardinality(Leaked) <= fails
  BY FS_CardinalityType DEF LeakInv
<1>2. CASE Leaked' = Leaked \cup {f}
  BY <1>1, <1>2, FS_AddElement
<1>3. CASE Leaked' = Leaked
  BY <1>1, <1>3
<1> QED BY <1>2, <1>3

(***************************************************************************)
(* The common shape of the tests that allocate one folio: the folio is one *)
(* the test accepts and is kept for the put, or the test fails and holds   *)
(* on to it.                                                               *)
(***************************************************************************)
LEMMA AllocExpectKeepsIInv ==
  ASSUME IInv, NEW good \in SUBSET Frames, AllocExpect(good),
         \/ test \in {1, 3, 4, 5} /\ step = "alloc"
         \/ test = 6 /\ step = "realloc",
         test \in {1, 6} => good \subseteq LtFrames,
         test \in {4, 5} => good \subseteq DramFrames,
         defects = {} => (IF test \in {4, 5} THEN DramFrames ELSE LtFrames) \subseteq good
  PROVE  IInv'
<1>1. PICK f \in Alloc(test) :
        /\ Taken(f)
        /\ IF f \in good
             THEN Continue("put") /\ folio' = f /\ UNCHANGED <<folios, errors>>
             ELSE Return(FALSE)
  BY DEF AllocExpect
<1>2. /\ f \in free \/ f = NULL
      /\ f \in Frames \cup {NULL}
      /\ defects = {} => f \in good \cup {NULL}
  BY AllocGives DEF IInv
<1>3. UNCHANGED <<defects, bulk_count, others>>
  BY DEF AllocExpect
<1>4. folio = NULL /\ folios = <<>> /\ ~errors
  BY DEF IInv, Control
<1>5. free' = free \ {f} /\ held' = held \cup ({f} \ {NULL}) /\ seen' = seen \cup {<<test, f>>}
  BY <1>1 DEF Taken
<1>6. CASE f \in good
  <2>1. /\ test' = test /\ step' = "put" /\ folio' = f /\ folios' = <<>> /\ ~errors'
        /\ passes' = passes /\ fails' = fails
    BY <1>1, <1>4, <1>6 DEF Continue
  <2>2. Allocated' = {} /\ Tracked' = {} /\ Tracked = {} /\ Allocated = {}
    BY <1>4, <2>1, NothingTracked DEF Allocated, Tracked
  <2>3. f \in free /\ f # NULL
    BY <1>2, <1>6
  <2>4. TypeOK'
    <3>1. ControlType /\ LocalsType /\ FramesType
      BY TypeParts DEF IInv
    <3>2. ControlType'
      BY <1>3, <2>1, <3>1 DEF ControlType
    <3>3. LocalsType'
      BY <1>1, <1>2, <1>6, <3>1 DEF LocalsType
    <3>4. FramesType'
      BY <1>2, <1>3, <1>5, <3>1 DEF FramesType
    <3> QED BY <3>2, <3>3, <3>4 DEF TypeOK, ControlType, LocalsType, FramesType
  <2>5. Control'
    BY <1>3, <2>1 DEF IInv, Control
  <2>6. OneOwner'
    BY <1>3, <1>5, <2>1, <2>2, <2>3 DEF IInv, OneOwner
  <2>7. Leaked' = Leaked
    BY <1>4, <1>5, <2>1, <2>2, <2>3 DEF IInv, TypeOK, OneOwner, Leaked
  <2>8. LeakInv'
    BY <1>3, <2>1, <2>7 DEF IInv, LeakInv
  <2>9. Tracking'
    BY <1>3, <1>5, <2>1 DEF IInv, Tracking, TypeOK
  <2>10. SeenInv'
    BY <1>3, <1>5, <1>6, <2>1 DEF IInv, SeenInv, TypeOK
  <2>11. Explained'
    BY <1>3, <1>5, <2>1 DEF IInv, Explained
  <2> QED BY <2>4, <2>5, <2>6, <2>8, <2>9, <2>10, <2>11 DEF IInv
<1>7. CASE f \notin good
  <2>1. /\ test' = test + 1 /\ folio' = NULL /\ folios' = <<>> /\ ~errors'
        /\ errors' \in BOOLEAN /\ passes' = passes /\ fails' = fails + 1
        /\ step' = CASE test = 1 -> "kmalloc" [] test = 6 -> "loaded" [] OTHER -> "alloc"
    BY <1>1, <1>7 DEF Return
  <2>2. Allocated' = {} /\ Tracked' = {} /\ Tracked = {}
    BY <1>4, <2>1, NothingTracked DEF Allocated, Tracked
  <2>3. test \in {1, 3, 4, 5, 6} /\ fails \in Nat /\ passes \in Nat
    BY DEF IInv, Control
  <2>4. TypeOK'
    <3>1. ControlType /\ LocalsType /\ FramesType
      BY TypeParts DEF IInv
    <3>2. ControlType'
      BY <1>3, <2>1, <2>3, <3>1 DEF ControlType
    <3>3. LocalsType'
      BY <2>1 DEF LocalsType
    <3>4. FramesType'
      BY <1>2, <1>3, <1>5, <2>3, <3>1 DEF FramesType
    <3> QED BY <3>2, <3>3, <3>4 DEF TypeOK, ControlType, LocalsType, FramesType
  <2>5. Control'
    BY <1>3, <2>1, <2>3 DEF IInv, Control
  <2>6. OneOwner'
    BY <1>2, <1>3, <1>5, <2>1, <2>2, <2>3 DEF IInv, OneOwner
  <2>7. Leaked' = held' \ {NULL} /\ Leaked = held \ {NULL}
    BY <1>4, <2>1, <2>2 DEF Leaked
  <2>8. LeakInv'
    <3>1. Leaked' = Leaked \cup {f} \/ Leaked' = Leaked
      BY <1>5, <2>7
    <3>2. IsFiniteSet(Leaked') /\ Cardinality(Leaked') <= fails'
      BY <2>1, <2>3, <3>1, OneMoreLeak DEF IInv
    <3>3. defects' = {} => Leaked' = {}
      BY <1>2, <1>3, <1>5, <1>7, <2>7 DEF IInv, LeakInv
    <3> QED BY <3>2, <3>3 DEF LeakInv
  <2>9. Tracking'
    BY <1>3, <1>5, <2>1, <2>3 DEF IInv, Tracking, TypeOK
  <2>10. SeenInv'
    BY <2>1, <2>3 DEF SeenInv
  <2>11. Explained'
    <3>1. defects' = {} => f = NULL
      BY <1>2, <1>3, <1>7
    <3>2. <<test, f>> \in seen' /\ <<test, f>>[2] = f
      BY <1>5
    <3> QED BY <3>1, <3>2 DEF Explained
  <2> QED BY <2>4, <2>5, <2>6, <2>8, <2>9, <2>10, <2>11 DEF IInv
<1> QED BY <1>6, <1>7

(* Each of the five places with that shape accepts what its test is about. *)
LEMMA ExpectingTestsKeepIInv ==
  ASSUME IInv,
         \/ SinglePage \/ WriteThenRead \/ KernelAllocAvoidsLtram
         \/ HighuserAllocAvoidsLtram \/ ReallocSecond
  PROVE  IInv'
<1>1. CASE SinglePage
  BY <1>1, AllocExpectKeepsIInv DEF SinglePage
<1>2. CASE WriteThenRead
  <2>1. defects = {} => \A f : Mapped(f) /\ ReadsBack(f)
    BY DEF Mapped, ReadsBack
  <2> QED BY <1>2, <2>1, AllocExpectKeepsIInv DEF WriteThenRead
<1>3. CASE KernelAllocAvoidsLtram
  BY <1>3, AllocExpectKeepsIInv DEF KernelAllocAvoidsLtram
<1>4. CASE HighuserAllocAvoidsLtram
  BY <1>4, AllocExpectKeepsIInv DEF HighuserAllocAvoidsLtram
<1>5. CASE ReallocSecond
  BY <1>5, AllocExpectKeepsIInv DEF ReallocSecond
<1> QED BY <1>1, <1>2, <1>3, <1>4, <1>5

(***************************************************************************)
(* The end of a test that passes: the folio is put, nothing is leaked, and *)
(* what was seen still tells the truth.                                    *)
(***************************************************************************)
LEMMA PutAndPassKeepsIInv ==
  ASSUME IInv, PutAndPass
  PROVE  IInv'
<1>1. /\ held' = held \ {folio} /\ free' \subseteq free \cup {folio}
      /\ UNCHANGED <<defects, bulk_count, others, seen>>
  BY DEF PutAndPass, Put
<1>2. /\ test' = test + 1 /\ folio' = NULL /\ folios' = <<>> /\ errors' = FALSE
      /\ passes' = passes + 1 /\ fails' = fails
      /\ step' = CASE test = 1 -> "kmalloc" [] test = 6 -> "loaded" [] OTHER -> "alloc"
  BY DEF PutAndPass, Return
<1>3. /\ test \in {1, 3, 4, 5, 6} /\ fails \in Nat /\ passes \in Nat
      /\ folios = <<>> /\ step = "put"
  BY DEF IInv, Control, PutAndPass
<1>4. Allocated' = {} /\ Tracked' = {} /\ Tracked = {}
  BY <1>2, <1>3, NothingTracked DEF Allocated, Tracked
<1>5. folio \in held /\ folio \in Frames
  BY <1>3 DEF IInv, OneOwner, TypeOK
<1>6. TypeOK'
  <2>1. ControlType /\ LocalsType /\ FramesType
    BY TypeParts DEF IInv
  <2>2. ControlType'
    BY <1>1, <1>2, <1>3, <2>1 DEF ControlType
  <2>3. LocalsType'
    BY <1>2, FreshLocalsType DEF LocalsType
  <2>4. FramesType'
    BY <1>1, <1>5, <2>1 DEF FramesType
  <2> QED BY <2>2, <2>3, <2>4 DEF TypeOK, ControlType, LocalsType, FramesType
<1>7. Control'
  BY <1>2, <1>3 DEF Control
<1>8. OneOwner'
  BY <1>1, <1>2, <1>3, <1>4, <1>5 DEF IInv, OneOwner
<1>9. LeakInv'
  <2>1. Leaked' = Leaked
    BY <1>1, <1>2, <1>4, <1>5 DEF Leaked, IInv, TypeOK
  <2> QED BY <1>1, <1>2, <2>1 DEF IInv, LeakInv
<1>10. Tracking'
  BY <1>1, <1>2, <1>3 DEF IInv, Tracking
<1>11. SeenInv'
  BY <1>1, <1>2, <1>3 DEF IInv, SeenInv, Tracking, TypeOK
<1>12. Explained'
  BY <1>1, <1>2 DEF IInv, Explained
<1> QED BY <1>6, <1>7, <1>8, <1>9, <1>10, <1>11, <1>12 DEF IInv

(* The tracking array is allocated, or test 2 fails without a folio. *)
LEMMA BulkStartKeepsIInv ==
  ASSUME IInv, BulkStart
  PROVE  IInv'
<1>1. UNCHANGED <<defects, bulk_count, free, held, others, seen>>
  BY DEF BulkStart
<1>2. /\ test = 2 /\ step = "kmalloc" /\ fails \in Nat /\ passes \in Nat
      /\ folio = NULL /\ folios = <<>> /\ errors = FALSE
  BY DEF IInv, Control, TypeOK, BulkStart
<1>3. ControlType /\ LocalsType /\ FramesType
  BY TypeParts DEF IInv
<1>4. folio' = NULL /\ folios' = <<>> /\ errors' = FALSE
  BY <1>2 DEF BulkStart, Return, locals
<1>5. Allocated' = {} /\ Tracked' = {} /\ Tracked = {}
  BY <1>2, <1>4, NothingTracked DEF Allocated, Tracked
<1>6. Leaked' = Leaked
  BY <1>1, <1>2, <1>4, <1>5 DEF Leaked
<1>7. LocalsType' /\ FramesType'
  <2>1. LocalsType'
    BY <1>4, FreshLocalsType DEF LocalsType
  <2>2. FramesType'
    BY <1>1, <1>3 DEF FramesType
  <2> QED BY <2>1, <2>2
<1>8. ASSUME bulk_count >= 0, Continue("bulk") PROVE IInv'
  <2>1. step' = "bulk" /\ UNCHANGED <<test, passes, fails>>
    BY <1>8 DEF Continue
  <2>2. TypeOK'
    BY <1>1, <1>3, <1>7, <2>1 DEF TypeOK, ControlType, LocalsType, FramesType
  <2>3. Control'
    BY <1>1, <1>2, <1>4, <1>8, <2>1 DEF Control
  <2>4. OneOwner'
    BY <1>1, <1>5, <2>1 DEF IInv, OneOwner
  <2>5. LeakInv'
    BY <1>1, <1>6, <2>1 DEF IInv, LeakInv
  <2>6. Tracking'
    BY <1>1, <1>2, <1>4, <2>1 DEF IInv, Tracking
  <2>7. SeenInv' /\ Explained'
    BY <1>1, <1>2, <2>1 DEF IInv, SeenInv, Explained
  <2> QED BY <2>2, <2>3, <2>4, <2>5, <2>6, <2>7 DEF IInv
<1>9. ASSUME bulk_count < 0 \/ "no_slab" \in defects, Return(FALSE) PROVE IInv'
  <2>1. test' = 3 /\ step' = "alloc" /\ passes' = passes /\ fails' = fails + 1
    BY <1>2, <1>9 DEF Return
  <2>2. TypeOK'
    BY <1>1, <1>2, <1>3, <1>7, <2>1 DEF TypeOK, ControlType, LocalsType, FramesType
  <2>3. Control'
    BY <1>2, <1>4, <2>1 DEF Control
  <2>4. OneOwner'
    BY <1>1, <1>5, <2>1 DEF IInv, OneOwner
  <2>5. LeakInv'
    <3>1. IsFiniteSet(Leaked') /\ Cardinality(Leaked') <= fails'
      BY <1>2, <1>6, <2>1, OneMoreLeak DEF IInv
    <3> QED BY <1>1, <1>6, <3>1 DEF IInv, LeakInv
  <2>6. Tracking' /\ SeenInv'
    BY <1>1, <1>2, <1>4, <2>1 DEF Tracking, SeenInv
  <2>7. Explained'
    BY <1>1, <1>9 DEF Explained
  <2> QED BY <2>2, <2>3, <2>4, <2>5, <2>6, <2>7 DEF IInv
<1> QED BY <1>8, <1>9 DEF BulkStart

(***************************************************************************)
(* One turn of the loop of test 2: the folio is held and tracked, and the  *)
(* results seen are those in the tracking array.                           *)
(***************************************************************************)
LEMMA BulkAllocKeepsIInv ==
  ASSUME IInv, BulkAlloc
  PROVE  IInv'
<1>1. /\ test = 2 /\ step = "bulk" /\ Len(folios) < bulk_count
      /\ UNCHANGED <<defects, bulk_count, test, step, folio, others, passes, fails>>
  BY DEF BulkAlloc
<1>2. PICK f \in Alloc(2) :
        Taken(f) /\ folios' = Append(folios, f) /\ errors' = (errors \/ f \in DramFrames)
  BY DEF BulkAlloc
<1>3. /\ f \in free \/ f = NULL
      /\ f \in Frames \cup {NULL}
      /\ defects = {} => f \in LtFrames \cup {NULL}
  BY AllocGives DEF IInv
<1>4. free' = free \ {f} /\ held' = held \cup ({f} \ {NULL}) /\ seen' = seen \cup {<<2, f>>}
  BY <1>1, <1>2 DEF Taken
<1>5. ControlType /\ LocalsType /\ FramesType
  BY TypeParts DEF IInv
<1> DEFINE n == Len(folios)
<1>6. /\ n \in Nat /\ DOMAIN folios = 1 .. n /\ DOMAIN folios' = 1 .. n + 1
      /\ folios'[n + 1] = f /\ \A i \in 1 .. n : folios'[i] = folios[i]
      /\ folios' \in Seq(Frames \cup {NULL}) /\ Len(folios') = n + 1
  BY <1>2, <1>3, <1>5 DEF LocalsType
<1> HIDE DEF n
<1>7. Allocated' = Allocated \cup (IF f = NULL THEN {} ELSE {n + 1})
  BY <1>6 DEF Allocated
<1>8. \A i \in Allocated : i \in 1 .. n /\ folios[i] \in held
  BY <1>6 DEF IInv, OneOwner, Allocated
<1>9. TypeOK'
  <2>1. errors' \in BOOLEAN
    BY <1>2, Zenon
  <2>2. LocalsType'
    BY <1>1, <1>5, <1>6, <2>1 DEF LocalsType
  <2>3. ControlType'
    BY <1>1, <1>5 DEF ControlType
  <2>4. FramesType'
    BY <1>1, <1>3, <1>4, <1>5 DEF FramesType
  <2> QED BY <2>2, <2>3, <2>4 DEF TypeOK, ControlType, LocalsType, FramesType
<1>10. Control'
  <2>1. Len(folios') <= bulk_count
    BY <1>1, <1>5, <1>6 DEF n, ControlType
  <2> QED BY <1>1, <2>1 DEF IInv, Control
<1>11. OneOwner'
  <2>1. free' \cap held' = {} /\ free' \cap others' = {} /\ held' \cap others' = {}
    BY <1>1, <1>3, <1>4, <1>5 DEF IInv, OneOwner, FramesType
  <2>2. \A i \in Allocated' : folios'[i] \in held'
    BY <1>4, <1>6, <1>7, <1>8
  <2>3. \A i, j \in Allocated' : i # j => folios'[i] # folios'[j]
    <3>1. f # NULL => f \notin held
      BY <1>3 DEF IInv, OneOwner
    <3>2. \A i \in Allocated : folios'[i] = folios[i] /\ folios[i] \in held
      BY <1>6, <1>8
    <3> QED BY <1>6, <1>7, <3>1, <3>2 DEF IInv, OneOwner
  <2> QED BY <1>1, <2>1, <2>2, <2>3 DEF OneOwner
<1>12. LeakInv'
  <2>1. Tracked' = Tracked \cup ({f} \ {NULL})
    BY <1>6, <1>7, <1>8 DEF Tracked
  <2>2. f = NULL \/ f \notin held
    BY <1>3 DEF IInv, OneOwner
  <2>3. Leaked' = Leaked
    BY <1>1, <1>4, <2>1, <2>2 DEF Leaked
  <2> QED BY <1>1, <2>3 DEF IInv, LeakInv
<1>13. Tracking'
  <2>1. ASSUME NEW i \in 1 .. n + 1 PROVE <<2, folios'[i]>> \in seen'
    <3>1. CASE i = n + 1
      BY <1>4, <1>6, <3>1
    <3>2. CASE i \in 1 .. n
      <4>1. <<2, folios[i]>> \in seen
        BY <1>1, <1>6, <3>2 DEF IInv, Tracking
      <4> QED BY <1>4, <1>6, <3>2, <4>1
    <3> QED BY <1>6, <3>1, <3>2
  <2>2. ASSUME NEW x \in seen', x[1] = 2
        PROVE  \E i \in 1 .. n + 1 : folios'[i] = x[2]
    <3>1. CASE x = <<2, f>>
      BY <1>6, <3>1
    <3>2. CASE x \in seen
      <4>1. PICK i \in 1 .. n : folios[i] = x[2]
        BY <1>1, <1>6, <2>2, <3>2 DEF IInv, Tracking
      <4> QED BY <1>6, <4>1
    <3> QED BY <1>4, <3>1, <3>2
  <2>3. errors' <=> \E i \in 1 .. n + 1 : folios'[i] \in DramFrames
    <3>1. errors <=> \E i \in 1 .. n : folios[i] \in DramFrames
      BY <1>1, <1>6 DEF IInv, Tracking
    <3>2. (\E i \in 1 .. n + 1 : folios'[i] \in DramFrames)
            <=> (\E i \in 1 .. n : folios[i] \in DramFrames) \/ f \in DramFrames
      BY <1>6
    <3> QED BY <1>2, <3>1, <3>2, Zenon
  <2>4. defects = {} => ~errors'
    <3>1. defects = {} => ~errors /\ f \notin DramFrames
      BY <1>3 DEF IInv, Tracking
    <3> QED BY <1>2, <3>1, Zenon
  <2> QED BY <1>1, <1>6, <2>1, <2>2, <2>3, <2>4 DEF Tracking
<1>14. SeenInv'
  BY <1>1, <1>4 DEF IInv, SeenInv, TypeOK
<1>15. Explained'
  BY <1>1, <1>4 DEF IInv, Explained
<1> QED BY <1>9, <1>10, <1>11, <1>12, <1>13, <1>14, <1>15 DEF IInv

(***************************************************************************)
(* The end of test 2: every tracked folio is put whatever the outcome; the *)
(* test passes when all of them were there and none was misplaced.         *)
(***************************************************************************)
LEMMA BulkFinishKeepsIInv ==
  ASSUME IInv, BulkFinish
  PROVE  IInv'
<1> DEFINE ok == Cardinality(Allocated) = bulk_count /\ ~errors
<1>1. /\ test = 2 /\ step = "bulk" /\ Len(folios) = bulk_count
      /\ UNCHANGED <<defects, bulk_count, others, seen>>
      /\ held' = held \ Tracked /\ free' \subseteq free \cup Tracked
  BY DEF BulkFinish, Put, Tracked
<1>2. /\ test' = 3 /\ step' = "alloc" /\ folio' = NULL /\ folios' = <<>> /\ errors' = FALSE
      /\ passes' = IF ok THEN passes + 1 ELSE passes
      /\ fails' = IF ok THEN fails ELSE fails + 1
  BY DEF BulkFinish, Return
<1>3. /\ fails \in Nat /\ passes \in Nat /\ folio = NULL
      /\ ControlType /\ LocalsType /\ FramesType
  BY <1>1, TypeParts DEF IInv, Control
<1>4. Tracked \subseteq held
  BY DEF IInv, OneOwner, Tracked
<1>5. Allocated' = {} /\ Tracked' = {}
  BY <1>2, NothingTracked DEF Allocated, Tracked
<1>6. /\ DOMAIN folios = 1 .. bulk_count /\ bulk_count \in Nat
      /\ \A i \in 1 .. bulk_count : folios[i] \in Frames \cup {NULL}
  BY <1>1, <1>3 DEF LocalsType
<1>7. ok <=> \A i \in 1 .. bulk_count : folios[i] \in LtFrames
  <2>1. Cardinality(1 .. bulk_count) = bulk_count /\ IsFiniteSet(1 .. bulk_count)
    BY <1>6, FS_Interval
  <2>2. Allocated \subseteq 1 .. bulk_count
    BY <1>6 DEF Allocated
  <2>3. Cardinality(Allocated) = bulk_count <=> Allocated = 1 .. bulk_count
    BY <2>1, <2>2, FS_Subset
  <2>4. Allocated = 1 .. bulk_count <=> \A i \in 1 .. bulk_count : folios[i] # NULL
    BY <1>6 DEF Allocated
  <2>5. errors <=> \E i \in 1 .. bulk_count : folios[i] \in DramFrames
    BY <1>1, <1>6 DEF IInv, Tracking
  <2> QED BY <1>6, <2>3, <2>4, <2>5
<1>8. TypeOK'
  <2>1. ControlType'
    BY <1>1, <1>2, <1>3 DEF ControlType
  <2>2. LocalsType'
    BY <1>2, FreshLocalsType DEF LocalsType
  <2>3. FramesType'
    BY <1>1, <1>3, <1>4 DEF FramesType
  <2> QED BY <2>1, <2>2, <2>3 DEF TypeOK, ControlType, LocalsType, FramesType
<1>9. Control'
  BY <1>2, <1>3 DEF Control
<1>10. OneOwner'
  BY <1>1, <1>2, <1>4, <1>5 DEF IInv, OneOwner
<1>11. LeakInv'
  <2>1. Leaked' = Leaked
    BY <1>1, <1>2, <1>3, <1>5 DEF Leaked
  <2>2. CASE ok
    BY <1>1, <1>2, <2>1, <2>2 DEF IInv, LeakInv
  <2>3. CASE ~ok
    <3>1. IsFiniteSet(Leaked') /\ Cardinality(Leaked') <= fails'
      BY <1>2, <1>3, <2>1, <2>3, OneMoreLeak DEF IInv
    <3> QED BY <1>1, <2>1, <3>1 DEF IInv, LeakInv
  <2> QED BY <2>2, <2>3
<1>12. Tracking'
  BY <1>1, <1>2 DEF Tracking
<1>13. SeenInv'
  <2> SUFFICES ASSUME fails' = 0 PROVE SeenInv'
    BY DEF SeenInv
  <2>1. ok /\ fails = 0
    BY <1>2, <1>3
  <2>2. \A x \in seen : x[1] = 2 => x[2] \in LtFrames
    BY <1>1, <1>6, <1>7, <2>1 DEF IInv, Tracking
  <2> QED BY <1>1, <1>2, <2>1, <2>2 DEF IInv, SeenInv
<1>14. Explained'
  <2>1. CASE ok
    BY <1>1, <1>2, <2>1 DEF IInv, Explained
  <2>2. CASE ~ok /\ defects = {}
    <3>1. ~errors
      BY <2>2 DEF IInv, Tracking
    <3>2. PICK i \in 1 .. bulk_count : folios[i] \notin LtFrames
      BY <1>7, <2>2
    <3>3. folios[i] \notin DramFrames
      BY <1>1, <1>6, <3>1 DEF IInv, Tracking
    <3>4. <<2, NULL>> \in seen
      BY <1>1, <1>6, <3>2, <3>3 DEF IInv, Tracking
    <3> QED BY <1>1, <3>4 DEF Explained
  <2> QED BY <1>1, <2>1, <2>2 DEF Explained
<1> QED BY <1>8, <1>9, <1>10, <1>11, <1>12, <1>13, <1>14 DEF IInv

(* The first half of test 6: a folio from anywhere, or none. *)
LEMMA ReallocFirstKeepsIInv ==
  ASSUME IInv, ReallocFirst
  PROVE  IInv'
<1>1. PICK f \in Alloc(6) :
        /\ Taken(f)
        /\ IF f # NULL
             THEN /\ Continue(IF Mapped(f) THEN "put1" ELSE "oops")
                  /\ folio' = f /\ UNCHANGED <<folios, errors>>
             ELSE Return(FALSE)
  BY DEF ReallocFirst
<1>2. (f \in free \/ f = NULL) /\ f \in Frames \cup {NULL}
  BY AllocGives DEF IInv
<1>3. UNCHANGED <<defects, bulk_count, others>> /\ test = 6 /\ step = "alloc"
  BY DEF ReallocFirst
<1>4. folio = NULL /\ folios = <<>> /\ ~errors /\ fails \in Nat /\ passes \in Nat
  BY <1>3 DEF IInv, Control
<1>5. free' = free \ {f} /\ held' = held \cup ({f} \ {NULL}) /\ seen' = seen \cup {<<6, f>>}
  BY <1>1, <1>3 DEF Taken
<1>6. ControlType /\ LocalsType /\ FramesType
  BY TypeParts DEF IInv
<1>7. FramesType'
  BY <1>2, <1>3, <1>5, <1>6 DEF FramesType
<1>8. CASE f # NULL
  <2>1. /\ test' = 6 /\ step' \in {"put1", "oops"} /\ folio' = f
        /\ UNCHANGED <<folios, errors, passes, fails>>
    BY <1>1, <1>3, <1>8 DEF Continue
  <2>2. Allocated' = {} /\ Tracked' = {} /\ Tracked = {}
    BY <1>4, <2>1, NothingTracked DEF Allocated, Tracked
  <2>3. TypeOK'
    <3>1. ControlType' /\ LocalsType'
      BY <1>2, <1>3, <1>6, <2>1 DEF ControlType, LocalsType
    <3> QED BY <1>7, <3>1 DEF TypeOK, ControlType, LocalsType, FramesType
  <2>4. Control'
    BY <1>3, <1>4, <2>1 DEF Control
  <2>5. OneOwner'
    BY <1>2, <1>3, <1>5, <1>8, <2>1, <2>2 DEF IInv, OneOwner
  <2>6. LeakInv'
    <3>1. Leaked' = Leaked
      BY <1>2, <1>4, <1>5, <1>6, <1>8, <2>1, <2>2 DEF IInv, OneOwner, Leaked, FramesType
    <3> QED BY <1>3, <2>1, <3>1 DEF IInv, LeakInv
  <2>7. Tracking'
    BY <1>3, <1>4, <2>1 DEF Tracking
  <2>8. SeenInv'
    BY <1>3, <1>5, <2>1 DEF IInv, SeenInv, TypeOK
  <2>9. Explained'
    BY <1>3, <1>5, <2>1 DEF IInv, Explained
  <2> QED BY <2>3, <2>4, <2>5, <2>6, <2>7, <2>8, <2>9 DEF IInv
<1>9. CASE f = NULL
  <2>1. /\ test' = 7 /\ step' = "loaded" /\ folio' = NULL /\ folios' = <<>>
        /\ errors' = FALSE /\ passes' = passes /\ fails' = fails + 1
    BY <1>1, <1>3, <1>9 DEF Return
  <2>2. Allocated' = {} /\ Tracked' = {} /\ Tracked = {}
    BY <1>4, <2>1, NothingTracked DEF Allocated, Tracked
  <2>3. TypeOK'
    <3>1. ControlType'
      BY <1>3, <1>4, <1>6, <2>1 DEF ControlType
    <3>2. LocalsType'
      BY <2>1, FreshLocalsType DEF LocalsType
    <3> QED BY <1>7, <3>1, <3>2 DEF TypeOK, ControlType, LocalsType, FramesType
  <2>4. Control'
    BY <1>4, <2>1 DEF Control
  <2>5. OneOwner'
    BY <1>3, <1>5, <1>9, <2>1, <2>2 DEF IInv, OneOwner
  <2>6. LeakInv'
    <3>1. Leaked' = Leaked
      BY <1>4, <1>5, <1>9, <2>1, <2>2 DEF Leaked
    <3>2. IsFiniteSet(Leaked') /\ Cardinality(Leaked') <= fails'
      BY <1>4, <2>1, <3>1, OneMoreLeak DEF IInv
    <3> QED BY <1>3, <3>1, <3>2 DEF IInv, LeakInv
  <2>7. Tracking' /\ SeenInv'
    BY <1>3, <1>4, <2>1 DEF Tracking, SeenInv
  <2>8. Explained'
    <3>1. <<6, f>> \in seen' /\ <<6, f>>[2] = NULL
      BY <1>5, <1>9
    <3> QED BY <3>1 DEF Explained
  <2> QED BY <2>3, <2>4, <2>5, <2>6, <2>7, <2>8 DEF IInv
<1> QED BY <1>8, <1>9

(* The first folio of test 6 is put before the second is asked for. *)
LEMMA ReallocPutKeepsIInv ==
  ASSUME IInv, ReallocPut
  PROVE  IInv'
<1>1. /\ held' = held \ {folio} /\ free' \subseteq free \cup {folio}
      /\ UNCHANGED <<defects, bulk_count, folios, errors, others, seen>>
  BY DEF ReallocPut, Put
<1>2. /\ step = "put1" /\ step' = "realloc" /\ test = 6 /\ test' = 6
      /\ folio' = NULL /\ UNCHANGED <<passes, fails>>
  BY DEF ReallocPut, Continue
<1>3. folios = <<>> /\ ~errors /\ fails \in Nat /\ passes \in Nat
  BY <1>2 DEF IInv, Control
<1>4. Allocated' = {} /\ Tracked' = {} /\ Tracked = {}
  BY <1>1, <1>3, NothingTracked DEF Allocated, Tracked
<1>5. folio \in held /\ folio \in Frames
  BY <1>2 DEF IInv, OneOwner, TypeOK
<1>6. TypeOK'
  <2>1. ControlType /\ LocalsType /\ FramesType
    BY TypeParts DEF IInv
  <2>2. ControlType' /\ LocalsType'
    BY <1>1, <1>2, <2>1 DEF ControlType, LocalsType
  <2>3. FramesType'
    BY <1>1, <1>5, <2>1 DEF FramesType
  <2> QED BY <2>2, <2>3 DEF TypeOK, ControlType, LocalsType, FramesType
<1>7. Control'
  BY <1>1, <1>2, <1>3 DEF Control
<1>8. OneOwner'
  BY <1>1, <1>2, <1>4, <1>5 DEF IInv, OneOwner
<1>9. LeakInv'
  <2>1. Leaked' = Leaked
    BY <1>1, <1>2, <1>4, <1>5 DEF Leaked, IInv, TypeOK
  <2> QED BY <1>1, <1>2, <2>1 DEF IInv, LeakInv
<1>10. Tracking' /\ Explained'
  BY <1>1, <1>2, <1>3 DEF IInv, Tracking, Explained
<1>11. SeenInv'
  BY <1>1, <1>2 DEF IInv, SeenInv
<1> QED BY <1>6, <1>7, <1>8, <1>9, <1>10, <1>11 DEF IInv

(* rmmod changes nothing but where the module is. *)
LEMMA UnloadKeepsIInv ==
  ASSUME IInv, Unload
  PROVE  IInv'
<1>1. /\ UNCHANGED <<defects, bulk_count, folio, folios, errors>>
      /\ UNCHANGED <<free, held, others, passes, fails, seen>>
      /\ test = 7 /\ test' = 8 /\ step = "loaded" /\ step' = "unloaded"
  BY DEF Unload, locals, IInv, Control
<1>2. TypeOK'
  BY <1>1 DEF IInv, TypeOK
<1>3. Allocated' = Allocated /\ Leaked' = Leaked
  BY <1>1 DEF Allocated, Leaked, Tracked
<1>4. Control' /\ OneOwner' /\ LeakInv'
  BY <1>1, <1>3 DEF IInv, Control, OneOwner, LeakInv
<1>5. Tracking' /\ SeenInv' /\ Explained'
  BY <1>1 DEF IInv, Tracking, SeenInv, Explained
<1> QED BY <1>2, <1>4, <1>5 DEF IInv

(* The rest of the machine takes frames from, and returns them to, the free lists. *)
LEMMA OthersKeepIInv ==
  ASSUME IInv, OtherAlloc \/ OtherFree
  PROVE  IInv'
<1>1. /\ UNCHANGED <<defects, bulk_count, test, step, folio, folios, errors>>
      /\ UNCHANGED <<held, passes, fails, seen>>
  BY DEF OtherAlloc, OtherFree, locals
<1>2. \/ \E f \in free : others' = others \cup {f} /\ free' = free \ {f}
      \/ \E f \in others : others' = others \ {f} /\ free' = free \cup {f}
  BY DEF OtherAlloc, OtherFree
<1>3. TypeOK'
  <2>1. ControlType /\ LocalsType /\ FramesType
    BY TypeParts DEF IInv
  <2>2. ControlType' /\ LocalsType'
    BY <1>1, <2>1 DEF ControlType, LocalsType
  <2>3. FramesType'
    BY <1>1, <1>2, <2>1 DEF FramesType
  <2> QED BY <2>2, <2>3 DEF TypeOK, ControlType, LocalsType, FramesType
<1>4. Allocated' = Allocated /\ Leaked' = Leaked
  BY <1>1 DEF Allocated, Leaked, Tracked
<1>5. OneOwner'
  BY <1>1, <1>2, <1>4 DEF IInv, OneOwner
<1>6. Control' /\ LeakInv'
  BY <1>1, <1>4 DEF IInv, Control, LeakInv
<1>7. Tracking' /\ SeenInv' /\ Explained'
  BY <1>1 DEF IInv, Tracking, SeenInv, Explained
<1> QED BY <1>3, <1>5, <1>6, <1>7 DEF IInv

(* Every step of the module and of the rest of the machine. *)
LEMMA NextKeepsIInv == IInv /\ [Next]_vars => IInv'
<1> SUFFICES ASSUME IInv, [Next]_vars PROVE IInv'
  OBVIOUS
<1>1. CASE ltram_smoketest_init
  BY <1>1, ExpectingTestsKeepIInv, PutAndPassKeepsIInv, BulkStartKeepsIInv,
     BulkAllocKeepsIInv, BulkFinishKeepsIInv, ReallocFirstKeepsIInv,
     ReallocPutKeepsIInv
  DEF ltram_smoketest_init
<1>2. CASE Unload \/ OtherAlloc \/ OtherFree
  BY <1>2, UnloadKeepsIInv, OthersKeepIInv
<1>3. CASE UNCHANGED vars
  <2>1. Allocated' = Allocated /\ Leaked' = Leaked
    BY <1>3 DEF vars, locals, Allocated, Leaked, Tracked
  <2>2. TypeOK' /\ Control' /\ OneOwner' /\ LeakInv'
    BY <1>3, <2>1 DEF vars, locals, IInv, TypeOK, Control, OneOwner, LeakInv
  <2>3. Tracking' /\ SeenInv' /\ Explained'
    BY <1>3 DEF vars, locals, IInv, Tracking, SeenInv, Explained
  <2> QED BY <2>2, <2>3 DEF IInv
<1> QED BY <1>1, <1>2, <1>3 DEF Next

(* The inductive invariant holds in every reachable state. *)
LEMMA IInvHolds == Spec => []IInv
<1>1. IInv /\ [Next]_vars => IInv'
  BY NextKeepsIInv
<1> QED BY InitIInv, <1>1, PTL DEF Spec

(* Every variable of the model keeps its type. *)
THEOREM TypeCorrect == Spec => []TypeOK
<1>1. IInv => TypeOK
  BY DEF IInv
<1> QED BY IInvHolds, <1>1, PTL

(***************************************************************************)
(* A frame has one owner: no test uses or puts a folio that is free or     *)
(* that somebody else was given, and test 2 never tracks a folio twice.    *)
(***************************************************************************)
THEOREM FramesHaveOneOwner == Spec => []OneOwner
<1>1. IInv => OneOwner
  BY DEF IInv
<1> QED BY IInvHolds, <1>1, PTL

(***************************************************************************)
(* The early returns of EXPECT leak at most one folio per failed test, for *)
(* any bulk_count: test 2 always puts all of its folios.                   *)
(***************************************************************************)
THEOREM LeakIsBounded == Spec => []LeakBoundedByFails
<1>1. IInv => LeakBoundedByFails
  BY DEF IInv, LeakInv, Leaked, Tracked, LeakBoundedByFails
<1> QED BY IInvHolds, <1>1, PTL

(* What folio_alloc() gives a request with __GFP_LTRAM without a fallback. *)
LEMMA NoFallbackGives ==
  ASSUME NEW t \in {1, 2, 3, 6}, NEW f \in Alloc(t), "falls_back" \notin defects
  PROVE  f \in LtFrames \cup {NULL}
BY DEF Alloc, Zones

(* Nothing has been seen at first. *)
LEMMA InitWritten == Init => WrittenInv
BY DEF Init, WrittenInv, NoFallback, Written

(* A step adds to what was seen at most the folio that was just allocated. *)
LEMMA SeenGrows ==
  ASSUME IInv, [Next]_vars
  PROVE  /\ defects' = defects
         /\ \/ seen' = seen
            \/ \E f \in Alloc(test) : seen' = seen \cup {<<test, f>>}
BY DEF Next, ltram_smoketest_init, SinglePage, BulkStart, BulkAlloc, BulkFinish, WriteThenRead,
       KernelAllocAvoidsLtram, HighuserAllocAvoidsLtram, ReallocFirst, ReallocPut,
       ReallocSecond, PutAndPass, AllocExpect, Taken, Unload, OtherAlloc, OtherFree, vars

(* A kernel that does not fall back serves every LtRAM request from LtRAM. *)
LEMMA NextKeepsNoFallback ==
  ASSUME IInv, NoFallback, [Next]_vars
  PROVE  NoFallback'
<1> SUFFICES ASSUME "falls_back" \notin defects, NEW x \in seen', x[1] \in {1, 2, 3, 6}
             PROVE  x[2] \in LtFrames \cup {NULL}
  BY SeenGrows DEF NoFallback
<1>1. CASE x \in seen
  BY <1>1 DEF NoFallback
<1>2. CASE x \notin seen
  <2>1. PICK f \in Alloc(test) : x = <<test, f>>
    BY <1>2, SeenGrows
  <2> QED BY <2>1, NoFallbackGives
<1> QED BY <1>1, <1>2

(* What the tests that write know of their folios, step by step. *)
LEMMA AllocExpectKeepsWritten ==
  ASSUME IInv, Written, fails = 0, fails' = 0, NEW good \in SUBSET Frames, AllocExpect(good),
         \/ test \in {1, 3, 4, 5} /\ step = "alloc"
         \/ test = 6 /\ step = "realloc",
         test = 3 => \A f \in good : Usable(f)
  PROVE  Written'
<1>1. PICK f \in Alloc(test) :
        /\ Taken(f)
        /\ IF f \in good
             THEN Continue("put") /\ folio' = f /\ UNCHANGED <<folios, errors>>
             ELSE Return(FALSE)
  BY DEF AllocExpect
<1>2. f \in good
  BY <1>1 DEF Return
<1>3. /\ test' = test /\ step' = "put" /\ folio' = f /\ defects' = defects
      /\ seen' = seen \cup {<<test, f>>} /\ f \in Frames
  BY <1>1, <1>2 DEF AllocExpect, Continue, Taken
<1>4. /\ \A g : Usable(g)' <=> Usable(g)
      /\ \A g : Mapped(g)' <=> Mapped(g)
  BY <1>3 DEF Usable, Mapped, ReadsBack
<1>5. Usable(folio)' <=> Usable(f)
  BY <1>3 DEF Usable, Mapped, ReadsBack
<1>6. ASSUME NEW x \in seen'
      PROVE  (x[1] = 3 => Usable(x[2])) /\ (x[1] = 6 => x[2] \in Frames)
  <2>1. CASE x \in seen
    BY <2>1 DEF Written
  <2>2. CASE x = <<test, f>>
    BY <1>2, <1>3, <2>2
  <2> QED BY <1>3, <2>1, <2>2
<1>7. test = 3 => <<3, f>> \in seen' /\ Usable(f)
  BY <1>2, <1>3
<1>8. test > 3 => \E g : <<3, g>> \in seen' /\ Usable(g)
  BY <1>3 DEF Written
<1>9. test = 6 => \E g \in Frames : <<6, g>> \in seen' /\ Mapped(g)
  BY <1>3 DEF Written
<1>10. test \in {1, 3, 4, 5, 6}
  OBVIOUS
<1> QED BY <1>3, <1>4, <1>5, <1>6, <1>7, <1>8, <1>9, <1>10 DEF Written

(* The other steps of an unfailed run. *)
LEMMA NextKeepsWritten ==
  ASSUME IInv, Written, fails = 0, fails' = 0, [Next]_vars
  PROVE  Written'
<1>1. CASE SinglePage \/ KernelAllocAvoidsLtram \/ HighuserAllocAvoidsLtram \/ ReallocSecond
  BY <1>1, AllocExpectKeepsWritten
  DEF SinglePage, KernelAllocAvoidsLtram, HighuserAllocAvoidsLtram, ReallocSecond
<1>2. CASE WriteThenRead
  <2> DEFINE good == {f \in Frames : Mapped(f) /\ ReadsBack(f)}
  <2>1. good \in SUBSET Frames /\ \A f \in good : Usable(f)
    BY DEF Usable
  <2>2. test = 3 /\ step = "alloc" /\ AllocExpect(good)
    BY <1>2 DEF WriteThenRead
  <2> HIDE DEF good
  <2> QED BY <2>1, <2>2, AllocExpectKeepsWritten
<1>3. CASE PutAndPass
  <2>1. /\ test' = test + 1 /\ UNCHANGED <<defects, seen>> /\ step = "put"
        /\ step' = CASE test = 1 -> "kmalloc" [] test = 6 -> "loaded" [] OTHER -> "alloc"
        /\ test \in {1, 3, 4, 5, 6}
    BY <1>3 DEF PutAndPass, Return
  <2>2. step' \in {"kmalloc", "loaded", "alloc"}
    BY <2>1
  <2>3. /\ \A g : Usable(g)' <=> Usable(g)
        /\ \A g : Mapped(g)' <=> Mapped(g)
    BY <2>1 DEF Usable, Mapped, ReadsBack
  <2>4. test' > 3 => \E g : <<3, g>> \in seen /\ Usable(g)
    BY <2>1 DEF Written
  <2>5. test' > 6 => \E g \in Frames : <<6, g>> \in seen /\ Mapped(g)
    BY <2>1 DEF Written
  <2>6. test' # 6 \/ step' = "alloc"
    BY <2>1
  <2> QED BY <2>1, <2>2, <2>3, <2>4, <2>5, <2>6 DEF Written
<1>4. CASE BulkStart \/ BulkAlloc \/ BulkFinish
  <2>1. /\ test = 2 /\ test' \in {2, 3} /\ step' # "put" /\ defects' = defects
        /\ \A x \in seen' : x \in seen \/ x[1] = 2
    BY <1>4 DEF BulkStart, BulkAlloc, BulkFinish, Return, Continue, Taken
  <2>2. \A g : Usable(g)' <=> Usable(g)
    BY <2>1 DEF Usable, Mapped, ReadsBack
  <2> QED BY <2>1, <2>2 DEF Written
<1>5. CASE ReallocFirst
  <2>1. PICK f \in Alloc(6) :
          /\ Taken(f)
          /\ IF f # NULL
               THEN /\ Continue(IF Mapped(f) THEN "put1" ELSE "oops")
                    /\ folio' = f /\ UNCHANGED <<folios, errors>>
               ELSE Return(FALSE)
    BY <1>5 DEF ReallocFirst
  <2>2. f # NULL /\ f \in Frames
    <3>1. f # NULL
      BY <2>1 DEF Return
    <3> QED BY <3>1, AllocGives DEF IInv
  <2>3. /\ test = 6 /\ test' = 6 /\ folio' = f /\ defects' = defects
        /\ seen' = seen \cup {<<6, f>>}
        /\ step' = IF Mapped(f) THEN "put1" ELSE "oops"
    BY <1>5, <2>1, <2>2 DEF ReallocFirst, Continue, Taken
  <2>4. /\ \A g : Usable(g)' <=> Usable(g)
        /\ \A g : Mapped(g)' <=> Mapped(g)
        /\ Mapped(folio)' <=> Mapped(f)
    BY <2>3 DEF Usable, Mapped, ReadsBack
  <2>5. ASSUME NEW x \in seen'
        PROVE  (x[1] = 3 => Usable(x[2])) /\ (x[1] = 6 => x[2] \in Frames)
    <3>1. CASE x \in seen
      BY <3>1 DEF Written
    <3>2. CASE x = <<6, f>>
      BY <2>2, <3>2
    <3> QED BY <2>3, <2>5, <3>1, <3>2
  <2>6. \E g : <<3, g>> \in seen' /\ Usable(g)
    <3>1. test > 3
      BY <2>3
    <3>2. PICK g : <<3, g>> \in seen /\ Usable(g)
      BY <3>1 DEF Written
    <3> QED BY <2>3, <3>2
  <2>7. step' \notin {"put", "realloc"} /\ (step' = "put1" => Mapped(f))
    BY <2>3
  <2> QED BY <2>3, <2>4, <2>5, <2>6, <2>7 DEF Written
<1>6. CASE ReallocPut
  <2>1. /\ test = 6 /\ step = "put1" /\ test' = 6 /\ step' = "realloc"
        /\ UNCHANGED <<defects, seen>> /\ folio \in Frames
    BY <1>6 DEF ReallocPut, Continue, IInv, OneOwner, TypeOK
  <2>2. /\ \A g : Usable(g)' <=> Usable(g)
        /\ \A g : Mapped(g)' <=> Mapped(g)
    BY <2>1 DEF Usable, Mapped, ReadsBack
  <2> QED BY <2>1, <2>2 DEF Written
<1>7. CASE Unload
  <2>1. test = 7 /\ test' = 8 /\ UNCHANGED <<defects, seen>>
    BY <1>7 DEF Unload, IInv, Control
  <2>2. /\ \A g : Usable(g)' <=> Usable(g)
        /\ \A g : Mapped(g)' <=> Mapped(g)
    BY <2>1 DEF Usable, Mapped, ReadsBack
  <2> QED BY <2>1, <2>2 DEF Written
<1>8. CASE OtherAlloc \/ OtherFree \/ UNCHANGED vars
  <2>1. UNCHANGED <<test, step, folio, defects, seen>>
    BY <1>8 DEF OtherAlloc, OtherFree, vars, locals
  <2> QED BY <2>1 DEF Written, Usable, Mapped, ReadsBack
<1> QED BY <1>1, <1>2, <1>3, <1>4, <1>5, <1>6, <1>7, <1>8 DEF Next, ltram_smoketest_init

(* A test that failed is never forgotten. *)
LEMMA FailsGrow ==
  ASSUME IInv, [Next]_vars, fails' = 0
  PROVE  fails = 0
<1>1. fails \in Nat
  BY DEF IInv, Control
<1>2. fails' \in {fails, fails + 1}
  BY DEF Next, ltram_smoketest_init, SinglePage, BulkStart, BulkAlloc, BulkFinish, WriteThenRead,
         KernelAllocAvoidsLtram, HighuserAllocAvoidsLtram, ReallocFirst, ReallocPut,
         ReallocSecond, PutAndPass, AllocExpect, Return, Continue, Unload, OtherAlloc,
         OtherFree, vars
<1> QED BY <1>1, <1>2

(* What is known of the folios written to holds in every reachable state. *)
LEMMA WrittenHolds == Spec => []WrittenInv
<1>1. IInv /\ WrittenInv /\ [Next]_vars => WrittenInv'
  BY NextKeepsNoFallback, NextKeepsWritten, FailsGrow DEF WrittenInv
<1> QED BY InitWritten, IInvHolds, <1>1, PTL DEF Spec

(***************************************************************************)
(* What ALL TESTS PASSED lets one conclude, on a machine of any size and   *)
(* with any defects: the folios of tests 1, 2, 4 and 5 were on their side  *)
(* of the fence, the folio of test 3 was usable memory, and test 6 got     *)
(* LtRAM; LtRAM itself is usable when the kernel does not fall back.       *)
(***************************************************************************)
THEOREM VerdictIsSound == Spec => []VerdictSound
<1>1. IInv /\ WrittenInv => VerdictSound
  <2> SUFFICES ASSUME IInv, WrittenInv, AllTestsPassed
               PROVE  /\ \A x \in seen :
                           /\ x[2] # NULL
                           /\ x[1] \in {1, 2} => x[2] \in LtFrames
                           /\ x[1] = 3 => Mapped(x[2]) /\ ReadsBack(x[2])
                           /\ x[1] \in {4, 5} => x[2] \in DramFrames
                      /\ \E f \in Frames : <<6, f>> \in seen /\ Mapped(f)
                      /\ \E f \in LtFrames : <<6, f>> \in seen
                      /\ "falls_back" \notin defects => defects \cap {"bad_cells", "unmapped"} = {}
    BY DEF VerdictSound
  <2>1. fails = 0 /\ test > 6 /\ test > 2 /\ test > 3 /\ Written
    BY DEF AllTestsPassed, WrittenInv
  <2>2. ASSUME NEW x \in seen
        PROVE  /\ x[2] # NULL
               /\ x[1] \in {1, 2} => x[2] \in LtFrames
               /\ x[1] = 3 => Mapped(x[2]) /\ ReadsBack(x[2])
               /\ x[1] \in {4, 5} => x[2] \in DramFrames
    <3>1. /\ x[1] \in {1, 2} => x[2] \in LtFrames
          /\ x[1] \in {4, 5} => x[2] \in DramFrames
      BY <2>1, <2>2 DEF IInv, SeenInv
    <3>2. /\ x[1] = 3 => x[2] \in Frames /\ Mapped(x[2]) /\ ReadsBack(x[2])
          /\ x[1] = 6 => x[2] \in Frames
      BY <2>1, <2>2 DEF Written, Usable
    <3>3. x[1] \in {1, 2, 3, 4, 5, 6}
      BY <2>2 DEF IInv, TypeOK
    <3> QED BY <3>1, <3>2, <3>3
  <2>3. \E f \in LtFrames : <<6, f>> \in seen
    BY <2>1 DEF IInv, SeenInv
  <2>4. \E f \in Frames : <<6, f>> \in seen /\ Mapped(f)
    BY <2>1 DEF Written
  <2>5. ASSUME "falls_back" \notin defects
        PROVE  defects \cap {"bad_cells", "unmapped"} = {}
    <3>1. PICK f : <<3, f>> \in seen /\ Usable(f)
      BY <2>1 DEF Written
    <3>2. <<3, f>>[1] = 3 /\ <<3, f>>[2] = f
      OBVIOUS
    <3>3. f \in LtFrames
      BY <2>5, <3>1, <3>2 DEF WrittenInv, NoFallback, Usable
    <3> QED BY <3>1, <3>3 DEF Usable, Mapped, ReadsBack
  <2> QED BY <2>2, <2>3, <2>4, <2>5
<1> QED BY IInvHolds, WrittenHolds, <1>1, PTL

(***************************************************************************)
(* On a machine without defects a test fails only for want of a folio or   *)
(* because bulk_count is negative, and the module holds nothing when its   *)
(* tests are over.                                                         *)
(***************************************************************************)
THEOREM NoAlarmIsFalse == Spec => []NoFalseAlarm
<1>1. IInv => NoFalseAlarm
  <2> SUFFICES ASSUME IInv, defects = {}
               PROVE  /\ fails > 0 => bulk_count < 0 \/ \E x \in seen : x[2] = NULL
                      /\ Finished => held = {}
    BY DEF NoFalseAlarm
  <2>1. fails > 0 => bulk_count < 0 \/ \E x \in seen : x[2] = NULL
    BY DEF IInv, Explained
  <2>2. ASSUME Finished PROVE held = {}
    <3>1. folio = NULL /\ folios = <<>>
      BY <2>2 DEF IInv, Control
    <3>2. Leaked = held
      BY <3>1, NothingTracked DEF Leaked, IInv, TypeOK
    <3> QED BY <3>2 DEF IInv, LeakInv
  <2> QED BY <2>1, <2>2
<1> QED BY IInvHolds, <1>1, PTL

=============================================================================
