--------------------------- MODULE MCHashtableDB ---------------------------
(* Model-checking instances of HashtableDB. *)
EXTENDS HashtableDB, TLC

CONSTANTS t1, t2, k1, k2, f1, f2

BothFields == <<f1, f2>>
Lists == {<<f2>>, <<f1, f2>>}

LoadFirst == t1 :> {k1} @@ t2 :> {}

(* Each thread keeps to its own record. *)
Own ==
  LET ops == {"Read", "Update", "Insert", "Delete"} IN
  [load |-> t1 :> {k1} @@ t2 :> {k2}, mix |-> t1 :> (ops \X {k1}) @@ t2 :> (ops \X {k2})]

(* Both threads write the record that one of them loaded. *)
Writers ==
  [load |-> LoadFirst, mix |-> [t \in Threads |-> {"Update", "Insert"} \X {k1}]]

(* One thread adds records, the other reads and scans them. *)
Reader ==
  [load |-> LoadFirst,
   mix |-> t1 :> ({"Insert"} \X Keys) @@ t2 :> ({"Read", "Scan"} \X Keys)]

SafeWorkloads == {Own, Writers, Reader}

(* They meet the hypotheses of the theorems about HashtableDB. *)
ASSUME WorkloadsApart == \A w \in SafeWorkloads : Separate(w) /\ Undisputed(w)

(* One thread reads the record the other one updates. *)
ReadUpdate ==
  {[load |-> LoadFirst, mix |-> t1 :> {<<"Update", k1>>} @@ t2 :> {<<"Read", k1>>}]}

Symmetry == Permutations(Strs) \cup Permutations(Tabs)
=============================================================================
