---------------------------- MODULE RecordStore ----------------------------
(***************************************************************************)
(* What core/db.h promises of a DB shared by several client threads: a     *)
(* record is a set of fields with values; a write that returns kOK has     *)
(* stored every field it was given, an insert that meets a field that is   *)
(* there already returns kErrorConflict, and an operation on a record that *)
(* is not there returns kErrorNoData.  Operations of different clients     *)
(* interleave field by field: no atomicity across fields is promised.      *)
(***************************************************************************)
EXTENDS Sequences

CONSTANTS
  Threads, Keys, Fields,
  Contents,     \* what a field may hold
  NULL,         \* a field that is not there, a client that is not calling
  FieldLists    \* the field vectors that clients pass

VARIABLES
  store,        \* content of each field of each record, NULL when absent
  present,      \* the records that exist
  call          \* the call each client is in, with the fields still to write

absVars == <<store, present, call>>

Writes == {"Update", "Insert"}

AbsInit(st, pr) ==
  /\ store = st /\ present = pr
  /\ call = [t \in Threads |-> NULL]

CallWrite(t, op, k, fs) ==
  /\ call[t] = NULL
  /\ call' = [call EXCEPT ![t] = [op |-> op, key |-> k, todo |-> fs]]
  /\ UNCHANGED <<store, present>>

(* The record comes into being before its first field is written. *)
Create(t) ==
  /\ call[t] # NULL /\ call[t].key \notin present
  /\ present' = present \cup {call[t].key}
  /\ UNCHANGED <<store, call>>

(* One field reaches the record. *)
WriteField(t) ==
  /\ call[t] # NULL /\ call[t].todo # <<>> /\ call[t].key \in present
  /\ LET f == Head(call[t].todo)
         k == call[t].key
     IN  /\ call[t].op = "Insert" => store[k][f] = NULL
         /\ store' = [store EXCEPT ![k][f] = t]
  /\ call' = [call EXCEPT ![t].todo = Tail(@)]
  /\ UNCHANGED present

ReturnOK(t) ==
  /\ call[t] # NULL /\ call[t].todo = <<>>
  /\ call' = [call EXCEPT ![t] = NULL]
  /\ UNCHANGED <<store, present>>

(* The field is there already: nothing more is written. *)
ReturnConflict(t) ==
  /\ call[t] # NULL /\ call[t].op = "Insert" /\ call[t].todo # <<>>
  /\ store[call[t].key][Head(call[t].todo)] # NULL
  /\ call' = [call EXCEPT ![t] = NULL]
  /\ UNCHANGED <<store, present>>

(* The record and all its fields go at once. *)
Remove(k) ==
  /\ k \in present
  /\ present' = present \ {k}
  /\ store' = [store EXCEPT ![k] = [f \in Fields |-> NULL]]
  /\ UNCHANGED call

AbsNext ==
  \/ \E t \in Threads : \/ \E op \in Writes, k \in Keys, fs \in FieldLists :
                             CallWrite(t, op, k, fs)
                        \/ Create(t) \/ WriteField(t)
                        \/ ReturnOK(t) \/ ReturnConflict(t)
  \/ \E k \in Keys : Remove(k)

=============================================================================
