------------------------ MODULE HiredisReaderProofs -------------------------
(***************************************************************************)
(* Proofs about HiredisReader, however the bytes are cut and wherever      *)
(* redisReaderGetReply() is called.  TypeCorrect assumes nothing of what   *)
(* the server sends but that it is made of bytes; the theorems about the   *)
(* replies that come out assume that every message is Grammatical.         *)
(***************************************************************************)
EXTENDS HiredisReader, SequenceTheorems, WellFoundedInduction, TLAPS

(* A set of natural numbers that has members has a least one. *)
LEMMA Least ==
  ASSUME NEW S \in SUBSET Nat, S # {}
  PROVE  \E i \in S : \A j \in S : i <= j
<1>1. \E i \in S : \A j \in S : ~(j < i)
  <2>1. \E i \in S : \A j \in S : ~(<<j, i>> \in OpToRel(<, Nat))
    BY NatLessThanWellFounded, WFMin
  <2>2. QED  BY <2>1 DEF OpToRel
<1>2. QED  BY <1>1

(* What is fed, and the types of a task. *)
Bytes == [b : STRING, n : Int]
Types == {"none", "string", "array"} \cup LineTypes

(* A sequence of whatever is in it. *)
Sequence(s) == s \in Seq({s[i] : i \in 1 .. Len(s)})

(***************************************************************************)
(* What a sequence of unknown elements is; replies nest, so that no set    *)
(* holds them all.                                                         *)
(***************************************************************************)
LEMMA SequenceElim ==
  ASSUME NEW s, Sequence(s)
  PROVE  Len(s) \in Nat /\ DOMAIN s = 1 .. Len(s) /\ s = [i \in 1 .. Len(s) |-> s[i]]
         /\ (s = <<>> <=> Len(s) = 0)
  BY DEF Sequence

(* A function on 1 .. n is such a sequence. *)
LEMMA SequenceIntro ==
  ASSUME NEW n \in Nat, NEW s, s = [i \in 1 .. n |-> s[i]]
  PROVE  Sequence(s) /\ Len(s) = n
<1> DEFINE S == {s[i] : i \in 1 .. n}
<1>1. s \in [1 .. n -> S]
  OBVIOUS
<1>2. s \in Seq(S) /\ Len(s) = n
  BY <1>1
<1>3. QED  BY <1>2 DEF Sequence

(* The empty one, *)
LEMMA EmptySequence == Sequence(<<>>) /\ Len(<<>>) = 0
  BY DEF Sequence

(* those of one element, *)
LEMMA SingleSequence == \A o : Sequence(<<o>>) /\ Len(<<o>>) = 1 /\ <<o>>[1] = o
<1>1. \A o : <<o>> = [i \in 1 .. 1 |-> <<o>>[i]]
  OBVIOUS
<1>2. QED  BY <1>1, SequenceIntro

(* and what Append makes of one. *)
LEMMA Appended ==
  ASSUME NEW s, Sequence(s), NEW o
  PROVE  Sequence(Append(s, o)) /\ Len(Append(s, o)) = Len(s) + 1
<1> DEFINE S == {s[i] : i \in 1 .. Len(s)} \cup {o}
<1>1. s \in Seq(S)
  BY DEF Sequence
<1>2. /\ Append(s, o) \in Seq(S) /\ Len(Append(s, o)) = Len(s) + 1
      /\ \A i \in 1 .. Len(s) : Append(s, o)[i] = s[i]
      /\ Append(s, o)[Len(s) + 1] = o
  BY <1>1, AppendProperties
<1>3. {Append(s, o)[i] : i \in 1 .. Len(Append(s, o))} = S
  BY <1>1, <1>2
<1>4. QED  BY <1>2, <1>3 DEF Sequence

-----------------------------------------------------------------------------
(* An entry of rstack. *)
Task(t) ==
  /\ t = [type |-> t.type, elements |-> t.elements, idx |-> t.idx, done |-> t.done]
  /\ t.type \in Types /\ t.elements \in Int /\ t.idx \in Int /\ Sequence(t.done)

(* A stack of n entries. *)
Tasks(s, n) == Sequence(s) /\ Len(s) = n /\ \A i \in 1 .. n : Task(s[i])

(***************************************************************************)
(* Every entry but the last is an array that has room for the one above    *)
(* it, and as many elements done as that one's index says, with one more   *)
(* at the top when an item has just been completed.                        *)
(***************************************************************************)
Nested(s, n, more) ==
  \A i \in 2 .. n :
    /\ s[i - 1].type = "array"
    /\ s[i].idx \in 0 .. s[i - 1].elements - 1
    /\ Len(s[i - 1].done) = s[i].idx + (IF i = n THEN more ELSE 0)

(***************************************************************************)
(* The stack is a path of at most MaxDepth + 1 entries. An item that is    *)
(* still to be read has no elements, which is what an array needs to start *)
(* from 0.                                                                 *)
(***************************************************************************)
Stack ==
  \E n \in 0 .. MaxDepth + 1 :
    /\ Tasks(rstack, n)
    /\ Nested(rstack, n, IF at = "move" THEN 1 ELSE 0)
    /\ at = "move" => n > 0
    /\ at # "move" /\ n > 0 => rstack[n].done = <<>>

(* The cursor is inside the buffer. *)
Buffers ==
  /\ buf \in Seq(Bytes) /\ wire \in Seq(Bytes)
  /\ pos \in 0 .. Len(buf)

(* The other variables. *)
Rest ==
  /\ at \in {"caller", "process", "move"} /\ err \in BOOLEAN
  /\ last \in {"null", "reply", "error", "fed"} /\ Len(obj) <= 1

(* The inductive invariant. *)
RInv == Buffers /\ Rest /\ Stack

(* It implies the type invariant. *)
LEMMA ReaderInv == RInv => TypeOK
<1> SUFFICES ASSUME RInv PROVE TypeOK
  OBVIOUS
<1>1. PICK n \in 0 .. MaxDepth + 1 :
        Tasks(rstack, n) /\ Nested(rstack, n, IF at = "move" THEN 1 ELSE 0)
  BY DEF RInv, Stack
<1>2. Len(rstack) = n /\ DOMAIN rstack = 1 .. n /\ \A i \in 1 .. n : Task(rstack[i])
  BY <1>1, SequenceElim DEF Tasks
<1>3. \A i \in 1 .. n : rstack[i].type \in Types /\ rstack[i].idx \in Int
  BY <1>2 DEF Task
<1>4. StackIsPath
  BY <1>1, <1>2, <1>3 DEF Nested, StackIsPath
<1>5. Len(rstack) <= MaxDepth + 1
  BY <1>1, <1>2, BoundsAssumption
<1>6. QED  BY <1>2, <1>3, <1>4, <1>5 DEF RInv, Buffers, Rest, TypeOK, Types

(* The empty stack. *)
LEMMA NoTasks == Tasks(<<>>, 0) /\ \A more : Nested(<<>>, 0, more)
  BY EmptySequence DEF Tasks, Nested

(* It holds in a new reader. *)
LEMMA InitReader == Init => RInv
<1> SUFFICES ASSUME Init PROVE RInv
  OBVIOUS
<1>1. Buffers
  BY DEF Init, Buffers
<1>2. Rest
  <2>1. Len(obj) = 0
    BY EmptySequence DEF Init
  <2>2. at = "caller" /\ err = FALSE /\ last = "null"
    BY DEF Init
  <2>3. Len(obj) <= 1
    BY <2>1
  <2>4. QED  BY <2>2, <2>3, Zenon DEF Rest
<1>3. Stack
  BY NoTasks, BoundsAssumption DEF Init, Stack
<1>4. QED  BY <1>1, <1>2, <1>3 DEF RInv

(***************************************************************************)
(* seekNewline() returns a place inside the buffer, and readLongLong() a   *)
(* number.                                                                 *)
(***************************************************************************)
LEMMA LineFound ==
  ASSUME Buffers, HasLine
  PROVE  /\ LineEnd \in pos + 1 .. Len(buf) - 1
         /\ LineEnd + 1 \in 0 .. Len(buf)
         /\ ReadLongLong \in Int
<1>1. Newlines \in SUBSET Nat /\ Newlines \subseteq pos + 1 .. Len(buf) - 1 /\ Newlines # {}
  BY DEF Buffers, Newlines, HasLine
<1>2. \E i \in Newlines : \A j \in Newlines : i <= j
  BY <1>1, Least
<1>3. LineEnd \in Newlines
  BY <1>2 DEF LineEnd
<1>4. LineEnd \in pos + 1 .. Len(buf) - 1
  BY <1>1, <1>3
<1>5. PICK l \in Seq(Bytes) : l = Line
  <2>1. PICK e \in Int : e = LineEnd /\ e >= pos + 1 /\ e <= Len(buf) - 1
    BY <1>4 DEF Buffers
  <2>2. SubSeq(buf, pos + 1, e - 1) \in Seq(Bytes)
    BY <2>1, SubSeqProperties DEF Buffers
  <2>3. QED  BY <2>1, <2>2 DEF Line
<1>6. Digits \in Seq(Bytes)
  <2>1. l # <<>> => Tail(l) \in Seq(Bytes)
    OBVIOUS
  <2>2. QED  BY <1>5, <2>1 DEF Digits, Signed
<1>7. ReadLongLong \in Int
  <2>1. PICK c \in Seq(Bytes) : c = Digits
    BY <1>6
  <2>2. Len(c) = 1 => c[1] \in Bytes
    OBVIOUS
  <2>3. Len(c) = 1 => c[1].n \in Int
    BY <2>2 DEF Bytes
  <2>4. QED  BY <2>1, <2>3 DEF ReadLongLong
<1>8. QED  BY <1>4, <1>7 DEF Buffers

(* An object that is complete is put into its parent's array. *)
LEMMA Completed ==
  ASSUME NEW stack, NEW n \in 1 .. MaxDepth + 1, Tasks(stack, n), Nested(stack, n, 0),
         NEW o, Len(obj) <= 1, Complete(o, stack)
  PROVE  Stack' /\ Len(obj') <= 1 /\ at' = "move"
<1>1. at' = "move"
  BY DEF Complete
<1>2. /\ n \in Nat /\ n >= 1 /\ Sequence(stack) /\ Len(stack) = n /\ DOMAIN stack = 1 .. n
      /\ \A i \in 1 .. n : Task(stack[i])
  BY BoundsAssumption, SequenceElim DEF Tasks
<1>3. CASE n = 1
  <2>1. rstack' = stack /\ Len(obj') = 1
    BY <1>2, <1>3, SingleSequence DEF Complete
  <2>2. Nested(stack, n, 1)
    BY <1>3 DEF Nested
  <2>3. QED  BY <1>1, <1>3, <2>1, <2>2 DEF Stack
<1>4. CASE n # 1
  <2>1. n > 1 /\ n - 1 \in 1 .. n
    BY <1>2, <1>4
  <2>2. rstack' = [stack EXCEPT ![n - 1].done = Append(@, o)] /\ obj' = obj
    BY <1>2, <1>4 DEF Complete
  <2>3. PICK t : t = stack[n - 1]
    OBVIOUS
  <2>4. Task(t)
    BY <1>2, <2>1, <2>3
  <2>5. PICK d : d = Append(t.done, o)
    OBVIOUS
  <2>6. Sequence(d) /\ Len(d) = Len(t.done) + 1
    BY <2>4, <2>5, Appended DEF Task
  <2>7. /\ \A i \in 1 .. n : i # n - 1 => rstack'[i] = stack[i]
        /\ rstack'[n - 1] = [t EXCEPT !.done = d]
        /\ rstack' = [i \in 1 .. n |-> rstack'[i]]
    BY <1>2, <2>1, <2>2, <2>3, <2>5
  <2>8. PICK u : u = rstack'[n - 1]
    OBVIOUS
  <2>9. u.type = t.type /\ u.elements = t.elements /\ u.idx = t.idx /\ u.done = d
    BY <2>4, <2>7, <2>8 DEF Task
  <2>10. Task(u)
    BY <2>4, <2>6, <2>7, <2>8, <2>9 DEF Task
  <2>11. Tasks(rstack', n)
    <3>1. \A i \in 1 .. n : Task(rstack'[i])
      BY <1>2, <2>7, <2>8, <2>10
    <3>2. QED  BY <1>2, <2>7, <3>1, SequenceIntro DEF Tasks
  <2>12. Nested(rstack', n, 1)
    <3>1. ASSUME NEW i \in 2 .. n
          PROVE  /\ rstack'[i - 1].type = "array"
                 /\ rstack'[i].idx \in 0 .. rstack'[i - 1].elements - 1
                 /\ Len(rstack'[i - 1].done) = rstack'[i].idx + (IF i = n THEN 1 ELSE 0)
      <4>0. /\ stack[i - 1].type = "array"
            /\ stack[i].idx \in 0 .. stack[i - 1].elements - 1
            /\ Len(stack[i - 1].done) = stack[i].idx + (IF i = n THEN 0 ELSE 0)
        BY DEF Nested
      <4>1. stack[i].idx \in Int /\ Len(stack[i - 1].done) = stack[i].idx
        BY <1>2, <4>0 DEF Task
      <4>2. CASE i = n
        <5>1. rstack'[i] = stack[i] /\ t = stack[i - 1] /\ u = rstack'[i - 1]
          BY <2>1, <2>3, <2>7, <2>8, <4>2
        <5>2. QED  BY <2>6, <2>9, <4>0, <4>1, <4>2, <5>1
      <4>3. CASE i # n
        <5>1. rstack'[i - 1] = stack[i - 1] /\ rstack'[i].idx = stack[i].idx
          <6>1. i - 1 \in 1 .. n /\ i - 1 # n - 1
            BY <1>2, <4>3
          <6>2. CASE i = n - 1
            BY <2>3, <2>7, <2>8, <2>9, <6>1, <6>2
          <6>3. CASE i # n - 1
            BY <1>2, <2>7, <6>1, <6>3
          <6>4. QED  BY <6>2, <6>3
        <5>2. QED  BY <4>0, <4>1, <4>3, <5>1
      <4>4. QED  BY <4>2, <4>3
    <3>2. QED  BY <3>1 DEF Nested
  <2>13. QED  BY <1>1, <1>2, <2>2, <2>11, <2>12 DEF Stack
<1>5. QED  BY <1>3, <1>4

(* The stack while items are read. *)
LEMMA Processing ==
  ASSUME RInv, at = "process", rstack # <<>>
  PROVE  \E n \in 1 .. MaxDepth + 1 :
           /\ n = Len(rstack) /\ Tasks(rstack, n) /\ Nested(rstack, n, 0)
           /\ rstack[n].done = <<>>
<1>1. PICK n \in 0 .. MaxDepth + 1 :
        /\ Tasks(rstack, n) /\ Nested(rstack, n, 0)
        /\ n > 0 => rstack[n].done = <<>>
  BY DEF RInv, Stack
<1>2. n = Len(rstack) /\ n # 0
  BY <1>1, SequenceElim DEF Tasks
<1>3. QED  BY <1>1, <1>2, BoundsAssumption

(* __redisReaderSetError() empties everything. *)
LEMMA Errors ==
  ASSUME RInv, SetError
  PROVE  RInv'
<1>1. Buffers'
  BY DEF RInv, Buffers, SetError
<1>2. Rest'
  <2>1. Len(obj') = 0
    BY EmptySequence DEF SetError
  <2>2. QED  BY <2>1 DEF SetError, Rest
<1>3. Stack'
  BY NoTasks, BoundsAssumption DEF SetError, Stack
<1>4. QED  BY <1>1, <1>2, <1>3 DEF RInv

(* The stack is left alone between calls. *)
LEMMA Waiting ==
  ASSUME Stack, rstack' = rstack, at # "move", at' # "move"
  PROVE  Stack'
  BY DEF Stack

(* The server and the caller keep the invariant. *)
LEMMA CallerSteps ==
  ASSUME RInv, Caller
  PROVE  RInv'
<1>1. ASSUME NEW m \in Messages, Send(m) PROVE RInv'
  <2>1. wire' \in Seq(Bytes)
    BY <1>1, MessagesAssumption DEF Send, RInv, Buffers, Bytes
  <2>2. QED  BY <1>1, <2>1 DEF Send, RInv, Buffers, Rest, Stack
<1>2. ASSUME NEW n \in 1 .. Len(wire), Feed(n) PROVE RInv'
  <2>1. wire \in Seq(Bytes) /\ buf \in Seq(Bytes) /\ n \in Nat /\ n >= 1 /\ n <= Len(wire)
    BY <1>2 DEF RInv, Buffers
  <2>2. SubSeq(wire, 1, n) \in Seq(Bytes)
    BY <2>1, SubSeqProperties
  <2>3. SubSeq(wire, n + 1, Len(wire)) \in Seq(Bytes)
    BY <2>1, SubSeqProperties
  <2>4. buf' \in Seq(Bytes) /\ Len(buf') >= Len(buf)
    BY <1>2, <2>1, <2>2 DEF Feed
  <2>5. Buffers'
    BY <1>2, <2>1, <2>3, <2>4 DEF Feed, RInv, Buffers
  <2>6. QED  BY <1>2, <2>5, Waiting DEF Feed, RInv, Rest
<1>3. CASE GetReplyReturnsEarly
  BY <1>3, Waiting DEF GetReplyReturnsEarly, RInv, Buffers, Rest
<1>4. CASE GetReply
  <2>1. Buffers' /\ Rest'
    BY <1>4 DEF GetReply, RInv, Buffers, Rest
  <2>2. CASE rstack = <<>>
    <3>1. PICK t : t = NewTask(-1)
      OBVIOUS
    <3>2. Task(t) /\ t.done = <<>>
      BY <3>1, EmptySequence DEF Task, NewTask, Types
    <3>3. rstack' = <<t>> /\ at' = "process"
      BY <1>4, <2>2, <3>1 DEF GetReply
    <3>4. rstack'[1] = t /\ Tasks(rstack', 1)
      BY <3>2, <3>3, SingleSequence DEF Tasks
    <3>5. Nested(rstack', 1, 0)
      BY DEF Nested
    <3>6. Stack'
      BY <3>2, <3>3, <3>4, <3>5, BoundsAssumption DEF Stack
    <3>7. QED  BY <2>1, <3>6 DEF RInv
  <2>3. CASE rstack # <<>>
    BY <1>4, <2>1, <2>3, Waiting DEF GetReply, RInv
  <2>4. QED  BY <2>2, <2>3
<1>5. QED  BY <1>1, <1>2, <1>3, <1>4 DEF Caller

(* Replacing the top of the stack, *)
LEMMA Replaced ==
  ASSUME NEW s, NEW n \in Nat \ {0}, Tasks(s, n), NEW t, Task(t)
  PROVE  \E r : /\ r = [s EXCEPT ![n] = t] /\ Tasks(r, n)
               /\ \A i \in 1 .. n : r[i] = IF i = n THEN t ELSE s[i]
<1>1. Sequence(s) /\ Len(s) = n /\ DOMAIN s = 1 .. n /\ n \in 1 .. n
  BY SequenceElim DEF Tasks
<1>2. PICK r : r = [s EXCEPT ![n] = t]
  OBVIOUS
<1>3. r = [i \in 1 .. n |-> r[i]]
  BY <1>1, <1>2
<1>4. r[n] = t
  BY <1>1, <1>2
<1>5. \A i \in 1 .. n : i # n => r[i] = s[i]
  BY <1>1, <1>2
<1>6. \A i \in 1 .. n : Task(r[i])
  BY <1>4, <1>5 DEF Tasks
<1>7. Sequence(r) /\ Len(r) = n
  BY <1>3, SequenceIntro
<1>8. Tasks(r, n)
  BY <1>6, <1>7 DEF Tasks
<1>9. \A i \in 1 .. n : r[i] = IF i = n THEN t ELSE s[i]
  BY <1>4, <1>5
<1>10. QED  BY <1>2, <1>8, <1>9

(* pushing a task, *)
LEMMA Pushed ==
  ASSUME NEW s, NEW n \in Nat, Tasks(s, n), NEW t, Task(t)
  PROVE  \E r : /\ r = Append(s, t) /\ Tasks(r, n + 1)
               /\ \A i \in 1 .. n + 1 : r[i] = IF i = n + 1 THEN t ELSE s[i]
<1>0. PICK r : r = Append(s, t)
  OBVIOUS
<1>1. Sequence(s) /\ Len(s) = n
  BY DEF Tasks
<1>2. Sequence(r) /\ Len(r) = n + 1
  BY <1>0, <1>1, Appended
<1>3. PICK S : s \in Seq(S) /\ t \in S
  <2>1. s \in Seq({s[i] : i \in 1 .. Len(s)} \cup {t})
    BY <1>1 DEF Sequence
  <2>2. QED  BY <2>1
<1>4. r[n + 1] = t /\ \A i \in 1 .. n : r[i] = s[i]
  BY <1>0, <1>1, <1>3, AppendProperties
<1>5. \A i \in 1 .. n + 1 : Task(r[i])
  BY <1>4 DEF Tasks
<1>6. \A i \in 1 .. n + 1 : r[i] = IF i = n + 1 THEN t ELSE s[i]
  BY <1>4
<1>7. Tasks(r, n + 1)
  BY <1>2, <1>5 DEF Tasks
<1>8. QED  BY <1>0, <1>6, <1>7

(* and popping one. *)
LEMMA Prefix ==
  ASSUME NEW s, Sequence(s), NEW m \in Nat, m <= Len(s)
  PROVE  /\ Sequence(SubSeq(s, 1, m)) /\ Len(SubSeq(s, 1, m)) = m
         /\ \A i \in 1 .. m : SubSeq(s, 1, m)[i] = s[i]
<1>1. PICK S : s \in Seq(S)
  BY DEF Sequence
<1>2. PICK p : p = SubSeq(s, 1, m)
  OBVIOUS
<1>3. p \in Seq(S) /\ Len(p) = m /\ \A i \in 1 .. m : p[i] = s[i]
  BY <1>1, <1>2, SubSeqProperties
<1>4. p = [i \in 1 .. m |-> p[i]]
  BY <1>3
<1>5. Sequence(p)
  BY <1>4, SequenceIntro
<1>6. QED  BY <1>2, <1>3, <1>5

(* processItem() keeps the invariant, whatever the bytes are. *)
LEMMA ItemSteps ==
  ASSUME RInv,
         \/ ReadType \/ BadTypeByte \/ ProcessLineItem
         \/ ProcessBulkItem \/ TooDeep \/ ProcessMultiBulkItem
  PROVE  RInv'
<1>0. PICK n \in 1 .. MaxDepth + 1 :
           /\ n = Len(rstack) /\ Tasks(rstack, n) /\ Nested(rstack, n, 0)
           /\ rstack[n].done = <<>>
  BY Processing
     DEF ReadType, BadTypeByte, ProcessLineItem, ProcessBulkItem, TooDeep, ProcessMultiBulkItem
<1>a. n \in Nat \ {0} /\ Cur = rstack[n] /\ Task(rstack[n]) /\ DOMAIN rstack = 1 .. n
      /\ Len(obj) <= 1
  BY <1>0, BoundsAssumption, SequenceElim DEF Cur, Tasks, RInv, Rest
<1>1. CASE ReadType
  <2>1. pos' \in 0 .. Len(buf')
    BY <1>1 DEF ReadType, RInv, Buffers
  <2>2. Buffers' /\ Rest'
    BY <1>1, <2>1 DEF ReadType, RInv, Buffers, Rest
  <2>3. PICK y \in Types : rstack' = [rstack EXCEPT ![n].type = y] /\ at' = "process"
    BY <1>0, <1>1 DEF ReadType, TypeBytes, TypeOf, Types, LineTypes
  <2>4. PICK t : t = [rstack[n] EXCEPT !.type = y]
    OBVIOUS
  <2>5. Task(t) /\ t.done = rstack[n].done /\ t.idx = rstack[n].idx
    BY <1>a, <2>3, <2>4 DEF Task
  <2>6. rstack' = [rstack EXCEPT ![n] = t]
    BY <2>3, <2>4
  <2>7. Tasks(rstack', n) /\ rstack'[n] = t /\ \A i \in 1 .. n - 1 : rstack'[i] = rstack[i]
    <3>1. n \in Nat \ {0} /\ Tasks(rstack, n) /\ Task(t)
      BY <1>0, <1>a, <2>5
    <3>2. PICK q : /\ q = [rstack EXCEPT ![n] = t] /\ Tasks(q, n)
                   /\ \A i \in 1 .. n : q[i] = IF i = n THEN t ELSE rstack[i]
      BY <3>1, Replaced
    <3>3. QED  BY <1>a, <2>6, <3>2
  <2>8. Nested(rstack', n, 0)
    <3>1. \A i \in 2 .. n : rstack'[i].idx = rstack[i].idx /\ rstack'[i - 1] = rstack[i - 1]
      BY <1>a, <2>5, <2>7
    <3>2. QED  BY <1>0, <3>1 DEF Nested
  <2>9. Stack'
    BY <1>0, <2>3, <2>5, <2>7, <2>8 DEF Stack
  <2>10. QED  BY <2>2, <2>9 DEF RInv
<1>2. CASE BadTypeByte
  BY <1>2, Errors DEF BadTypeByte
<1>3. CASE TooDeep
  BY <1>3, Errors DEF TooDeep
<1>4. ASSUME NEW o, Complete(o, rstack), pos' \in 0 .. Len(buf),
             UNCHANGED <<sent, wire, buf, err, got, last>>
      PROVE  RInv'
  <2>1. Stack' /\ Len(obj') <= 1 /\ at' = "move"
    BY <1>0, <1>a, <1>4, Completed
  <2>2. QED  BY <1>4, <2>1 DEF RInv, Buffers, Rest
<1>5. CASE ProcessLineItem
  <2>1. pos' \in 0 .. Len(buf)
    BY <1>5, LineFound DEF ProcessLineItem, RInv
  <2>2. QED  BY <1>4, <1>5, <2>1 DEF ProcessLineItem
<1>6. CASE ProcessBulkItem
  <2>1. HasLine /\ (ReadLongLong >= 0 => BulkEnd <= Len(buf))
    BY <1>6 DEF ProcessBulkItem, BulkReady
  <2>2. LineEnd \in pos + 1 .. Len(buf) - 1 /\ LineEnd + 1 \in 0 .. Len(buf) /\ ReadLongLong \in Int
    BY <2>1, LineFound DEF RInv
  <2>3. CASE ReadLongLong < 0
    BY <1>4, <1>6, <2>2, <2>3 DEF ProcessBulkItem
  <2>4. CASE ~(ReadLongLong < 0)
    <3>1. BulkEnd \in 0 .. Len(buf)
      BY <2>1, <2>2, <2>4 DEF BulkEnd, RInv, Buffers
    <3>2. QED  BY <1>4, <1>6, <2>4, <3>1 DEF ProcessBulkItem
  <2>5. QED  BY <2>3, <2>4
<1>7. CASE ProcessMultiBulkItem
  <2>1. LineEnd + 1 \in 0 .. Len(buf) /\ ReadLongLong \in Int
    BY <1>7, LineFound DEF ProcessMultiBulkItem, RInv
  <2>2. CASE ~(ReadLongLong > 0)
    BY <1>4, <1>7, <2>1, <2>2 DEF ProcessMultiBulkItem
  <2>3. CASE ReadLongLong > 0
    <3>1. n + 1 \in 0 .. MaxDepth + 1
      BY <1>0, <1>7, BoundsAssumption DEF ProcessMultiBulkItem, AtMaxDepth
    <3>2. PICK t : t = [rstack[n] EXCEPT !.elements = ReadLongLong]
      OBVIOUS
    <3>3. /\ Task(t) /\ t.done = <<>> /\ t.idx = rstack[n].idx /\ t.elements = ReadLongLong
          /\ t.type = "array"
      BY <1>0, <1>7, <1>a, <2>1, <3>2 DEF Task, ProcessMultiBulkItem
    <3>4. PICK r : r = [rstack EXCEPT ![n] = t]
      OBVIOUS
    <3>5. Tasks(r, n) /\ r[n] = t /\ \A i \in 1 .. n - 1 : r[i] = rstack[i]
      <4>1. n \in Nat \ {0} /\ Tasks(rstack, n) /\ Task(t)
        BY <1>0, <1>a, <3>3
      <4>2. PICK q : /\ q = [rstack EXCEPT ![n] = t] /\ Tasks(q, n)
                     /\ \A i \in 1 .. n : q[i] = IF i = n THEN t ELSE rstack[i]
        BY <4>1, Replaced
      <4>3. QED  BY <1>a, <3>4, <4>2
    <3>6. PICK k : k = NewTask(0)
      OBVIOUS
    <3>7. Task(k) /\ k.done = <<>> /\ k.idx = 0
      BY <3>6, EmptySequence DEF Task, NewTask, Types
    <3>8. rstack' = Append(r, k) /\ at' = "process"
      BY <1>0, <1>7, <2>3, <3>2, <3>4, <3>6 DEF ProcessMultiBulkItem
    <3>9. /\ Tasks(rstack', n + 1) /\ rstack'[n + 1] = k
          /\ \A i \in 1 .. n : rstack'[i] = r[i]
      <4>1. n \in Nat /\ Tasks(r, n) /\ Task(k)
        BY <1>a, <3>5, <3>7
      <4>2. PICK q : /\ q = Append(r, k) /\ Tasks(q, n + 1)
                     /\ \A i \in 1 .. n + 1 : q[i] = IF i = n + 1 THEN k ELSE r[i]
        BY <4>1, Pushed
      <4>3. /\ Tasks(rstack', n + 1)
            /\ \A i \in 1 .. n + 1 : rstack'[i] = IF i = n + 1 THEN k ELSE r[i]
        BY <3>8, <4>2, Zenon
      <4>4. QED  BY <1>a, <4>3
    <3>10. Nested(rstack', n + 1, 0)
      <4>1. ASSUME NEW i \in 2 .. n + 1
            PROVE  /\ rstack'[i - 1].type = "array"
                   /\ rstack'[i].idx \in 0 .. rstack'[i - 1].elements - 1
                   /\ Len(rstack'[i - 1].done) = rstack'[i].idx
        <5>1. CASE i = n + 1
          <6>1. rstack'[i] = k /\ rstack'[i - 1] = t
            BY <1>a, <3>5, <3>9, <5>1
          <6>2. QED  BY <2>1, <2>3, <3>3, <3>7, <6>1, EmptySequence
        <5>2. CASE i # n + 1
          <6>1. rstack'[i].idx = rstack[i].idx /\ rstack'[i - 1] = rstack[i - 1]
            BY <1>a, <3>3, <3>5, <3>9, <5>2
          <6>2. i \in 2 .. n /\ rstack[i].idx \in Int
            <7>1. i \in 2 .. n /\ i \in 1 .. n
              BY <1>a, <5>2
            <7>2. Task(rstack[i])
              BY <1>0, <7>1 DEF Tasks
            <7>3. QED  BY <7>1, <7>2 DEF Task
          <6>3. QED  BY <1>0, <6>1, <6>2 DEF Nested
        <5>3. QED  BY <5>1, <5>2
      <4>2. \A i \in 1 .. n + 1 : rstack'[i].idx \in Int
        BY <3>9 DEF Tasks, Task
      <4>3. QED  BY <1>a, <4>1, <4>2 DEF Nested
    <3>11. Stack'
      BY <1>a, <3>1, <3>7, <3>8, <3>9, <3>10 DEF Stack
    <3>12. Buffers' /\ Rest'
      BY <1>7, <2>1, <2>3, <3>8 DEF ProcessMultiBulkItem, RInv, Buffers, Rest
    <3>13. QED  BY <3>11, <3>12 DEF RInv
  <2>4. QED  BY <2>2, <2>3
<1>8. QED  BY <1>1, <1>2, <1>3, <1>5, <1>6, <1>7

(* moveToNextTask() keeps it. *)
LEMMA MoveSteps ==
  ASSUME RInv, PopRoot \/ PopTask \/ NextTask
  PROVE  RInv'
<1>0. PICK n \in 0 .. MaxDepth + 1 :
        Tasks(rstack, n) /\ Nested(rstack, n, 1) /\ n > 0
  BY DEF RInv, Stack, PopRoot, PopTask, NextTask
<1>a. /\ n \in Nat \ {0} /\ n = Len(rstack) /\ Cur = rstack[n] /\ Sequence(rstack)
      /\ DOMAIN rstack = 1 .. n /\ Len(obj) <= 1
  BY <1>0, BoundsAssumption, SequenceElim DEF Tasks, Cur, RInv, Rest
<1>b. \A i \in 1 .. n : Task(rstack[i])
  BY <1>0 DEF Tasks
<1>1. CASE PopRoot
  <2>1. Stack'
    BY <1>1, NoTasks, BoundsAssumption DEF PopRoot, Stack
  <2>2. QED  BY <1>1, <2>1 DEF PopRoot, RInv, Buffers, Rest
<1>2. CASE PopTask
  <2>1. n > 1
    BY <1>a, <1>2 DEF PopTask
  <2>2. PICK m \in 1 .. MaxDepth + 1 : m = n - 1
    BY <1>0, <1>a, <2>1, BoundsAssumption
  <2>3. PICK s : s = SubSeq(rstack, 1, m)
    OBVIOUS
  <2>4. Sequence(s) /\ Len(s) = m /\ \A i \in 1 .. m : s[i] = rstack[i]
    BY <1>a, <2>1, <2>2, <2>3, Prefix
  <2>5. Tasks(s, m)
    <3>1. \A i \in 1 .. m : i \in 1 .. n
      BY <1>a, <2>1, <2>2
    <3>2. \A i \in 1 .. m : Task(s[i])
      BY <1>b, <2>4, <3>1
    <3>3. QED  BY <2>4, <3>2 DEF Tasks
  <2>6. Nested(s, m, 0)
    <3>1. ASSUME NEW i \in 2 .. m
          PROVE  /\ s[i - 1].type = "array"
                 /\ s[i].idx \in 0 .. s[i - 1].elements - 1
                 /\ Len(s[i - 1].done) = s[i].idx + (IF i = m THEN 0 ELSE 0)
      <4>1. i \in 2 .. n /\ i # n /\ i \in 1 .. m /\ i - 1 \in 1 .. m
        BY <1>a, <2>1, <2>2
      <4>2. s[i] = rstack[i] /\ s[i - 1] = rstack[i - 1]
        BY <2>4, <4>1
      <4>3. QED  BY <1>0, <4>1, <4>2 DEF Nested
    <3>2. QED  BY <3>1 DEF Nested
  <2>7. PICK o : Complete(o, s)
    BY <1>2, <1>a, <2>2, <2>3 DEF PopTask
  <2>8. Stack' /\ Len(obj') <= 1 /\ at' = "move"
    BY <1>a, <2>2, <2>5, <2>6, <2>7, Completed
  <2>9. Buffers'
    BY <1>2 DEF PopTask, RInv, Buffers
  <2>10. Rest'
    BY <1>2, <2>8 DEF PopTask, RInv, Rest
  <2>11. QED  BY <2>8, <2>9, <2>10 DEF RInv
<1>3. CASE NextTask
  <2>1. n > 1 /\ n - 1 \in 1 .. n /\ n \in 2 .. n
    BY <1>a, <1>3 DEF NextTask
  <2>2. /\ rstack[n - 1].type = "array"
        /\ rstack[n].idx \in 0 .. rstack[n - 1].elements - 1
        /\ Len(rstack[n - 1].done) = rstack[n].idx + 1
    BY <1>0, <2>1 DEF Nested
  <2>3. rstack[n].idx \in Int /\ rstack[n - 1].elements \in Int
    <3>1. Task(rstack[n]) /\ Task(rstack[n - 1])
      BY <1>a, <1>b, <2>1
    <3>2. QED  BY <3>1 DEF Task
  <2>4. rstack[n].idx # rstack[n - 1].elements - 1
    BY <1>a, <1>3 DEF NextTask, LastOfParent, Parent
  <2>5. PICK k : k = NewTask(rstack[n].idx + 1)
    OBVIOUS
  <2>6. Task(k) /\ k.done = <<>> /\ k.idx = rstack[n].idx + 1
    BY <2>3, <2>5, EmptySequence DEF Task, NewTask, Types
  <2>7. rstack' = [rstack EXCEPT ![n] = k] /\ at' = "process"
    BY <1>3, <1>a, <2>5 DEF NextTask
  <2>8. Tasks(rstack', n) /\ \A i \in 1 .. n : rstack'[i] = IF i = n THEN k ELSE rstack[i]
    <3>1. PICK q : /\ q = [rstack EXCEPT ![n] = k] /\ Tasks(q, n)
                   /\ \A i \in 1 .. n : q[i] = IF i = n THEN k ELSE rstack[i]
      BY <1>0, <1>a, <2>6, Replaced
    <3>2. QED  BY <2>7, <3>1
  <2>9. Nested(rstack', n, 0)
    <3>1. ASSUME NEW i \in 2 .. n
          PROVE  /\ rstack'[i - 1].type = "array"
                 /\ rstack'[i].idx \in 0 .. rstack'[i - 1].elements - 1
                 /\ Len(rstack'[i - 1].done) = rstack'[i].idx + (IF i = n THEN 0 ELSE 0)
      <4>1. i \in 1 .. n /\ i - 1 \in 1 .. n /\ i - 1 # n
        BY <1>a
      <4>2. rstack'[i - 1] = rstack[i - 1] /\ rstack'[i] = IF i = n THEN k ELSE rstack[i]
        BY <2>8, <4>1
      <4>3. CASE i = n
        BY <2>2, <2>3, <2>4, <2>6, <4>2, <4>3
      <4>4. CASE i # n
        BY <1>0, <4>2, <4>4 DEF Nested
      <4>5. QED  BY <4>3, <4>4
    <3>2. QED  BY <3>1 DEF Nested
  <2>10. rstack'[n].done = <<>>
    BY <1>a, <2>6, <2>8
  <2>11. Stack'
    BY <2>7, <2>8, <2>9, <2>10 DEF Stack
  <2>12. QED  BY <1>3, <2>11 DEF NextTask, RInv, Buffers, Rest
<1>4. QED  BY <1>1, <1>2, <1>3

(* Discarding what was consumed keeps the cursor inside the buffer, *)
LEMMA Discarded ==
  ASSUME Buffers, Discard, wire' = wire
  PROVE  Buffers'
<1>1. CASE pos >= DiscardAt
  <2>1. buf' \in Seq(Bytes) /\ pos' = 0
    BY <1>1, SubSeqProperties DEF Discard, Buffers
  <2>2. QED  BY <2>1 DEF Buffers
<1>2. CASE ~(pos >= DiscardAt)
  BY <1>2 DEF Discard, Buffers
<1>3. QED  BY <1>1, <1>2

(* and so do the two ways to return. *)
LEMMA ReturnSteps ==
  ASSUME RInv, ReturnNull \/ ReturnReply
  PROVE  RInv'
<1>1. Buffers'
  BY Discarded DEF RInv, ReturnNull, ReturnReply
<1>2. Stack'
  BY Waiting DEF RInv, ReturnNull, ReturnReply
<1>3. Rest'
  <2>1. CASE ReturnNull
    BY <2>1 DEF RInv, Rest, ReturnNull
  <2>2. CASE ReturnReply
    <3>1. Len(obj') <= 1
      BY <2>2, EmptySequence DEF ReturnReply
    <3>2. QED  BY <2>2, <3>1 DEF RInv, Rest, ReturnReply
  <2>3. QED  BY <2>1, <2>2
<1>4. QED  BY <1>1, <1>2, <1>3 DEF RInv

(* Every step keeps it. *)
LEMMA StepReader == RInv /\ [Next]_vars => RInv'
<1> SUFFICES ASSUME RInv, [Next]_vars PROVE RInv'
  OBVIOUS
<1>1. CASE UNCHANGED vars
  BY <1>1 DEF vars, RInv, Buffers, Rest, Stack
<1>2. QED  BY <1>1, CallerSteps, ItemSteps, MoveSteps, ReturnSteps DEF Next, Parser

(***************************************************************************)
(* Whatever bytes are fed to it, in whatever pieces, the reader's cursor   *)
(* stays inside its buffer, rstack is never overrun, and the asserts of    *)
(* moveToNextTask() and of the functions that build replies hold: the      *)
(* entries below the top are arrays, and each index is one of its parent's *)
(* elements, for any limit on the depth.                                   *)
(***************************************************************************)
THEOREM TypeCorrect == Spec => []TypeOK
  BY InitReader, StepReader, ReaderInv, PTL DEF Spec

-----------------------------------------------------------------------------
(* How many bytes the parser has not read, and which they are. *)
Left == Len(buf) - pos + Len(wire)
Unread(i) == IF pos + i <= Len(buf) THEN buf[pos + i] ELSE wire[(pos + i) - Len(buf)]

(* off[j] + i is the place of byte i of message j among them. *)
Layout(off) ==
  /\ off[Len(sent) + 1] = Left
  /\ \A j \in 1 .. Len(sent) : off[j + 1] = off[j] + Len(sent[j].wire)
  /\ \A j \in 1 .. Len(sent) + 1 : off[j] <= Left
  /\ \A j \in 1 .. Len(sent) : \A i \in 1 .. Len(sent[j].wire) :
       off[j] + i >= 1 => Unread(off[j] + i) = sent[j].wire[i]

History ==
  sent \in Seq(Messages) /\ Sequence(got) /\ Len(got) <= Len(sent)

(* The wire of a message. *)
LEMMA WireType ==
  ASSUME History, NEW j \in 1 .. Len(sent)
  PROVE  sent[j] \in Messages /\ sent[j].wire \in Seq(Bytes) /\ Len(sent[j].wire) \in Nat \ {0}
<1>1. sent[j] \in Messages
  BY DEF History
<1>2. QED  BY <1>1, MessagesAssumption DEF Bytes

(* The lengths. *)
LEMMA Lengths ==
  ASSUME Buffers, History
  PROVE  /\ Len(buf) \in Nat /\ Len(wire) \in Nat /\ pos \in Nat /\ pos <= Len(buf)
         /\ Left = Len(buf) - pos + Len(wire) /\ Left \in Nat
         /\ Len(sent) \in Nat /\ Len(got) \in Nat /\ Len(got) <= Len(sent)
<1>1. Len(buf) \in Nat /\ Len(wire) \in Nat /\ pos \in Nat /\ pos <= Len(buf)
  BY DEF Buffers
<1>2. Left = Len(buf) - pos + Len(wire)
  BY DEF Left
<1>3. Left \in Nat
  BY <1>1, <1>2
<1>4. Len(got) \in Nat
  BY SequenceElim DEF History
<1>5. Len(sent) \in Nat /\ Len(got) <= Len(sent)
  BY DEF History
<1>6. QED  BY <1>1, <1>2, <1>3, <1>4, <1>5

(* What the layout says of one message. *)
LEMMA Placed ==
  ASSUME Buffers, History, NEW off \in [Nat -> Int], Layout(off), NEW j \in 1 .. Len(sent)
  PROVE  /\ j \in Nat /\ j + 1 \in Nat /\ off[j] \in Int /\ off[j + 1] \in Int
         /\ off[j + 1] = off[j] + Len(sent[j].wire) /\ off[j + 1] <= Left
         /\ \A i \in 1 .. Len(sent[j].wire) :
              /\ off[j] + i <= Left
              /\ off[j] + i >= 1 => Unread(off[j] + i) = sent[j].wire[i]
<1>1. Len(sent) \in Nat /\ Left \in Nat /\ Len(sent[j].wire) \in Nat
  BY Lengths, WireType
<1>2. j \in Nat /\ j + 1 \in Nat /\ off[j] \in Int /\ off[j + 1] \in Int
      /\ j + 1 \in 1 .. Len(sent) + 1
  BY <1>1
<1>3. off[j + 1] = off[j] + Len(sent[j].wire) /\ off[j + 1] <= Left
  BY <1>2 DEF Layout
<1>4. \A i \in 1 .. Len(sent[j].wire) : off[j] + i <= Left
  <2>1. PICK x \in Int, y \in Nat, z \in Int :
          x = off[j] /\ y = Len(sent[j].wire) /\ z = Left /\ x + y <= z
    BY <1>1, <1>2, <1>3
  <2>2. \A i \in 1 .. y : x + i <= z
    BY <2>1
  <2>3. QED  BY <2>1, <2>2
<1>5. \A i \in 1 .. Len(sent[j].wire) :
        off[j] + i >= 1 => Unread(off[j] + i) = sent[j].wire[i]
  BY DEF Layout
<1>6. QED  BY <1>2, <1>3, <1>4, <1>5

(* Bytes i to j of a sequence. *)
IsPart(a, w, i, j) ==
  /\ a \in Seq(Bytes) /\ Len(a) = (j - i) + 1
  /\ \A k \in 1 .. (j - i) + 1 : a[k] = w[(i + k) - 1]

LEMMA Part ==
  ASSUME NEW w \in Seq(Bytes), NEW i \in Nat \ {0}, NEW j \in Nat, i <= j + 1, j <= Len(w)
  PROVE  IsPart(SubSeq(w, i, j), w, i, j)
<1>1. \A k \in i .. j : w[k] \in Bytes
  OBVIOUS
<1>2. PICK a : a = SubSeq(w, i, j)
  OBVIOUS
<1>3. /\ a \in Seq(Bytes) /\ Len(a) = (IF i <= j THEN (j - i) + 1 ELSE 0)
      /\ \A k \in 1 .. (j - i) + 1 : a[k] = w[(i + k) - 1]
  BY <1>1, <1>2, SubSeqProperties
<1>4. (IF i <= j THEN (j - i) + 1 ELSE 0) = (j - i) + 1
  OBVIOUS
<1>5. QED  BY <1>2, <1>3, <1>4 DEF IsPart

(* k bytes more have been read. *)
Moved(k) == Left' = Left - k /\ \A i \in 1 .. Left - k : Unread(i)' = Unread(i + k)

(* The layout after the first k of the unread bytes have been read. *)
LEMMA Shifted ==
  ASSUME Buffers, History, NEW off \in [Nat -> Int], Layout(off), NEW k \in Nat,
         sent' = sent, Moved(k)
  PROVE  \E new \in [Nat -> Int] : Layout(new)' /\ \A j \in Nat : new[j] = off[j] - k
<1>1. PICK new : new = [j \in Nat |-> off[j] - k]
  OBVIOUS
<1>2. new \in [Nat -> Int] /\ \A j \in Nat : new[j] = off[j] - k
  BY <1>1
<1>3. Left \in Nat /\ Len(sent) \in Nat /\ Left' = Left - k
  BY Lengths DEF Moved
<1>4. new[Len(sent) + 1] = Left'
  <2>1. off[Len(sent) + 1] = Left
    BY DEF Layout
  <2>2. QED  BY <1>2, <1>3, <2>1
<1>5. ASSUME NEW j \in 1 .. Len(sent) + 1 PROVE new[j] <= Left'
  <2>1. off[j] <= Left /\ j \in Nat /\ off[j] \in Int
    BY <1>3 DEF Layout
  <2>2. QED  BY <1>2, <1>3, <2>1
<1>6. ASSUME NEW j \in 1 .. Len(sent) PROVE new[j + 1] = new[j] + Len(sent[j].wire)
  <2>1. /\ j \in Nat /\ j + 1 \in Nat /\ off[j] \in Int /\ off[j + 1] \in Int
        /\ off[j + 1] = off[j] + Len(sent[j].wire) /\ Len(sent[j].wire) \in Nat
    BY Placed, WireType
  <2>2. new[j] = off[j] - k /\ new[j + 1] = off[j + 1] - k
    BY <1>2, <2>1
  <2>3. QED  BY <2>1, <2>2
<1>7. ASSUME NEW j \in 1 .. Len(sent), NEW i \in 1 .. Len(sent[j].wire), new[j] + i >= 1
      PROVE  Unread(new[j] + i)' = sent[j].wire[i]
  <2>1. /\ j \in Nat /\ off[j] \in Int
        /\ \A h \in 1 .. Len(sent[j].wire) :
             /\ off[j] + h <= Left
             /\ off[j] + h >= 1 => Unread(off[j] + h) = sent[j].wire[h]
    BY Placed
  <2>2. /\ off[j] + i <= Left
        /\ off[j] + i >= 1 => Unread(off[j] + i) = sent[j].wire[i]
    BY <2>1
  <2>a. i \in Int /\ off[j] \in Int /\ off[j] + i <= Left
    BY <2>1, <2>2
  <2>3. new[j] = off[j] - k
    BY <1>2, <2>1
  <2>4. new[j] + i \in 1 .. Left - k /\ (new[j] + i) + k = off[j] + i /\ off[j] + i >= 1
    <3>0. PICK l \in Int : l = Left
      BY <1>3
    <3>1. PICK o \in Int : o = off[j] /\ new[j] = o - k /\ o + i <= l /\ (o - k) + i >= 1
      BY <1>7, <2>a, <2>3, <3>0
    <3>a. PICK x \in Int : x = i /\ o + x <= l /\ (o - k) + x >= 1
      BY <2>a, <3>1
    <3>b. (o - k) + x \in 1 .. l - k
      BY <3>a
    <3>c. ((o - k) + x) + k = o + x /\ o + x >= 1
      BY <3>a
    <3>2. (o - k) + i \in 1 .. l - k /\ ((o - k) + i) + k = o + i /\ o + i >= 1
      BY <3>a, <3>b, <3>c
    <3>3. QED  BY <3>0, <3>1, <3>2
  <2>5. Unread(new[j] + i)' = Unread((new[j] + i) + k)
    BY <2>4 DEF Moved
  <2>6. QED  BY <2>2, <2>4, <2>5
<1>8. Layout(new)'
  BY <1>4, <1>5, <1>6, <1>7 DEF Layout
<1>9. QED  BY <1>2, <1>8

(* The cursor moves on. *)
LEMMA Consumed ==
  ASSUME Buffers, Buffers', History, NEW off \in [Nat -> Int], Layout(off), NEW k \in Nat,
         UNCHANGED <<sent, wire, buf>>, pos' = pos + k
  PROVE  \E new \in [Nat -> Int] : Layout(new)' /\ \A j \in Nat : new[j] = off[j] - k
<1>1. Left' = Left - k
  BY DEF Left, Buffers
<1>2. ASSUME NEW i \in 1 .. Left - k PROVE Unread(i)' = Unread(i + k)
  <2>1. i \in Int /\ pos \in Int /\ pos' + i = pos + (i + k)
    BY DEF Buffers
  <2>2. (pos' + i) - Len(buf) = (pos + (i + k)) - Len(buf)
    BY <2>1
  <2>3. QED  BY <2>1, <2>2 DEF Unread
<1>3. QED  BY <1>1, <1>2, Shifted DEF Moved

(* Bytes are fed, or read ones discarded. *)
LEMMA Rearranged ==
  ASSUME Buffers, Buffers', History, NEW off \in [Nat -> Int], Layout(off), sent' = sent,
         \/ Discard /\ wire' = wire
         \/ \E n \in 1 .. Len(wire) : Feed(n)
         \/ UNCHANGED <<buf, pos, wire>>
  PROVE  Layout(off)'
<1>0. /\ Len(buf) \in Nat /\ Len(wire) \in Nat /\ pos \in Nat /\ pos <= Len(buf)
      /\ Left = Len(buf) - pos + Len(wire) /\ Left \in Nat /\ Len(sent) \in Nat
  BY Lengths
<1>1. Left' = Left /\ \A i \in 1 .. Left : Unread(i)' = Unread(i)
  <2>1. CASE Discard /\ wire' = wire /\ pos >= DiscardAt
    <3>1. pos' = 0 /\ buf' = SubSeq(buf, pos + 1, Len(buf)) /\ wire' = wire
      BY <2>1 DEF Discard
    <3>2. Len(buf') = Len(buf) - pos /\ \A i \in 1 .. Len(buf) - pos : buf'[i] = buf[pos + i]
      BY <3>1, SubSeqProperties DEF Buffers
    <3>3. Left' = Left
      <4>1. Left' = (Len(buf) - pos) - 0 + Len(wire)
        BY <3>1, <3>2 DEF Left
      <4>2. QED  BY <4>1, <1>0
    <3>4. ASSUME NEW i \in 1 .. Left PROVE Unread(i)' = Unread(i)
      <4>1. i \in Int /\ i >= 1 /\ 0 + i = i
        OBVIOUS
      <4>2. CASE pos + i <= Len(buf)
        <5>1. i \in 1 .. Len(buf) - pos /\ pos' + i <= Len(buf') /\ pos' + i = i
          BY <1>0, <3>1, <3>2, <4>1, <4>2
        <5>2. QED  BY <3>2, <4>2, <5>1 DEF Unread
      <4>3. CASE ~(pos + i <= Len(buf))
        <5>0. pos' = 0 /\ Len(buf') = Len(buf) - pos
          BY <3>1, <3>2
        <5>1. ~(pos' + i <= Len(buf')) /\ (pos' + i) - Len(buf') = (pos + i) - Len(buf)
          BY <1>0, <4>1, <4>3, <5>0
        <5>2. QED  BY <3>1, <4>3, <5>1 DEF Unread
      <4>4. QED  BY <4>2, <4>3
    <3>5. QED  BY <3>3, <3>4
  <2>2. CASE UNCHANGED <<buf, pos, wire>> \/ (Discard /\ wire' = wire /\ ~(pos >= DiscardAt))
    BY <2>2 DEF Discard, Left, Unread
  <2>3. CASE \E n \in 1 .. Len(wire) : Feed(n)
    <3>1. PICK n \in 1 .. Len(wire) : Feed(n)
      BY <2>3
    <3>2. PICK a : a = SubSeq(wire, 1, n)
      OBVIOUS
    <3>0. wire \in Seq(Bytes) /\ 1 \in 1 .. Len(wire) + 1 /\ n \in 1 - 1 .. Len(wire)
          /\ n \in Nat /\ n <= Len(wire) /\ n - 1 + 1 = n
      BY <1>0 DEF Buffers
    <3>3. a \in Seq(Bytes) /\ Len(a) = n /\ \A i \in 1 .. n : a[i] = wire[i]
      BY <3>0, <3>2, SubSeqProperties
    <3>4. /\ wire' = SubSeq(wire, n + 1, Len(wire)) /\ buf' = buf \o a /\ pos' = pos
      BY <3>1, <3>2 DEF Feed
    <3>5. Len(wire') = Len(wire) - n /\ \A i \in 1 .. Len(wire) - n : wire'[i] = wire[n + i]
      <4>1. PICK x \in Nat \ {0}, y \in Nat : x = n + 1 /\ y = Len(wire) /\ x <= y + 1
        <5>1. n + 1 \in Nat \ {0} /\ Len(wire) \in Nat /\ n + 1 <= Len(wire) + 1
          BY <1>0, <3>0
        <5>2. QED  BY <5>1
      <4>2. IsPart(wire', wire, x, y)
        BY <3>0, <3>4, <4>1, Part
      <4>3. (y - x) + 1 = y - n /\ \A i \in 1 .. y - n : (x + i) - 1 = n + i
        BY <3>0, <4>1
      <4>4. QED  BY <4>1, <4>2, <4>3 DEF IsPart
    <3>6. /\ Len(buf') = Len(buf) + n
          /\ \A i \in 1 .. Len(buf) + n :
               buf'[i] = IF i <= Len(buf) THEN buf[i] ELSE a[i - Len(buf)]
      <4>1. buf \in Seq(Bytes)
        BY DEF Buffers
      <4>2. /\ Len(buf \o a) = Len(buf) + Len(a)
            /\ \A i \in 1 .. Len(buf) + Len(a) :
                 (buf \o a)[i] = IF i <= Len(buf) THEN buf[i] ELSE a[i - Len(buf)]
        BY <3>3, <4>1, ConcatProperties
      <4>3. QED  BY <3>3, <3>4, <4>2, Zenon
    <3>8. Left' = Left
      <4>1. Left' = (Len(buf) + n) - pos + (Len(wire) - n)
        BY <3>4, <3>5, <3>6 DEF Left
      <4>2. QED  BY <1>0, <3>0, <4>1
    <3>9. ASSUME NEW i \in 1 .. Left PROVE Unread(i)' = Unread(i)
      <4>1. i \in Int /\ i >= 1 /\ i <= Len(buf) - pos + Len(wire)
        BY <1>0
      <4>2. CASE pos + i <= Len(buf)
        <5>1. pos + i \in 1 .. Len(buf) + n
          BY <1>0, <3>0, <4>1, <4>2
        <5>2. buf'[pos + i] = buf[pos + i]
          BY <3>6, <4>2, <5>1
        <5>3. pos' + i <= Len(buf') /\ pos' + i = pos + i
          BY <3>4, <3>6, <5>1, <1>0, <3>0
        <5>4. QED  BY <4>2, <5>2, <5>3 DEF Unread
      <4>3. CASE ~(pos + i <= Len(buf)) /\ pos + i <= Len(buf) + n
        <5>1. pos + i \in 1 .. Len(buf) + n /\ (pos + i) - Len(buf) \in 1 .. n
          BY <1>0, <3>0, <4>1, <4>3
        <5>2. buf'[pos + i] = a[(pos + i) - Len(buf)]
          <6>1. PICK y \in 1 .. Len(buf) + n : y = pos + i /\ ~(y <= Len(buf))
            BY <4>3, <5>1
          <6>2. buf'[y] = a[y - Len(buf)]
            BY <3>6, <6>1
          <6>3. QED  BY <6>1, <6>2
        <5>3. a[(pos + i) - Len(buf)] = wire[(pos + i) - Len(buf)]
          BY <3>3, <5>1
        <5>4. pos' + i <= Len(buf') /\ pos' + i = pos + i
          BY <3>4, <3>6, <4>3
        <5>5. QED  BY <4>3, <5>2, <5>3, <5>4 DEF Unread
      <4>4. CASE ~(pos + i <= Len(buf) + n)
        <5>1. PICK x \in 1 .. Len(wire) - n : x = (pos + i) - (Len(buf) + n)
          <6>1. (pos + i) - (Len(buf) + n) \in 1 .. Len(wire) - n
            BY <1>0, <3>0, <4>1, <4>4
          <6>2. QED  BY <6>1
        <5>2. wire'[x] = wire[n + x]
          BY <3>5
        <5>3. n + x = (pos + i) - Len(buf) /\ ~(pos + i <= Len(buf))
          BY <1>0, <3>0, <4>1, <4>4, <5>1
        <5>4. ~(pos' + i <= Len(buf')) /\ (pos' + i) - Len(buf') = x
          BY <3>4, <3>6, <4>4, <5>1
        <5>5. Unread(i)' = wire'[x]
          BY <5>4 DEF Unread
        <5>6. Unread(i) = wire[n + x]
          BY <5>3 DEF Unread
        <5>7. QED  BY <5>2, <5>5, <5>6
      <4>5. QED  BY <1>0, <3>0, <4>1, <4>2, <4>3, <4>4
    <3>10. QED  BY <3>8, <3>9
  <2>4. QED  BY <2>1, <2>2, <2>3
<1>2. ASSUME NEW j \in 1 .. Len(sent), NEW i \in 1 .. Len(sent[j].wire), off[j] + i >= 1
      PROVE  Unread(off[j] + i)' = sent[j].wire[i]
  <2>1. /\ j \in Nat /\ off[j] \in Int
        /\ \A h \in 1 .. Len(sent[j].wire) :
             /\ off[j] + h <= Left
             /\ off[j] + h >= 1 => Unread(off[j] + h) = sent[j].wire[h]
    BY Placed
  <2>2. off[j] + i <= Left /\ Unread(off[j] + i) = sent[j].wire[i]
    BY <1>2, <2>1
  <2>3. off[j] + i \in 1 .. Left
    BY <1>0, <1>2, <2>1, <2>2
  <2>4. QED  BY <1>1, <2>2, <2>3
<1>3. QED  BY <1>1, <1>2 DEF Layout

(* A message more. *)
LEMMA Extended ==
  ASSUME Buffers, Buffers', History, NEW off \in [Nat -> Int], Layout(off),
         NEW m \in Messages, Send(m)
  PROVE  \E new \in [Nat -> Int] :
           Layout(new)' /\ \A j \in 1 .. Len(sent) + 1 : new[j] = off[j]
<1>1. /\ sent' = Append(sent, m) /\ wire' = wire \o m.wire /\ buf' = buf /\ pos' = pos
  BY DEF Send
<1>2. m.wire \in Seq(Bytes) /\ Len(m.wire) \in Nat
  BY MessagesAssumption DEF Bytes
<1>3. /\ Len(sent') = Len(sent) + 1 /\ sent'[Len(sent) + 1] = m /\ Len(sent) \in Nat
      /\ \A j \in 1 .. Len(sent) : sent'[j] = sent[j]
  BY <1>1 DEF History
<1>4. /\ Len(wire') = Len(wire) + Len(m.wire)
      /\ \A i \in 1 .. Len(wire) : wire'[i] = wire[i]
      /\ \A i \in 1 .. Len(m.wire) : wire'[Len(wire) + i] = m.wire[i]
  <2>1. wire \in Seq(Bytes)
    BY DEF Buffers
  <2>2. PICK x \in Nat, y \in Nat : x = Len(wire) /\ y = Len(m.wire)
    BY <1>2, <2>1
  <2>3. /\ Len(wire') = x + y
        /\ \A i \in 1 .. x + y : wire'[i] = IF i <= x THEN wire[i] ELSE m.wire[i - x]
    BY <1>1, <1>2, <2>1, <2>2, ConcatProperties
  <2>4. /\ \A i \in 1 .. x : i \in 1 .. x + y /\ i <= x
        /\ \A i \in 1 .. y : x + i \in 1 .. x + y /\ ~(x + i <= x) /\ (x + i) - x = i
    OBVIOUS
  <2>5. QED  BY <2>2, <2>3, <2>4
<1>0. /\ Len(buf) \in Nat /\ Len(wire) \in Nat /\ pos \in Nat /\ pos <= Len(buf)
      /\ Left = Len(buf) - pos + Len(wire) /\ Left \in Nat /\ Len(sent) \in Nat
  BY Lengths
<1>5. Left' = Left + Len(m.wire)
  <2>1. Left' = Len(buf) - pos + (Len(wire) + Len(m.wire))
    BY <1>1, <1>4 DEF Left
  <2>2. PICK b \in Int, p \in Int, w \in Int, c \in Int :
          b = Len(buf) /\ p = pos /\ w = Len(wire) /\ c = Len(m.wire)
    <3>1. Len(buf) \in Int /\ pos \in Int /\ Len(wire) \in Int /\ Len(m.wire) \in Int
      BY <1>0, <1>2
    <3>2. QED  BY <3>1, Zenon
  <2>3. Left' = b - p + (w + c) /\ Left = b - p + w
    BY <1>0, <2>1, <2>2
  <2>a. b - p + (w + c) = (b - p + w) + c
    OBVIOUS
  <2>4. Left' = (b - p + w) + c
    BY <2>3, <2>a, Zenon
  <2>5. QED  BY <2>2, <2>3, <2>4
<1>6. ASSUME NEW i \in 1 .. Left PROVE Unread(i)' = Unread(i)
  <2>1. CASE pos + i <= Len(buf)
    BY <1>1, <2>1 DEF Unread
  <2>2. CASE ~(pos + i <= Len(buf))
    <3>1. (pos + i) - Len(buf) \in 1 .. Len(wire)
      BY <1>0, <2>2
    <3>2. wire'[(pos + i) - Len(buf)] = wire[(pos + i) - Len(buf)]
      BY <1>4, <3>1
    <3>3. QED  BY <1>1, <2>2, <3>2 DEF Unread
  <2>3. QED  BY <2>1, <2>2
<1>7. ASSUME NEW i \in 1 .. Len(m.wire), NEW l, l = Left + i PROVE Unread(l)' = m.wire[i]
  <2>1. (pos + (Left + i)) - Len(buf) = Len(wire) + i /\ ~(pos + (Left + i) <= Len(buf))
    BY <1>0, <1>2
  <2>2. wire'[Len(wire) + i] = m.wire[i]
    BY <1>4
  <2>3. Unread(l)' = wire'[(pos + l) - Len(buf)]
    BY <1>1, <1>7, <2>1 DEF Unread
  <2>4. QED  BY <1>7, <2>1, <2>2, <2>3
<1>8. PICK new : new = [j \in Nat |-> IF j <= Len(sent) + 1 THEN off[j] ELSE Left + Len(m.wire)]
  OBVIOUS
<1>9. /\ new \in [Nat -> Int] /\ new[Len(sent) + 2] = Left + Len(m.wire)
      /\ \A j \in 1 .. Len(sent) + 1 : new[j] = off[j]
  BY <1>2, <1>3, <1>5, <1>8
<1>10. new[Len(sent) + 1] = Left /\ off[Len(sent) + 1] = Left
  BY <1>3, <1>9 DEF Layout
<1>11. new[Len(sent') + 1] = Left'
  BY <1>3, <1>5, <1>9
<1>12. ASSUME NEW j \in 1 .. Len(sent') PROVE new[j + 1] = new[j] + Len(sent'[j].wire)
  <2>1. CASE j = Len(sent) + 1
    BY <1>2, <1>3, <1>5, <1>9, <1>10, <2>1
  <2>2. CASE j # Len(sent) + 1
    <3>1. j \in 1 .. Len(sent) /\ j + 1 \in 1 .. Len(sent) + 1 /\ j \in 1 .. Len(sent) + 1
      BY <1>3, <2>2
    <3>2. QED  BY <1>3, <1>9, <3>1 DEF Layout
  <2>3. QED  BY <2>1, <2>2
<1>13. ASSUME NEW j \in 1 .. Len(sent') + 1 PROVE new[j] <= Left'
  <2>1. CASE j = Len(sent) + 2
    BY <1>5, <1>9, <2>1
  <2>2. CASE j # Len(sent) + 2
    <3>1. j \in 1 .. Len(sent) + 1
      BY <1>3, <2>2
    <3>2. new[j] <= Left /\ new[j] \in Int
      BY <1>9, <3>1 DEF Layout
    <3>3. PICK x \in Int, l \in Int, c \in Int :
            x = new[j] /\ l = Left /\ c = Len(m.wire) /\ c >= 0 /\ x <= l
      <4>1. Left \in Int /\ Len(m.wire) \in Int /\ Len(m.wire) >= 0
        BY <1>0, <1>2
      <4>2. QED  BY <3>2, <4>1, Zenon
    <3>4. x <= l + c
      BY <3>3
    <3>5. QED  BY <1>5, <3>3, <3>4
  <2>3. QED  BY <2>1, <2>2
<1>14. ASSUME NEW j \in 1 .. Len(sent'), NEW i \in 1 .. Len(sent'[j].wire), new[j] + i >= 1
       PROVE  Unread(new[j] + i)' = sent'[j].wire[i]
  <2>1. CASE j = Len(sent) + 1
    <3>1. sent'[j] = m /\ new[j] = Left /\ i \in 1 .. Len(m.wire)
      BY <1>3, <1>10, <2>1
    <3>2. PICK l : l = Left + i /\ l = new[j] + i
      BY <3>1
    <3>3. Unread(l)' = m.wire[i]
      BY <1>7, <3>1, <3>2
    <3>4. QED  BY <3>1, <3>2, <3>3
  <2>2. CASE j # Len(sent) + 1
    <3>0. j \in Int /\ j >= 1 /\ j <= Len(sent) + 1 /\ j # Len(sent) + 1
      BY <1>3, <2>2
    <3>a. PICK c \in Int : c = Len(sent)
      BY <1>0
    <3>1. j \in 1 .. Len(sent) /\ j \in 1 .. Len(sent) + 1
      BY <3>0, <3>a
    <3>2. sent'[j] = sent[j] /\ new[j] = off[j] /\ i \in 1 .. Len(sent[j].wire)
      BY <1>3, <1>9, <3>1
    <3>3. /\ off[j] \in Int
          /\ \A h \in 1 .. Len(sent[j].wire) :
             /\ off[j] + h <= Left
             /\ off[j] + h >= 1 => Unread(off[j] + h) = sent[j].wire[h]
      BY <3>1, Placed
    <3>4. off[j] + i <= Left /\ Unread(off[j] + i) = sent[j].wire[i] /\ off[j] \in Int
      BY <1>14, <3>2, <3>3
    <3>5. off[j] + i \in 1 .. Left
      BY <1>14, <3>2, <3>4
    <3>6. QED  BY <1>6, <3>2, <3>4, <3>5
  <2>3. QED  BY <2>1, <2>2
<1>15. Layout(new)'
  BY <1>11, <1>12, <1>13, <1>14 DEF Layout
<1>16. QED  BY <1>9, <1>15

-----------------------------------------------------------------------------
(***************************************************************************)
(* Byte f of the message with the bytes w is the next one to be read: byte *)
(* i is at place d + i of the buffer, when the buffer goes that far, which *)
(* it does for all of them when there is nothing left on the wire.         *)
(***************************************************************************)
Seen(w, f, d) ==
  /\ pos + 1 = d + f
  /\ \A i \in f .. Len(w) : d + i <= Len(buf) => buf[d + i] = w[i]
  /\ wire = <<>> => d + Len(w) <= Len(buf)

(* From the place where the parser is, the buffer holds bytes of the message. *)
LEMMA Window ==
  ASSUME Buffers, History, NEW off \in [Nat -> Int], Layout(off), NEW j \in 1 .. Len(sent),
         NEW f \in Nat \ {0}, off[j] + f = 1
  PROVE  \E d \in Int : Seen(sent[j].wire, f, d)
<1>1. /\ Len(buf) \in Nat /\ Len(wire) \in Nat /\ pos \in Nat
      /\ Left = (Len(buf) - pos) + Len(wire) /\ Left \in Nat
  BY Lengths
<1>2. Len(sent[j].wire) \in Nat
  BY WireType
<1>3. /\ off[j] \in Int /\ off[j + 1] \in Int
      /\ off[j + 1] = off[j] + Len(sent[j].wire) /\ off[j + 1] <= Left
      /\ \A i \in 1 .. Len(sent[j].wire) :
           off[j] + i >= 1 => Unread(off[j] + i) = sent[j].wire[i]
  BY Placed
<1>a. PICK o \in Int : o = off[j] /\ o + f = 1
  BY <1>3
<1>b. PICK p \in Int : p = pos
  BY <1>1
<1>4. PICK d \in Int : d = p + o
  OBVIOUS
<1>5. pos + 1 = d + f
  <2>1. p + 1 = (p + o) + f
    BY <1>a
  <2>2. QED  BY <1>b, <1>4, <2>1
<1>6. ASSUME NEW i \in f .. Len(sent[j].wire), d + i <= Len(buf)
      PROVE  buf[d + i] = sent[j].wire[i]
  <2>1. i \in 1 .. Len(sent[j].wire) /\ o + i >= 1 /\ pos + (o + i) = d + i
    <3>1. p + (o + i) = (p + o) + i /\ o + i >= 1 /\ i >= 1
      BY <1>a
    <3>2. QED  BY <1>2, <1>4, <1>b, <3>1
  <2>2. Unread(o + i) = sent[j].wire[i]
    BY <1>3, <1>a, <2>1
  <2>3. Unread(o + i) = buf[d + i]
    BY <1>6, <2>1 DEF Unread
  <2>4. QED  BY <2>2, <2>3
<1>7. ASSUME wire = <<>> PROVE d + Len(sent[j].wire) <= Len(buf)
  <2>1. Len(wire) = 0
    BY <1>7, EmptySequence
  <2>2. o + Len(sent[j].wire) <= (Len(buf) - pos) + 0
    BY <1>1, <1>3, <1>a, <2>1
  <2>3. PICK b \in Int, c \in Int : b = Len(buf) /\ c = Len(sent[j].wire)
    <3>1. Len(buf) \in Int /\ Len(sent[j].wire) \in Int
      BY <1>1, <1>2
    <3>2. QED  BY <3>1, Zenon
  <2>4. o + c <= b - p
    BY <1>b, <2>2, <2>3
  <2>5. (p + o) + c <= b
    BY <2>4
  <2>6. QED  BY <1>4, <2>3, <2>5
<1>8. QED  BY <1>5, <1>6, <1>7 DEF Seen

(* seekNewline() finds the first CR LF of the message. *)
LEMMA LineSeen ==
  ASSUME Buffers, NEW w \in Seq(Bytes), NEW f \in Nat \ {0}, NEW d \in Int, Seen(w, f, d),
         NEW e \in f .. Len(w) - 1, NewlineAt(w, e), \A i \in f .. e - 1 : ~NewlineAt(w, i)
  PROVE  /\ HasLine <=> d + e + 1 <= Len(buf)
         /\ HasLine => LineEnd = d + e /\ Line = SubSeq(w, f, e - 1)
<1>1. Len(buf) \in Nat /\ pos \in Nat /\ pos + 1 = d + f /\ Len(w) \in Nat
  BY DEF Buffers, Seen
<1>2. \A i \in f .. Len(w) : d + i <= Len(buf) => buf[d + i] = w[i]
  BY DEF Seen
<1>3. d + e + 1 <= Len(buf) => d + e \in Newlines
  <2>1. SUFFICES ASSUME d + e + 1 <= Len(buf) PROVE d + e \in Newlines
    OBVIOUS
  <2>2. d + e \in pos + 1 .. Len(buf) - 1 /\ d + e <= Len(buf)
    BY <1>1, <2>1
  <2>3. buf[d + e] = w[e]
    <3>1. e \in f .. Len(w)
      BY <1>1
    <3>2. QED  BY <1>2, <2>2, <3>1
  <2>4. e + 1 \in f .. Len(w) /\ d + (e + 1) <= Len(buf) /\ d + (e + 1) = (d + e) + 1
    BY <1>1, <2>1
  <2>5. buf[(d + e) + 1] = w[e + 1]
    BY <1>2, <2>4
  <2>6. buf[d + e].b = "CR" /\ buf[(d + e) + 1].b = "LF"
    BY <2>3, <2>5 DEF NewlineAt
  <2>7. QED  BY <2>2, <2>6 DEF Newlines
<1>4. ASSUME NEW i \in Newlines PROVE i >= d + e /\ i + 1 <= Len(buf) /\ i \in Int
  <2>1. i \in pos + 1 .. Len(buf) - 1 /\ buf[i].b = "CR" /\ buf[i + 1].b = "LF"
    BY DEF Newlines
  <2>2. i \in Int /\ i >= d + f /\ i + 1 <= Len(buf)
    BY <1>1, <2>1
  <2>3. ASSUME i < d + e PROVE FALSE
    <3>1. PICK x \in Int : x = i - d
      BY <2>2
    <3>2. /\ x \in f .. e - 1 /\ x \in f .. Len(w) /\ x + 1 \in f .. Len(w)
          /\ d + x = i /\ d + (x + 1) = i + 1 /\ i <= Len(buf)
      BY <1>1, <2>2, <2>3, <3>1
    <3>3. buf[i] = w[x] /\ buf[i + 1] = w[x + 1]
      BY <1>2, <2>2, <3>2
    <3>4. NewlineAt(w, x)
      BY <2>1, <3>3 DEF NewlineAt
    <3>5. QED  BY <3>2, <3>4
  <2>4. QED  BY <2>2, <2>3
<1>5. HasLine <=> d + e + 1 <= Len(buf)
  <2>1. ASSUME HasLine PROVE d + e + 1 <= Len(buf)
    <3>1. PICK i \in Newlines : TRUE
      BY <2>1 DEF HasLine
    <3>2. i >= d + e /\ i + 1 <= Len(buf) /\ i \in Int
      BY <1>4
    <3>3. QED  BY <1>1, <3>2
  <2>2. QED  BY <1>3, <2>1 DEF HasLine
<1>6. ASSUME HasLine PROVE LineEnd = d + e /\ Line = SubSeq(w, f, e - 1)
  <2>1. d + e \in Newlines /\ \A i \in Newlines : i >= d + e /\ i \in Int
    BY <1>3, <1>4, <1>5, <1>6
  <2>2. \E i \in Newlines : \A j \in Newlines : i <= j
    BY <2>1
  <2>3. LineEnd \in Newlines /\ \A j \in Newlines : LineEnd <= j
    BY <2>2 DEF LineEnd
  <2>4. LineEnd = d + e
    BY <2>1, <2>3
  <2>7. d + e + 1 <= Len(buf)
    BY <1>5, <1>6
  <2>8. PICK x \in Nat \ {0}, y \in Nat, z \in Nat :
          /\ x = pos + 1 /\ y = (d + e) - 1 /\ z = e - 1 /\ x = d + f /\ z = y - d
          /\ x <= y + 1 /\ y + 2 <= Len(buf) /\ f <= z + 1 /\ z <= Len(w)
    <3>1. /\ pos + 1 \in Nat \ {0} /\ (d + e) - 1 \in Nat /\ e - 1 \in Nat
          /\ pos + 1 = d + f /\ e - 1 = ((d + e) - 1) - d
          /\ pos + 1 <= ((d + e) - 1) + 1 /\ ((d + e) - 1) + 2 <= Len(buf)
          /\ f <= (e - 1) + 1 /\ e - 1 <= Len(w)
      BY <1>1, <2>7
    <3>2. QED  BY <3>1
  <2>5. PICK a : a = SubSeq(buf, x, y)
    OBVIOUS
  <2>6. PICK c : c = SubSeq(w, f, z)
    OBVIOUS
  <2>9. IsPart(a, buf, x, y)
    <3>1. buf \in Seq(Bytes) /\ y <= Len(buf) /\ x <= y + 1
      BY <1>1, <2>8 DEF Buffers
    <3>2. QED  BY <2>5, <3>1, Part
  <2>11. IsPart(c, w, f, z)
    <3>1. f <= z + 1 /\ z <= Len(w)
      BY <2>8
    <3>2. QED  BY <2>6, <3>1, Part
  <2>12. (y - x) + 1 = (z - f) + 1 /\ (z - f) + 1 \in Nat
    <3>1. x = d + f /\ z = y - d /\ f <= z + 1
      BY <2>8
    <3>2. QED  BY <3>1
  <2>13. ASSUME NEW i \in 1 .. (z - f) + 1 PROVE a[i] = c[i]
    <3>1. /\ (x + i) - 1 = d + ((f + i) - 1) /\ (f + i) - 1 \in f .. Len(w)
          /\ d + ((f + i) - 1) <= Len(buf)
      BY <1>1, <2>8
    <3>3. buf[d + ((f + i) - 1)] = w[(f + i) - 1]
      BY <1>2, <3>1
    <3>4. a[i] = buf[(x + i) - 1] /\ c[i] = w[(f + i) - 1]
      BY <2>9, <2>11, <2>12 DEF IsPart
    <3>5. QED  BY <3>1, <3>3, <3>4
  <2>14. a = c
    <3>1. a \in Seq(Bytes) /\ c \in Seq(Bytes) /\ Len(a) = (z - f) + 1 /\ Len(c) = (z - f) + 1
      BY <2>9, <2>11, <2>12 DEF IsPart
    <3>2. \A i \in 1 .. Len(a) : a[i] = c[i]
      BY <2>13, <3>1
    <3>3. QED  BY <3>1, <3>2, SeqEqual
  <2>15. Line = a
    BY <2>4, <2>5, <2>8 DEF Line
  <2>16. QED  BY <2>4, <2>6, <2>8, <2>14, <2>15
<1>7. QED  BY <1>5, <1>6

(* readLongLong() of the line after the type byte of an item at s. *)
LEMMA NumberSeen ==
  ASSUME Buffers, NEW w \in Seq(Bytes), NEW s \in Nat \ {0}, NEW d \in Int,
         Seen(w, s + 1, d), NumberLine(w, s)
  PROVE  /\ HasLine <=> d + s + 3 <= Len(buf)
         /\ HasLine => LineEnd = d + s + 2 /\ ReadLongLong = w[s + 1].n
         /\ w[s + 1].n \in Int
<1>1. s + 3 <= Len(w) /\ w[s + 1].b = "number" /\ NewlineAt(w, s + 2) /\ Len(w) \in Nat
  BY DEF NumberLine
<1>2. s + 1 \in Nat \ {0} /\ s + 2 \in s + 1 .. Len(w) - 1 /\ s + 1 \in 1 .. Len(w)
  BY <1>1
<1>3. \A i \in s + 1 .. (s + 2) - 1 : ~NewlineAt(w, i)
  <2>1. \A i \in s + 1 .. (s + 2) - 1 : i = s + 1
    OBVIOUS
  <2>2. ~NewlineAt(w, s + 1)
    BY <1>1 DEF NewlineAt
  <2>3. QED  BY <2>1, <2>2
<1>4. /\ HasLine <=> d + (s + 2) + 1 <= Len(buf)
      /\ HasLine => LineEnd = d + (s + 2) /\ Line = SubSeq(w, s + 1, (s + 2) - 1)
  BY <1>1, <1>2, <1>3, LineSeen
<1>5. w[s + 1] \in Bytes
  BY <1>2
<1>6. w[s + 1].n \in Int
  BY <1>5 DEF Bytes
<1>7. PICK l : l = SubSeq(w, s + 1, (s + 2) - 1)
  OBVIOUS
<1>8. Len(l) = 1 /\ l[1] = w[s + 1]
  <2>1. (s + 2) - 1 = s + 1 /\ s + 1 \in 1 .. Len(w) + 1 /\ s + 1 \in (s + 1) - 1 .. Len(w)
        /\ (s + 1) - (s + 1) + 1 = 1 /\ (s + 1) + 1 - 1 = s + 1
    BY <1>1
  <2>2. l = SubSeq(w, s + 1, s + 1)
    BY <1>7, <2>1
  <2>3. /\ Len(l) = (s + 1) - (s + 1) + 1
        /\ \A i \in 1 .. (s + 1) - (s + 1) + 1 : l[i] = w[(s + 1) + i - 1]
    BY <2>1, <2>2, SubSeqProperties
  <2>4. QED  BY <2>1, <2>3
<1>9. HasLine => ReadLongLong = w[s + 1].n
  <2>1. SUFFICES ASSUME HasLine PROVE ReadLongLong = w[s + 1].n
    OBVIOUS
  <2>2. Line = l /\ l[1].b = "number"
    BY <1>1, <1>4, <1>7, <1>8, <2>1
  <2>3. ~Signed /\ Digits = l
    BY <2>2 DEF Signed, Digits
  <2>4. l # <<>>
    <3>1. Len(l) # Len(<<>>)
      BY <1>8
    <3>2. QED  BY <3>1, Zenon
  <2>5. QED  BY <1>8, <2>2, <2>3, <2>4 DEF ReadLongLong
<1>10. PICK x \in Int : x = Len(buf)
  BY DEF Buffers
<1>11. d + (s + 2) + 1 = d + s + 3 /\ d + (s + 2) = d + s + 2
  OBVIOUS
<1>12. QED  BY <1>4, <1>6, <1>9, <1>11

-----------------------------------------------------------------------------
(* An item is somewhere in its message. *)
LEMMA ItemPlace ==
  ASSUME NEW m \in Messages, Grammatical(m), NEW s \in DOMAIN m.items
  PROVE  /\ m.wire \in Seq(Bytes) /\ Len(m.wire) \in Nat /\ s \in 1 .. Len(m.wire)
         /\ s \in Nat \ {0} /\ m.wire[s] \in Bytes /\ Item(m, s)
<1>1. m.wire \in Seq(Bytes)
  BY MessagesAssumption DEF Bytes
<1>2. Item(m, s)
  BY DEF Grammatical
<1>3. s \in 1 .. Len(m.wire)
  BY <1>2 DEF Item
<1>4. Len(m.wire) \in Nat /\ s \in Nat \ {0} /\ m.wire[s] \in Bytes
  BY <1>1, <1>3
<1>5. QED  BY <1>1, <1>2, <1>3, <1>4

(* An item whose type byte announces a line is one, and good. *)
LEMMA LineOf ==
  ASSUME NEW m \in Messages, Grammatical(m), NEW s \in DOMAIN m.items,
         m.wire[s].b \in {"-", "+", ":"}
  PROVE  m.items[s].good /\ LineItem(m.wire, s, m.items[s])
<1>1. Item(m, s)
  BY ItemPlace
<1>2. ~BadItem(m, s)
  BY DEF BadItem, Elements, TypeBytes
<1>3. ~BulkItem(m.wire, s, m.items[s]) /\ ~EmptyItem(m.wire, s, m.items[s]) /\ ~ArrayItem(m, s)
  BY DEF BulkItem, EmptyItem, ArrayItem, Elements
<1>4. QED  BY <1>1, <1>2, <1>3 DEF Item

(* The same of strings. *)
LEMMA BulkOf ==
  ASSUME NEW m \in Messages, Grammatical(m), NEW s \in DOMAIN m.items, m.wire[s].b = "$"
  PROVE  m.items[s].good /\ BulkItem(m.wire, s, m.items[s])
<1>1. Item(m, s)
  BY ItemPlace
<1>2. ~BadItem(m, s)
  BY DEF BadItem, Elements, TypeBytes
<1>3. ~LineItem(m.wire, s, m.items[s]) /\ ~EmptyItem(m.wire, s, m.items[s]) /\ ~ArrayItem(m, s)
  BY DEF LineItem, EmptyItem, ArrayItem, Elements
<1>4. QED  BY <1>1, <1>2, <1>3 DEF Item

(* An array that is not too deep is empty or has elements. *)
LEMMA ArrayOf ==
  ASSUME NEW m \in Messages, Grammatical(m), NEW s \in DOMAIN m.items, m.wire[s].b = "*",
         m.items[s].level # MaxDepth
  PROVE  /\ NumberLine(m.wire, s)
         /\ Elements(m, s) \/ (m.items[s].good /\ EmptyItem(m.wire, s, m.items[s]))
<1>1. Item(m, s)
  BY ItemPlace
<1>2. BadItem(m, s) => Elements(m, s)
  BY DEF BadItem, TypeBytes
<1>3. ~LineItem(m.wire, s, m.items[s]) /\ ~BulkItem(m.wire, s, m.items[s])
  BY DEF LineItem, BulkItem
<1>4. ArrayItem(m, s) => Elements(m, s)
  BY DEF ArrayItem
<1>5. Elements(m, s) \/ (m.items[s].good /\ EmptyItem(m.wire, s, m.items[s]))
  BY <1>1, <1>2, <1>3, <1>4 DEF Item
<1>6. NumberLine(m.wire, s)
  BY <1>5 DEF Elements, EmptyItem
<1>7. QED  BY <1>5, <1>6

(* A bad type byte, and an array that is too deep, are not good. *)
LEMMA BadOf ==
  ASSUME NEW m \in Messages, Grammatical(m), NEW s \in DOMAIN m.items,
         m.wire[s].b \notin TypeBytes \/ (m.wire[s].b = "*" /\ m.items[s].level = MaxDepth)
  PROVE  ~m.items[s].good
<1>1. Item(m, s)
  BY ItemPlace
<1>2. ~LineItem(m.wire, s, m.items[s]) /\ ~BulkItem(m.wire, s, m.items[s])
  BY DEF LineItem, BulkItem, TypeBytes
<1>3. ~(m.items[s].level < MaxDepth) \/ m.wire[s].b # "*"
  BY BoundsAssumption DEF TypeBytes
<1>4. ~EmptyItem(m.wire, s, m.items[s]) /\ ~ArrayItem(m, s)
  BY <1>3 DEF EmptyItem, ArrayItem, Elements
<1>5. QED  BY <1>1, <1>2, <1>4 DEF Item

(* The elements of an array follow one another, and all but the last are good. *)
Kids(m, s, kids) ==
  \A k \in 1 .. Len(kids) :
    /\ kids[k] \in DOMAIN m.items /\ m.items[kids[k]].level = m.items[s].level + 1
    /\ kids[k] = IF k = 1 THEN s + 4 ELSE m.items[kids[k - 1]].next
    /\ k < Len(kids) => m.items[kids[k]].good

LEMMA ElementsOf ==
  ASSUME NEW m \in Messages, Grammatical(m), NEW s \in DOMAIN m.items, Elements(m, s),
         NEW kids, kids = m.items[s].kids
  PROVE  /\ kids \in Seq(Nat) /\ Len(kids) \in Nat /\ m.wire[s + 1].n \in Int
         /\ Len(kids) >= 1 /\ Len(kids) <= m.wire[s + 1].n
         /\ m.items[s].level \in Nat /\ Kids(m, s, kids)
<1>1. Item(m, s) /\ s \in Nat \ {0} /\ m.wire \in Seq(Bytes) /\ Len(m.wire) \in Nat
  BY ItemPlace
<1>2. kids \in Seq(Nat) /\ m.items[s].level \in Nat
  BY <1>1 DEF Item
<1>3. s + 1 \in 1 .. Len(m.wire)
  BY <1>1 DEF Elements, NumberLine
<1>4. m.wire[s + 1] \in Bytes
  BY <1>1, <1>3
<1>5. m.wire[s + 1].n \in Int
  BY <1>4 DEF Bytes
<1>6. Len(kids) \in 1 .. m.wire[s + 1].n
  BY DEF Elements
<1>7. Len(kids) \in Nat
  BY <1>2
<1>8. Kids(m, s, kids)
  BY Zenon DEF Elements, Kids
<1>9. Len(kids) >= 1 /\ Len(kids) <= m.wire[s + 1].n
  BY <1>5, <1>6, <1>7
<1>10. QED  BY <1>2, <1>5, <1>7, <1>8, <1>9, Zenon

(* An array is good when its last element is, *)
LEMMA GoodArray ==
  ASSUME NEW m \in Messages, Grammatical(m), NEW s \in DOMAIN m.items, Elements(m, s),
         m.items[m.items[s].kids[Len(m.items[s].kids)]].good
  PROVE  m.items[s].good
<1>1. Item(m, s) /\ m.wire[s].b = "*" /\ m.items[s].level < MaxDepth
  BY ItemPlace DEF Elements
<1>2. m.items[s].level \in Nat
  BY ElementsOf
<1>3. m.items[s].level # MaxDepth
  BY <1>1, <1>2, BoundsAssumption
<1>4. ~BadItem(m, s)
  BY <1>1, <1>3 DEF BadItem, TypeBytes
<1>5. QED  BY <1>1, <1>4 DEF Item

(* and then it has all its elements, and they are good. *)
LEMMA ArrayGood ==
  ASSUME NEW m \in Messages, Grammatical(m), NEW s \in DOMAIN m.items, Elements(m, s),
         m.items[s].good
  PROVE  /\ ArrayItem(m, s)
         /\ \A k \in 1 .. Len(m.items[s].kids) : m.items[m.items[s].kids[k]].good
<1>1. Item(m, s) /\ m.wire[s].b = "*"
  BY ItemPlace DEF Elements
<1>2. ~LineItem(m.wire, s, m.items[s]) /\ ~BulkItem(m.wire, s, m.items[s])
  BY <1>1 DEF LineItem, BulkItem
<1>3. m.wire[s + 1].n \in Int /\ m.wire[s + 1].n >= 1 /\ Len(m.items[s].kids) \in Nat
  BY ElementsOf
<1>4. ~EmptyItem(m.wire, s, m.items[s])
  BY <1>3 DEF EmptyItem
<1>5. ArrayItem(m, s)
  BY <1>1, <1>2, <1>4 DEF Item
<1>6. m.items[m.items[s].kids[Len(m.items[s].kids)]].good
  BY <1>5 DEF ArrayItem
<1>7. \A k \in 1 .. Len(m.items[s].kids) :
        k < Len(m.items[s].kids) => m.items[m.items[s].kids[k]].good
  BY ElementsOf DEF Kids
<1>8. \A k \in 1 .. Len(m.items[s].kids) : k < Len(m.items[s].kids) \/ k = Len(m.items[s].kids)
  BY <1>3
<1>9. QED  BY <1>5, <1>6, <1>7, <1>8

-----------------------------------------------------------------------------
(***************************************************************************)
(* The stack follows a path in the message being read: entry i of rstack   *)
(* is for the item at nodes[i], which is good if the message is.  The item *)
(* above an entry is the element that its index says, and the elements     *)
(* that are done have the values of their items.                           *)
(***************************************************************************)
Node(m, s, i) ==
  s \in DOMAIN m.items /\ m.items[s].level = i - 1 /\ (m.ok => m.items[s].good)

Link(m, s, t, task, top) ==
  LET kids == m.items[s].kids IN
  /\ Elements(m, s) /\ task.elements = m.wire[s + 1].n
  /\ top.idx + 1 \in 1 .. Len(kids) /\ t = kids[top.idx + 1]
  /\ \A k \in 1 .. Len(task.done) : k <= Len(kids) /\ task.done[k] = m.items[kids[k]].value

Path(m, s, n, nodes) ==
  /\ nodes[1] = 1 /\ \A i \in 1 .. n : Node(m, nodes[i], i)
  /\ \A i \in 1 .. n - 1 : Link(m, nodes[i], nodes[i + 1], s[i], s[i + 1])

(* The next byte is the type byte of the item, or the one after it; *)
Reading(m, s, n, o) ==
  /\ obj = <<>>
  /\ IF rstack[n].type = "none" THEN o + s = 1
     ELSE o + s = 0 /\ m.wire[s].b \in TypeBytes /\ rstack[n].type = TypeOf(m.wire[s].b)

(* or the item has been read. *)
HasRead(m, s, n, o) ==
  /\ m.items[s].good /\ o + m.items[s].next = 1
  /\ obj = IF n = 1 THEN <<m.items[s].value>> ELSE <<>>

(* Byte i of the message is at place o + i of those not read. *)
Within(m, n, o, nodes) ==
  /\ Path(m, rstack, n, nodes)
  /\ IF at = "move" THEN HasRead(m, nodes[n], n, o) ELSE Reading(m, nodes[n], n, o)

(* A path depends on these fields of the tasks. *)
LEMMA PathPart ==
  ASSUME NEW m, NEW r, NEW q, NEW n \in Nat, NEW nodes, NEW others, Path(m, r, n, nodes),
         NEW k \in 1 .. n, \A i \in 1 .. k : others[i] = nodes[i],
         \A i \in 1 .. k - 1 : /\ q[i].elements = r[i].elements /\ q[i].done = r[i].done
                               /\ q[i + 1].idx = r[i + 1].idx
  PROVE  Path(m, q, k, others)
<1>1. others[1] = 1
  BY DEF Path
<1>2. \A i \in 1 .. k : Node(m, others[i], i)
  BY DEF Path
<1>3. ASSUME NEW i \in 1 .. k - 1
      PROVE  Link(m, others[i], others[i + 1], q[i], q[i + 1])
  <2>1. i \in 1 .. n - 1 /\ i \in 1 .. k /\ i + 1 \in 1 .. k
    OBVIOUS
  <2>2. Link(m, nodes[i], nodes[i + 1], r[i], r[i + 1])
    BY <2>1 DEF Path
  <2>3. others[i] = nodes[i] /\ others[i + 1] = nodes[i + 1]
    BY <2>1
  <2>4. q[i].elements = r[i].elements /\ q[i].done = r[i].done /\ q[i + 1].idx = r[i + 1].idx
    OBVIOUS
  <2>5. QED  BY <2>2, <2>3, <2>4, Zenon DEF Link
<1>4. QED  BY <1>1, <1>2, <1>3 DEF Path

(* A path is made longer. *)
LEMMA PathMore ==
  ASSUME NEW m, NEW q, NEW k \in Nat \ {0}, NEW nodes, Path(m, q, k, nodes),
         Node(m, nodes[k + 1], k + 1), Link(m, nodes[k], nodes[k + 1], q[k], q[k + 1])
  PROVE  Path(m, q, k + 1, nodes)
<1>1. \A i \in 1 .. k + 1 : i \in 1 .. k \/ i = k + 1
  OBVIOUS
<1>2. \A i \in 1 .. k + 1 : Node(m, nodes[i], i)
  BY <1>1 DEF Path
<1>3. \A i \in 1 .. (k + 1) - 1 : i \in 1 .. k - 1 \/ i = k
  OBVIOUS
<1>4. \A i \in 1 .. (k + 1) - 1 : Link(m, nodes[i], nodes[i + 1], q[i], q[i + 1])
  BY <1>3 DEF Path
<1>5. QED  BY <1>2, <1>4 DEF Path

(* The elements of what Append makes. *)
LEMMA AppendedAt ==
  ASSUME NEW s, Sequence(s), NEW o
  PROVE  /\ Append(s, o)[Len(s) + 1] = o
         /\ \A i \in 1 .. Len(s) : Append(s, o)[i] = s[i]
<1>1. PICK S : s \in Seq(S) /\ o \in S
  <2>1. s \in Seq({s[i] : i \in 1 .. Len(s)} \cup {o})
    BY DEF Sequence
  <2>2. QED  BY <2>1
<1>2. QED  BY <1>1, AppendProperties

(* The stack that Complete leaves when the item is an element of an array. *)
WithDone(q, stack, n, o) ==
  /\ \A i \in 1 .. n : i # n - 1 => q[i] = stack[i]
  /\ q[n - 1].elements = stack[n - 1].elements /\ q[n - 1].idx = stack[n - 1].idx
  /\ q[n - 1].done = Append(stack[n - 1].done, o)
  /\ Sequence(stack[n - 1].done) /\ Sequence(q) /\ Len(q) = n

LEMMA Added ==
  ASSUME NEW stack, NEW n \in Nat, n > 1, Tasks(stack, n), NEW o, Complete(o, stack),
         NEW q, q = rstack'
  PROVE  WithDone(q, stack, n, o)
<1>1. DOMAIN stack = 1 .. n /\ n - 1 \in 1 .. n /\ Sequence(stack) /\ Len(stack) = n
  BY SequenceElim DEF Tasks
<1>2. PICK t : t = stack[n - 1]
  OBVIOUS
<1>3. Task(t)
  BY <1>1, <1>2 DEF Tasks
<1>4. PICK d : d = Append(t.done, o)
  OBVIOUS
<1>a. q = [stack EXCEPT ![n - 1].done = Append(@, o)]
  BY <1>1 DEF Complete
<1>5. /\ \A i \in 1 .. n : i # n - 1 => q[i] = stack[i]
      /\ q[n - 1] = [t EXCEPT !.done = d] /\ q = [i \in 1 .. n |-> q[i]]
  BY <1>1, <1>2, <1>4, <1>a
<1>6. PICK u : u = q[n - 1]
  OBVIOUS
<1>7. u.elements = t.elements /\ u.idx = t.idx /\ u.done = d
  BY <1>3, <1>5, <1>6 DEF Task
<1>8. Sequence(q) /\ Len(q) = n
  BY <1>5, SequenceIntro
<1>9. QED  BY <1>2, <1>3, <1>4, <1>5, <1>6, <1>7, <1>8 DEF Task, WithDone

(* An item that has been read is put where the path says. *)
LEMMA Finished ==
  ASSUME NEW stack, NEW n \in Nat \ {0}, Tasks(stack, n), Nested(stack, n, 0),
         NEW m, NEW nodes, Path(m, stack, n, nodes), obj = <<>>,
         Complete(m.items[nodes[n]].value, stack), m.items[nodes[n]].good,
         NEW o, o + m.items[nodes[n]].next = 1
  PROVE  Within(m, n, o, nodes)' /\ rstack' # <<>> /\ Len(rstack') = n /\ at' = "move"
<1>1. Len(stack) = n /\ Sequence(stack) /\ at' = "move"
  BY DEF Tasks, Complete
<1>2. CASE n = 1
  <2>1. rstack' = stack /\ obj' = <<m.items[nodes[n]].value>>
    BY <1>1, <1>2 DEF Complete
  <2>2. HasRead(m, nodes[n], n, o)'
    BY <1>2, <2>1 DEF HasRead
  <2>3. rstack' # <<>>
    BY <1>1, <2>1, SequenceElim
  <2>4. QED  BY <1>1, <2>1, <2>2, <2>3 DEF Within
<1>3. CASE n # 1
  <2>1. PICK v : v = m.items[nodes[n]].value
    OBVIOUS
  <2>2. PICK q : q = rstack'
    OBVIOUS
  <2>a. obj' = <<>> /\ Complete(v, stack)
    BY <1>1, <1>3, <2>1 DEF Complete
  <2>3. n > 1 /\ n - 1 \in 1 .. n /\ n - 1 \in Nat \ {0} /\ (n - 1) + 1 = n /\ n \in 2 .. n
        /\ n - 1 \in 1 .. n - 1 /\ n \in 1 .. n /\ n # n - 1
    BY <1>3
  <2>4. PICK t : t = stack[n - 1]
    OBVIOUS
  <2>5. /\ \A i \in 1 .. n : i # n - 1 => q[i] = stack[i]
        /\ q[n - 1].elements = t.elements /\ q[n - 1].idx = t.idx
        /\ q[n - 1].done = Append(t.done, v)
        /\ Sequence(t.done) /\ Sequence(q) /\ Len(q) = n
    <3>2. WithDone(q, stack, n, v)
      <4>1. n \in Nat /\ n > 1 /\ Tasks(stack, n) /\ Complete(v, stack) /\ q = rstack'
        BY <2>2, <2>3, <2>a
      <4>2. QED  BY <4>1, Added
    <3>3. QED  BY <2>4, <3>2, Zenon DEF WithDone
  <2>6. Path(m, q, n - 1, nodes)
    <3>1. ASSUME NEW i \in 1 .. (n - 1) - 1
          PROVE  /\ q[i].elements = stack[i].elements /\ q[i].done = stack[i].done
                 /\ q[i + 1].idx = stack[i + 1].idx
      <4>1. i \in 1 .. n /\ i # n - 1 /\ i + 1 \in 1 .. n
        OBVIOUS
      <4>2. q[i] = stack[i]
        BY <2>5, <4>1
      <4>3. CASE i + 1 = n - 1
        BY <2>4, <2>5, <4>2, <4>3
      <4>4. CASE i + 1 # n - 1
        BY <2>5, <4>1, <4>2, <4>4
      <4>5. QED  BY <4>3, <4>4
    <3>2. QED  BY <2>3, <3>1, PathPart
  <2>7. Node(m, nodes[n], n)
    BY <2>3 DEF Path
  <2>8. Link(m, nodes[n - 1], nodes[n], t, stack[n])
    BY <2>3, <2>4 DEF Path
  <2>9. stack[n].idx \in Int /\ Len(t.done) = stack[n].idx
    <3>1. Task(stack[n])
      BY <2>3 DEF Tasks
    <3>2. Len(stack[n - 1].done) = stack[n].idx + 0
      BY <2>3 DEF Nested
    <3>3. stack[n].idx \in Int
      BY <3>1 DEF Task
    <3>4. QED  BY <2>4, <3>2, <3>3
  <2>10. PICK u : u = q[n - 1]
    OBVIOUS
  <2>11. Len(u.done) = Len(t.done) + 1 /\ u.done[Len(t.done) + 1] = v
         /\ (\A i \in 1 .. Len(t.done) : u.done[i] = t.done[i]) /\ u.elements = t.elements
    <3>1. u.done = Append(t.done, v) /\ Sequence(t.done) /\ u.elements = t.elements
      BY <2>5, <2>10
    <3>2. QED  BY <3>1, Appended, AppendedAt
  <2>12. Link(m, nodes[n - 1], nodes[n], u, stack[n])
    <3>1. PICK p, kids : p = nodes[n - 1] /\ kids = m.items[p].kids
      OBVIOUS
    <3>2. /\ Elements(m, p) /\ u.elements = m.wire[p + 1].n
          /\ stack[n].idx + 1 \in 1 .. Len(kids) /\ nodes[n] = kids[stack[n].idx + 1]
      BY <2>8, <2>11, <3>1 DEF Link
    <3>3. ASSUME NEW k \in 1 .. Len(u.done)
          PROVE  k <= Len(kids) /\ u.done[k] = m.items[kids[k]].value
      <4>1. CASE k = Len(t.done) + 1
        <5>1. k = stack[n].idx + 1 /\ u.done[k] = v
          BY <2>9, <2>11, <4>1
        <5>2. k <= Len(kids) /\ nodes[n] = kids[k]
          BY <3>2, <5>1
        <5>3. QED  BY <2>1, <5>1, <5>2
      <4>2. CASE k # Len(t.done) + 1
        <5>1. k \in 1 .. Len(t.done)
          BY <2>9, <2>11, <4>2
        <5>2. k <= Len(kids) /\ t.done[k] = m.items[kids[k]].value
          BY <2>8, <3>1, <5>1 DEF Link
        <5>3. QED  BY <2>11, <5>1, <5>2
      <4>3. QED  BY <4>1, <4>2
    <3>4. QED  BY <3>1, <3>2, <3>3 DEF Link
  <2>13. Path(m, q, (n - 1) + 1, nodes)
    <3>1. q[n] = stack[n]
      BY <2>3, <2>5
    <3>2. QED  BY <2>3, <2>6, <2>7, <2>10, <2>12, <3>1, PathMore
  <2>14. Path(m, q, n, nodes)
    BY <2>3, <2>13
  <2>15. HasRead(m, nodes[n], n, o)'
    BY <1>3, <2>a DEF HasRead
  <2>16. q # <<>>
    BY <2>5, <2>3, SequenceElim
  <2>17. QED  BY <1>1, <2>2, <2>5, <2>14, <2>15, <2>16 DEF Within
<1>4. QED  BY <1>2, <1>3

-----------------------------------------------------------------------------
(***************************************************************************)
(* Where the parser is: before a message, whether or not it has been asked *)
(* for a reply; after one, which it is about to return; or within one.     *)
(***************************************************************************)
Before(off) ==
  /\ at # "move" /\ obj = <<>> /\ off[Len(got) + 1] = 0
  /\ IF rstack = <<>> THEN at = "caller"
     ELSE Len(rstack) = 1 /\ rstack[1].type = "none" /\ Len(got) = Len(sent)

After(off) ==
  /\ at = "process" /\ rstack = <<>> /\ off[Len(got) + 2] = 0 /\ Len(got) < Len(sent)
  /\ sent[Len(got) + 1].ok /\ obj = <<sent[Len(got) + 1].value>>

Inside(off, nodes) ==
  /\ rstack # <<>> /\ Len(got) < Len(sent)
  /\ Within(sent[Len(got) + 1], Len(rstack), off[Len(got) + 1], nodes)

Parse ==
  \E off \in [Nat -> Int] :
    Layout(off) /\ (Before(off) \/ After(off) \/ \E nodes : Inside(off, nodes))

(* Every reply is one of the protocol. *)
Grammar == \A m \in Messages : Grammatical(m)

(* The parser is within message m, that comes after the g first ones. *)
Locus(off, nodes, m, n, o, g) ==
  /\ off \in [Nat -> Int] /\ Layout(off)
  /\ g \in Nat /\ g = Len(got) /\ g + 1 \in 1 .. Len(sent)
  /\ m \in Messages /\ m = sent[g + 1] /\ Grammatical(m)
  /\ n \in Nat \ {0} /\ n = Len(rstack) /\ Tasks(rstack, n)
  /\ o \in Int /\ o = off[g + 1] /\ Within(m, n, o, nodes)

(* There is such a message when the parser is within one. *)
LEMMA Located ==
  ASSUME Grammar, RInv, History, NEW off \in [Nat -> Int], Layout(off),
         NEW nodes, Inside(off, nodes)
  PROVE  \E m, n, o, g : Locus(off, nodes, m, n, o, g)
<1>1. PICK g \in Nat : g = Len(got)
  BY Lengths DEF RInv
<1>2. g < Len(sent) /\ Len(sent) \in Nat
  BY <1>1, Lengths DEF Inside, RInv
<1>3. g + 1 \in 1 .. Len(sent) /\ g + 1 \in Nat
  BY <1>1, <1>2
<1>4. PICK m : m = sent[g + 1] /\ m \in Messages
  BY <1>3, WireType
<1>5. Grammatical(m)
  BY <1>4 DEF Grammar
<1>6. PICK n \in 0 .. MaxDepth + 1 : Tasks(rstack, n)
  BY DEF RInv, Stack
<1>7. n \in Nat \ {0} /\ n = Len(rstack)
  BY <1>6, SequenceElim DEF Tasks, Inside
<1>8. PICK o \in Int : o = off[g + 1]
  BY <1>3
<1>9. Within(m, n, o, nodes)
  BY <1>1, <1>4, <1>7, <1>8 DEF Inside
<1>10. Locus(off, nodes, m, n, o, g)
  BY <1>1, <1>3, <1>4, <1>5, <1>6, <1>7, <1>8, <1>9 DEF Locus
<1>11. QED  BY <1>10

(* It is there when there is a byte to read or an item that has begun. *)
LEMMA Here ==
  ASSUME Grammar, RInv, History, Parse, rstack # <<>>,
         at = "move" \/ pos < Len(buf) \/ Cur.type # "none"
  PROVE  \E off, nodes, m, n, o, g : Locus(off, nodes, m, n, o, g)
<1>1. PICK off \in [Nat -> Int] :
        Layout(off) /\ (Before(off) \/ After(off) \/ \E nodes : Inside(off, nodes))
  BY DEF Parse
<1>2. ~After(off)
  BY DEF After
<1>3. ~Before(off)
  <2>1. SUFFICES ASSUME Before(off) PROVE FALSE
    OBVIOUS
  <2>2. at # "move" /\ off[Len(sent) + 1] = 0 /\ Len(rstack) = 1 /\ rstack[1].type = "none"
    BY <2>1 DEF Before
  <2>3. Left = 0
    BY <1>1, <2>2 DEF Layout
  <2>4. /\ Len(buf) \in Nat /\ Len(wire) \in Nat /\ pos \in Nat /\ pos <= Len(buf)
        /\ Left = (Len(buf) - pos) + Len(wire)
    BY Lengths DEF RInv
  <2>5. ~(pos < Len(buf))
    BY <2>3, <2>4
  <2>6. QED  BY <2>2, <2>5 DEF Cur
<1>4. PICK nodes : Inside(off, nodes)
  BY <1>1, <1>2, <1>3
<1>5. QED  BY <1>1, <1>4, Located

(* What is known of the item at the top of the stack. *)
LEMMA Top ==
  ASSUME NEW off, NEW nodes, NEW m, NEW n, NEW o, NEW g, Locus(off, nodes, m, n, o, g),
         NEW s, s = nodes[n]
  PROVE  /\ Path(m, rstack, n, nodes) /\ Node(m, s, n) /\ s \in DOMAIN m.items
         /\ m \in Messages /\ Grammatical(m)
         /\ m.wire \in Seq(Bytes) /\ Len(m.wire) \in Nat /\ s \in 1 .. Len(m.wire)
         /\ s \in Nat \ {0} /\ m.wire[s] \in Bytes
         /\ Cur = rstack[n] /\ Task(rstack[n]) /\ n \in Nat \ {0} /\ o \in Int
<1>1. n \in Nat \ {0} /\ Path(m, rstack, n, nodes) /\ m \in Messages /\ Grammatical(m)
      /\ Cur = rstack[n] /\ o \in Int
  BY DEF Locus, Within, Cur
<1>2. n \in 1 .. n
  BY <1>1
<1>3. Node(m, s, n)
  BY <1>1, <1>2 DEF Path
<1>4. s \in DOMAIN m.items
  BY <1>3 DEF Node
<1>5. Task(rstack[n])
  BY <1>2 DEF Locus, Tasks
<1>6. QED  BY <1>1, <1>3, <1>4, <1>5, ItemPlace

(* The bytes that are next. *)
LEMMA NextBytes ==
  ASSUME Buffers, History, NEW off, NEW nodes, NEW m, NEW n, NEW o, NEW g,
         Locus(off, nodes, m, n, o, g), NEW f \in Nat \ {0}, o + f = 1
  PROVE  \E d \in Int : Seen(m.wire, f, d)
<1>1. /\ off \in [Nat -> Int] /\ Layout(off) /\ g + 1 \in 1 .. Len(sent) /\ m = sent[g + 1]
      /\ off[g + 1] + f = 1
  BY DEF Locus
<1>2. QED  BY <1>1, Window

(* The cursor moves on within the message. *)
LEMMA Arrived ==
  ASSUME Buffers, Buffers', History, NEW off, NEW nodes, NEW m, NEW n, NEW o, NEW g,
         Locus(off, nodes, m, n, o, g),
         UNCHANGED <<sent, wire, buf, got>>, NEW k \in Nat, pos' = pos + k,
         NEW d, NEW others, rstack' # <<>>, Len(rstack') = d, Within(m, d, o - k, others)'
  PROVE  Parse'
<1>1. /\ off \in [Nat -> Int] /\ Layout(off) /\ g + 1 \in 1 .. Len(sent) /\ m = sent[g + 1]
      /\ off[g + 1] = o /\ g = Len(got) /\ g \in Nat
  BY DEF Locus
<1>2. PICK new \in [Nat -> Int] : Layout(new)' /\ \A j \in Nat : new[j] = off[j] - k
  BY <1>1, Consumed
<1>3. new[g + 1] = o - k /\ g < Len(sent)
  <2>1. Len(sent) \in Nat /\ g + 1 \in Nat
    BY <1>1, Lengths
  <2>2. new[g + 1] = o - k
    BY <1>1, <1>2, <2>1
  <2>3. g < Len(sent)
    BY <1>1, <2>1
  <2>4. QED  BY <2>2, <2>3
<1>4. Inside(new, others)'
  <2>1. /\ Len(got') < Len(sent') /\ m = sent'[Len(got') + 1] /\ new[Len(got') + 1] = o - k
    BY <1>1, <1>3
  <2>2. QED  BY <2>1 DEF Inside
<1>5. QED  BY <1>2, <1>4 DEF Parse

(* ReadType reads the type byte of the item, *)
LEMMA TypeByte ==
  ASSUME RInv, History, at = "process", Cur.type = "none", pos < Len(buf),
         NEW off, NEW nodes, NEW m, NEW n, NEW o, NEW g, Locus(off, nodes, m, n, o, g),
         NEW s, s = nodes[n]
  PROVE  buf[pos + 1] = m.wire[s] /\ o + s = 1 /\ obj = <<>>
<1>1. /\ Cur = rstack[n] /\ s \in Nat \ {0} /\ s \in 1 .. Len(m.wire) /\ o \in Int
      /\ Len(m.wire) \in Nat
  BY Top
<1>2. o + s = 1 /\ obj = <<>>
  BY <1>1 DEF Locus, Within, Reading
<1>3. Buffers
  BY DEF RInv
<1>4. PICK d \in Int : Seen(m.wire, s, d)
  BY <1>1, <1>2, <1>3, NextBytes
<1>5. pos + 1 = d + s /\ \A i \in s .. Len(m.wire) : d + i <= Len(buf) => buf[d + i] = m.wire[i]
  BY <1>4 DEF Seen
<1>6. d + s <= Len(buf) /\ s \in s .. Len(m.wire)
  <2>1. pos \in Nat /\ Len(buf) \in Nat
    BY <1>3, Lengths
  <2>2. pos + 1 <= Len(buf)
    BY <2>1
  <2>3. QED  BY <1>1, <1>5, <2>2
<1>7. buf[d + s] = m.wire[s]
  BY <1>5, <1>6
<1>8. QED  BY <1>2, <1>5, <1>7

(* and the parser then has begun the item. *)
LEMMA ReadTypeStep ==
  ASSUME Grammar, RInv, RInv', History, Parse, ReadType
  PROVE  Parse'
<1>0. /\ at = "process" /\ rstack # <<>> /\ Cur.type = "none" /\ pos < Len(buf)
      /\ buf[pos + 1].b \in TypeBytes /\ pos' = pos + 1
      /\ rstack' = [rstack EXCEPT ![Len(rstack)].type = TypeOf(buf[pos + 1].b)]
      /\ UNCHANGED <<sent, wire, buf, err, obj, at, got, last>>
  BY DEF ReadType
<1>1. PICK off, nodes, m, n, o, g : Locus(off, nodes, m, n, o, g)
  BY <1>0, Here
<1>2. PICK s : s = nodes[n]
  OBVIOUS
<1>3. /\ Path(m, rstack, n, nodes) /\ Cur = rstack[n] /\ Task(rstack[n]) /\ n \in Nat \ {0}
      /\ o \in Int /\ s \in Nat \ {0}
  BY <1>1, <1>2, Top
<1>4. buf[pos + 1] = m.wire[s] /\ o + s = 1 /\ obj = <<>>
  BY <1>0, <1>1, <1>2, TypeByte
<1>5. Tasks(rstack, n) /\ n = Len(rstack)
  BY <1>1 DEF Locus
<1>6. PICK y : y = TypeOf(m.wire[s].b) /\ y \in Types /\ y # "none"
  BY <1>0, <1>4 DEF TypeBytes, TypeOf, Types, LineTypes
<1>7. PICK t : t = [rstack[n] EXCEPT !.type = y]
  OBVIOUS
<1>8. Task(t) /\ t.idx = rstack[n].idx /\ t.type = y
  BY <1>3, <1>6, <1>7 DEF Task
<1>9. rstack' = [rstack EXCEPT ![n] = t]
  BY <1>0, <1>4, <1>5, <1>6, <1>7
<1>10. PICK q : /\ q = rstack' /\ Tasks(q, n)
               /\ \A i \in 1 .. n : q[i] = IF i = n THEN t ELSE rstack[i]
  <2>0. n \in Nat \ {0} /\ Tasks(rstack, n) /\ Task(t)
    BY <1>3, <1>5, <1>8
  <2>1. PICK q : /\ q = [rstack EXCEPT ![n] = t] /\ Tasks(q, n)
                 /\ \A i \in 1 .. n : q[i] = IF i = n THEN t ELSE rstack[i]
    BY <2>0, Replaced
  <2>2. QED  BY <1>9, <2>1
<1>11. Path(m, q, n, nodes)
  <2>1. ASSUME NEW i \in 1 .. n - 1
        PROVE  /\ q[i].elements = rstack[i].elements /\ q[i].done = rstack[i].done
               /\ q[i + 1].idx = rstack[i + 1].idx
    <3>1. i \in 1 .. n /\ i # n /\ i + 1 \in 1 .. n
      BY <1>3
    <3>2. q[i] = rstack[i]
      BY <1>10, <3>1
    <3>3. q[i + 1].idx = rstack[i + 1].idx
      BY <1>8, <1>10, <3>1
    <3>4. QED  BY <3>2, <3>3
  <2>2. n \in 1 .. n /\ n \in Nat
    BY <1>3
  <2>3. QED  BY <1>3, <2>1, <2>2, PathPart
<1>12. Reading(m, nodes[n], n, o - 1)'
  <2>1. q[n].type = y /\ n \in 1 .. n
    BY <1>3, <1>8, <1>10
  <2>2. (o - 1) + s = 0
    BY <1>3, <1>4
  <2>3. QED  BY <1>0, <1>2, <1>4, <1>6, <1>10, <2>1, <2>2 DEF Reading
<1>13. Within(m, n, o - 1, nodes)'
  BY <1>0, <1>10, <1>11, <1>12 DEF Within
<1>14. Len(rstack') = n /\ rstack' # <<>>
  BY <1>3, <1>10, SequenceElim DEF Tasks
<1>15. QED  BY <1>0, <1>1, <1>13, <1>14, Arrived DEF RInv

(* and fails on a message that is not good. *)
LEMMA ErrorStep ==
  ASSUME Grammar, RInv, History, Parse, BadTypeByte \/ TooDeep
  PROVE  Len(got) < Len(sent) /\ ~sent[Len(got) + 1].ok
<1>0. at = "process" /\ rstack # <<>> /\ (pos < Len(buf) \/ Cur.type # "none")
  BY DEF BadTypeByte, TooDeep
<1>1. PICK off, nodes, m, n, o, g : Locus(off, nodes, m, n, o, g)
  BY <1>0, Here
<1>2. PICK s : s = nodes[n]
  OBVIOUS
<1>3. /\ Node(m, s, n) /\ s \in DOMAIN m.items /\ m \in Messages /\ Grammatical(m)
      /\ Cur = rstack[n] /\ n \in Nat \ {0}
  BY <1>1, <1>2, Top
<1>4. m.wire[s].b \notin TypeBytes \/ (m.wire[s].b = "*" /\ m.items[s].level = MaxDepth)
  <2>1. CASE BadTypeByte
    <3>1. /\ Cur.type = "none" /\ pos < Len(buf) /\ buf[pos + 1].b \notin TypeBytes
      BY <2>1 DEF BadTypeByte
    <3>2. buf[pos + 1] = m.wire[s]
      BY <1>0, <1>1, <1>2, <3>1, TypeByte
    <3>3. QED  BY <3>1, <3>2
  <2>2. CASE TooDeep
    <3>1. rstack[n].type = "array" /\ Len(rstack) - 1 = MaxDepth
      BY <1>3, <2>2 DEF TooDeep, AtMaxDepth
    <3>2. m.wire[s].b \in TypeBytes /\ TypeOf(m.wire[s].b) = "array"
      BY <1>0, <1>1, <1>2, <3>1 DEF Locus, Within, Reading
    <3>3. m.wire[s].b = "*"
      BY <3>2 DEF TypeBytes, TypeOf
    <3>4. m.items[s].level = MaxDepth
      BY <1>1, <1>3, <3>1 DEF Locus, Node
    <3>5. QED  BY <3>3, <3>4
  <2>3. QED  BY <2>1, <2>2
<1>5. ~m.items[s].good
  BY <1>3, <1>4, BadOf
<1>6. ~m.ok
  BY <1>3, <1>5 DEF Node
<1>7. Len(sent) \in Nat /\ g = Len(got) /\ g + 1 \in 1 .. Len(sent) /\ g \in Nat /\ m = sent[g + 1]
  BY <1>1, Lengths DEF Locus, RInv
<1>8. QED  BY <1>6, <1>7

(* The type byte has been read, and the bytes after it are next. *)
LEMMA Begun ==
  ASSUME RInv, History, at # "move", Cur.type # "none",
         NEW off, NEW nodes, NEW m, NEW n, NEW o, NEW g, Locus(off, nodes, m, n, o, g),
         NEW s, s = nodes[n]
  PROVE  /\ o + s = 0 /\ obj = <<>>
         /\ m.wire[s].b \in TypeBytes /\ Cur.type = TypeOf(m.wire[s].b)
         /\ \E d \in Int : Seen(m.wire, s + 1, d) /\ pos = d + s
<1>1. Cur = rstack[n] /\ s \in Nat \ {0} /\ o \in Int
  BY Top
<1>2. /\ o + s = 0 /\ obj = <<>>
      /\ m.wire[s].b \in TypeBytes /\ Cur.type = TypeOf(m.wire[s].b)
  BY <1>1 DEF Locus, Within, Reading
<1>3. Buffers /\ s + 1 \in Nat \ {0} /\ o + (s + 1) = 1
  BY <1>1, <1>2 DEF RInv
<1>4. PICK d \in Int : Seen(m.wire, s + 1, d)
  BY <1>3, NextBytes
<1>5. pos + 1 = d + (s + 1) /\ pos \in Nat
  BY <1>3, <1>4, Lengths DEF Seen
<1>6. pos = d + s
  BY <1>1, <1>5
<1>7. QED  BY <1>2, <1>4, <1>6

(* The item has been read. *)
LEMMA ItemRead ==
  ASSUME RInv, RInv', History, at = "process", rstack # <<>>, obj = <<>>,
         NEW off, NEW nodes, NEW m, NEW n, NEW o, NEW g, Locus(off, nodes, m, n, o, g),
         NEW s, s = nodes[n], m.items[s].good, Complete(m.items[s].value, rstack),
         NEW k \in Nat, pos' = pos + k, (o - k) + m.items[s].next = 1,
         UNCHANGED <<sent, wire, buf, got>>
  PROVE  Parse'
<1>1. PICK x \in 1 .. MaxDepth + 1 : x = Len(rstack) /\ Tasks(rstack, x) /\ Nested(rstack, x, 0)
  BY Processing
<1>2. n = x /\ n \in Nat \ {0} /\ Path(m, rstack, n, nodes)
  BY <1>1, Top DEF Locus
<1>3. Tasks(rstack, n) /\ Nested(rstack, n, 0)
  BY <1>1, <1>2
<1>4. m.items[nodes[n]].good /\ Complete(m.items[nodes[n]].value, rstack)
      /\ (o - k) + m.items[nodes[n]].next = 1
  OBVIOUS
<1>5. Within(m, n, o - k, nodes)' /\ rstack' # <<>> /\ Len(rstack') = n
  BY <1>2, <1>3, <1>4, Finished
<1>6. Buffers /\ Buffers'
  BY DEF RInv
<1>7. QED  BY <1>5, <1>6, Arrived

(* A line is read: its value is the one the protocol gives it. *)
LEMMA LineStep ==
  ASSUME Grammar, RInv, RInv', History, Parse, ProcessLineItem
  PROVE  Parse'
<1>0. /\ at = "process" /\ rstack # <<>> /\ Cur.type \in LineTypes /\ HasLine
      /\ Cur.type # "none" /\ pos' = LineEnd + 1
      /\ UNCHANGED <<sent, wire, buf, err, got, last>>
  BY DEF ProcessLineItem, LineTypes
<1>1. PICK off, nodes, m, n, o, g : Locus(off, nodes, m, n, o, g)
  BY <1>0, Here
<1>2. PICK s : s = nodes[n]
  OBVIOUS
<1>3. /\ s \in DOMAIN m.items /\ m \in Messages /\ Grammatical(m) /\ Cur = rstack[n]
      /\ n \in Nat \ {0} /\ o \in Int /\ s \in Nat \ {0} /\ m.wire \in Seq(Bytes)
  BY <1>1, <1>2, Top
<1>4. /\ o + s = 0 /\ obj = <<>> /\ m.wire[s].b \in TypeBytes /\ Cur.type = TypeOf(m.wire[s].b)
      /\ \E d \in Int : Seen(m.wire, s + 1, d) /\ pos = d + s
  BY <1>0, <1>1, <1>2, Begun
<1>5. PICK d \in Int : Seen(m.wire, s + 1, d) /\ pos = d + s
  BY <1>4
<1>6. m.wire[s].b \in {"-", "+", ":"} /\ (m.wire[s].b = ":" <=> Cur.type = "integer")
  BY <1>0, <1>4 DEF TypeBytes, TypeOf, LineTypes
<1>7. m.items[s].good /\ LineItem(m.wire, s, m.items[s])
  BY <1>3, <1>6, LineOf
<1>8. PICK z \in Nat : z = m.items[s].next
  BY <1>3, ItemPlace DEF Item
<1>9. PICK l \in Nat : l = Len(m.wire)
  BY <1>3
<1>10. /\ s + 3 <= z /\ z <= l + 1 /\ NewlineAt(m.wire, z - 2)
       /\ \A i \in s + 1 .. z - 3 : ~NewlineAt(m.wire, i)
  BY <1>7, <1>8, <1>9 DEF LineItem
<1>11. /\ z - 2 \in s + 1 .. Len(m.wire) - 1 /\ (z - 2) - 1 = z - 3
       /\ s + 1 \in Nat \ {0}
  <2>1. PICK p \in Nat \ {0} : p = s /\ p + 3 <= z /\ z <= l + 1
    BY <1>3, <1>10
  <2>2. z - 2 \in p + 1 .. l - 1 /\ (z - 2) - 1 = z - 3 /\ p + 1 \in Nat \ {0}
    BY <2>1
  <2>3. QED  BY <1>9, <2>1, <2>2
<1>12. LineEnd = d + (z - 2) /\ Line = SubSeq(m.wire, s + 1, (z - 2) - 1)
  <2>1. Buffers /\ \A i \in s + 1 .. (z - 2) - 1 : ~NewlineAt(m.wire, i)
    BY <1>10, <1>11 DEF RInv
  <2>2. HasLine => LineEnd = d + (z - 2) /\ Line = SubSeq(m.wire, s + 1, (z - 2) - 1)
    BY <1>3, <1>5, <1>10, <1>11, <2>1, LineSeen
  <2>3. QED  BY <1>0, <2>2
<1>13. PICK k \in Nat : k = (z - 1) - s
  BY <1>3, <1>10
<1>14. pos' = pos + k /\ (o - k) + m.items[s].next = 1
  <2>0. PICK p \in Nat, e \in Int : p = s /\ e = o /\ e + p = 0
    BY <1>3, <1>4
  <2>a. d + (z - 2) + 1 = (d + p) + ((z - 1) - p) /\ (e - ((z - 1) - p)) + z = 1
    BY <2>0
  <2>1. d + (z - 2) + 1 = (d + s) + ((z - 1) - s)
    BY <2>0, <2>a
  <2>2. (o - k) + z = 1
    BY <1>13, <2>0, <2>a
  <2>3. QED  BY <1>0, <1>5, <1>8, <1>12, <1>13, <2>1, <2>2
<1>15. Complete(m.items[s].value, rstack)
  <2>1. CASE m.wire[s].b = ":"
    <3>1. NumberLine(m.wire, s)
          /\ m.items[s].value = Object("integer", <<Number(m.wire[s + 1].n)>>, <<>>)
      BY <1>7, <2>1 DEF LineItem
    <3>2. ReadLongLong = m.wire[s + 1].n
      BY <1>0, <1>3, <1>5, <3>1, NumberSeen DEF RInv
    <3>3. Complete(Object("integer", <<Number(ReadLongLong)>>, <<>>), rstack)
      BY <1>6, <2>1 DEF ProcessLineItem
    <3>4. QED  BY <3>1, <3>2, <3>3
  <2>2. CASE m.wire[s].b # ":"
    <3>1. m.items[s].value = Object(TypeOf(m.wire[s].b), SubSeq(m.wire, s + 1, z - 3), <<>>)
      BY <1>7, <1>8, <2>2 DEF LineItem
    <3>2. Complete(Object(Cur.type, Line, <<>>), rstack)
      BY <1>6, <2>2 DEF ProcessLineItem
    <3>3. QED  BY <1>4, <1>11, <1>12, <3>1, <3>2
  <2>3. QED  BY <2>1, <2>2
<1>16. QED  BY <1>0, <1>1, <1>2, <1>4, <1>7, <1>14, <1>15, ItemRead

(* A string is read, or nil, once all of its bytes are in the buffer. *)
LEMMA BulkStep ==
  ASSUME Grammar, RInv, RInv', History, Parse, ProcessBulkItem
  PROVE  Parse'
<1>0. /\ at = "process" /\ rstack # <<>> /\ Cur.type = "string" /\ HasLine
      /\ ReadLongLong >= 0 => BulkEnd <= Len(buf)
      /\ UNCHANGED <<sent, wire, buf, err, got, last>>
  BY DEF ProcessBulkItem, BulkReady
<1>1. PICK off, nodes, m, n, o, g : Locus(off, nodes, m, n, o, g)
  BY <1>0, Here
<1>2. PICK s : s = nodes[n]
  OBVIOUS
<1>3. /\ s \in DOMAIN m.items /\ m \in Messages /\ Grammatical(m) /\ Cur = rstack[n]
      /\ n \in Nat \ {0} /\ o \in Int /\ s \in Nat \ {0} /\ m.wire \in Seq(Bytes)
  BY <1>1, <1>2, Top
<1>4. /\ o + s = 0 /\ obj = <<>> /\ m.wire[s].b \in TypeBytes /\ Cur.type = TypeOf(m.wire[s].b)
      /\ \E d \in Int : Seen(m.wire, s + 1, d) /\ pos = d + s
  BY <1>0, <1>1, <1>2, Begun
<1>a. PICK p \in Nat : p = s /\ p >= 1
  BY <1>3
<1>b. PICK e \in Int : e = o /\ e + p = 0
  BY <1>3, <1>4, <1>a
<1>5. PICK d \in Int : Seen(m.wire, s + 1, d) /\ pos = d + s
  BY <1>4
<1>6. m.wire[s].b = "$"
  BY <1>0, <1>4 DEF TypeBytes, TypeOf
<1>7. m.items[s].good /\ BulkItem(m.wire, s, m.items[s])
  BY <1>3, <1>6, BulkOf
<1>8. NumberLine(m.wire, s)
  BY <1>7 DEF BulkItem
<1>9. PICK v \in Int : v = m.wire[s + 1].n /\ ReadLongLong = v /\ LineEnd = d + s + 2
  <2>1. /\ HasLine => LineEnd = d + s + 2 /\ ReadLongLong = m.wire[s + 1].n
        /\ m.wire[s + 1].n \in Int
    BY <1>3, <1>5, <1>8, NumberSeen DEF RInv
  <2>2. QED  BY <1>0, <2>1
<1>10. CASE v < 0
  <2>1. m.items[s].next = s + 4 /\ m.items[s].value = Object("nil", <<>>, <<>>)
    BY <1>7, <1>9, <1>10 DEF BulkItem
  <2>2. Complete(m.items[s].value, rstack) /\ pos' = LineEnd + 1
    BY <1>9, <1>10, <2>1 DEF ProcessBulkItem
  <2>3. pos' = pos + 3 /\ (o - 3) + m.items[s].next = 1
    <3>1. (d + s + 2) + 1 = (d + s) + 3
      BY <1>3
    <3>a. (e - 3) + (p + 4) = 1
      BY <1>b
    <3>2. (o - 3) + (s + 4) = 1
      BY <1>a, <1>b, <3>a
    <3>3. QED  BY <1>5, <1>9, <2>1, <2>2, <3>1, <3>2
  <2>4. 3 \in Nat
    OBVIOUS
  <2>5. QED  BY <1>0, <1>1, <1>2, <1>4, <1>7, <2>2, <2>3, <2>4, ItemRead
<1>11. CASE ~(v < 0)
  <2>1. PICK z \in Nat : z = m.items[s].next
    BY <1>3, ItemPlace DEF Item
  <2>2. PICK l \in Nat : l = Len(m.wire)
    BY <1>3
  <2>3. /\ z = s + 6 + v /\ z <= l + 1
        /\ m.items[s].value = Object("string", SubSeq(m.wire, s + 4, z - 3), <<>>)
    BY <1>7, <1>9, <1>11, <2>1, <2>2 DEF BulkItem
  <2>a. z = p + 6 + v /\ z <= l + 1
    BY <1>a, <2>3
  <2>4. PICK b \in Int : b = BulkEnd /\ b = (d + s + 2) + 1 + v + 2 /\ b = d + (z - 1)
    <3>1. BulkEnd = (d + s + 2) + 1 + v + 2
      BY <1>9 DEF BulkEnd
    <3>a. (d + p + 2) + 1 + v + 2 = d + (z - 1)
      BY <2>a
    <3>2. (d + s + 2) + 1 + v + 2 = d + (z - 1)
      BY <1>a, <3>a
    <3>3. QED  BY <1>3, <3>1, <3>2
  <2>5. /\ Complete(Object("string", SubSeq(buf, LineEnd + 2, BulkEnd - 2), <<>>), rstack)
        /\ pos' = BulkEnd
    BY <1>9, <1>11 DEF ProcessBulkItem
  <2>6. SubSeq(buf, LineEnd + 2, BulkEnd - 2) = SubSeq(m.wire, s + 4, z - 3)
    <3>1. PICK x \in Nat : x = Len(buf)
      BY DEF RInv, Buffers
    <3>2. /\ buf \in Seq(Bytes) /\ pos \in Nat /\ b <= x
          /\ \A i \in s + 1 .. l : d + i <= x => buf[d + i] = m.wire[i]
      <4>1. buf \in Seq(Bytes) /\ pos \in Nat
        BY DEF RInv, Buffers
      <4>2. b <= x
        BY <1>0, <1>9, <1>11, <2>4, <3>1
      <4>3. \A i \in s + 1 .. l : d + i <= x => buf[d + i] = m.wire[i]
        BY <1>5, <2>2, <3>1 DEF Seen
      <4>4. QED  BY <4>1, <4>2, <4>3
    <3>3. LineEnd + 2 = d + (s + 4) /\ BulkEnd - 2 = d + (z - 3)
      <4>1. (d + p + 2) + 2 = d + (p + 4)
        OBVIOUS
      <4>2. (d + (z - 1)) - 2 = d + (z - 3)
        OBVIOUS
      <4>3. QED  BY <1>9, <1>a, <2>4, <4>1, <4>2
    <3>4. PICK a : a = SubSeq(buf, d + (s + 4), d + (z - 3))
      OBVIOUS
    <3>5. PICK c : c = SubSeq(m.wire, s + 4, z - 3)
      OBVIOUS
    <3>6. d + p >= 0
      BY <1>5, <1>a, <3>2
    <3>7. d + (s + 4) \in 1 .. x + 1 /\ d + (z - 3) \in (d + (s + 4)) - 1 .. x
      <4>1. d + (z - 1) <= x
        BY <2>4, <3>2
      <4>2. v >= 0
        BY <1>11
      <4>3. d + (p + 4) \in 1 .. x + 1 /\ d + (z - 3) \in (d + (p + 4)) - 1 .. x
        BY <2>a, <3>6, <4>1, <4>2
      <4>4. QED  BY <1>a, <4>3
    <3>8. /\ a \in Seq(Bytes) /\ Len(a) = (d + (z - 3)) - (d + (s + 4)) + 1
          /\ \A i \in 1 .. (d + (z - 3)) - (d + (s + 4)) + 1 : a[i] = buf[(d + (s + 4)) + i - 1]
      <4>1. PICK h \in Int, j \in Int : h = d + (s + 4) /\ j = d + (z - 3)
        BY <1>a
      <4>2. /\ buf \in Seq(Bytes) /\ h \in 1 .. Len(buf) + 1 /\ j \in h - 1 .. Len(buf)
            /\ a = SubSeq(buf, h, j)
        BY <3>1, <3>2, <3>4, <3>7, <4>1
      <4>3. /\ a \in Seq(Bytes) /\ Len(a) = j - h + 1
            /\ \A i \in 1 .. j - h + 1 : a[i] = buf[h + i - 1]
        BY <4>2, SubSeqProperties
      <4>4. QED  BY <4>1, <4>3
    <3>9. s + 4 \in 1 .. l + 1 /\ z - 3 \in (s + 4) - 1 .. l
      <4>1. v >= 0 /\ p + 4 \in 1 .. l + 1 /\ z - 3 \in (p + 4) - 1 .. l
        BY <1>11, <2>a
      <4>2. QED  BY <1>a, <4>1
    <3>10. /\ c \in Seq(Bytes) /\ Len(c) = (z - 3) - (s + 4) + 1
           /\ \A i \in 1 .. (z - 3) - (s + 4) + 1 : c[i] = m.wire[(s + 4) + i - 1]
      <4>1. PICK h \in Int, j \in Int : h = s + 4 /\ j = z - 3
        BY <1>a
      <4>2. /\ m.wire \in Seq(Bytes) /\ h \in 1 .. Len(m.wire) + 1 /\ j \in h - 1 .. Len(m.wire)
            /\ c = SubSeq(m.wire, h, j)
        BY <1>3, <2>2, <3>5, <3>9, <4>1
      <4>3. /\ c \in Seq(Bytes) /\ Len(c) = j - h + 1
            /\ \A i \in 1 .. j - h + 1 : c[i] = m.wire[h + i - 1]
        BY <4>2, SubSeqProperties
      <4>4. QED  BY <4>1, <4>3
    <3>11. (d + (z - 3)) - (d + (s + 4)) + 1 = v /\ (z - 3) - (s + 4) + 1 = v
      BY <1>3, <2>3
    <3>12. ASSUME NEW i \in 1 .. v PROVE a[i] = c[i]
      <4>1. a[i] = buf[(d + (s + 4)) + i - 1] /\ c[i] = m.wire[(s + 4) + i - 1]
        BY <3>8, <3>10, <3>11
      <4>2. PICK y \in s + 1 .. l :
              y = (s + 4) + i - 1 /\ d + y = (d + (s + 4)) + i - 1 /\ d + y <= x
        <5>0. /\ (p + 4) + i - 1 \in p + 1 .. l /\ d + ((p + 4) + i - 1) = (d + (p + 4)) + i - 1
              /\ d + ((p + 4) + i - 1) <= d + (z - 1)
          BY <2>a
        <5>1. (s + 4) + i - 1 \in s + 1 .. l /\ d + ((s + 4) + i - 1) = (d + (s + 4)) + i - 1
          BY <1>a, <5>0
        <5>2. d + (z - 1) <= x
          BY <2>4, <3>2
        <5>3. d + ((s + 4) + i - 1) <= x
          BY <1>a, <5>0, <5>2
        <5>4. QED  BY <5>1, <5>3
      <4>3. buf[d + y] = m.wire[y]
        BY <3>2, <4>2
      <4>4. QED  BY <4>1, <4>2, <4>3
    <3>13. Len(a) = Len(c) /\ \A i \in 1 .. Len(a) : a[i] = c[i]
      BY <3>8, <3>10, <3>11, <3>12
    <3>14. a = c
      BY <3>8, <3>10, <3>13, SeqEqual
    <3>15. QED  BY <3>3, <3>4, <3>5, <3>14
  <2>7. Complete(m.items[s].value, rstack)
    BY <2>3, <2>5, <2>6
  <2>8. PICK k \in Nat : k = (z - 1) - s
    BY <1>3, <1>11, <2>3
  <2>9. pos' = pos + k /\ (o - k) + m.items[s].next = 1
    <3>1. d + (z - 1) = (d + s) + k
      BY <1>3, <2>8
    <3>2. (o - k) + z = 1
      BY <1>3, <1>4, <2>8
    <3>3. QED  BY <1>5, <2>1, <2>4, <2>5, <3>1, <3>2
  <2>10. QED  BY <1>0, <1>1, <1>2, <1>4, <1>7, <2>7, <2>9, ItemRead
<1>12. QED  BY <1>10, <1>11

(* An array is empty, nil, or has a first element, which comes next. *)
LEMMA MultiBulkStep ==
  ASSUME Grammar, RInv, RInv', History, Parse, ProcessMultiBulkItem
  PROVE  Parse'
<1>0. /\ at = "process" /\ rstack # <<>> /\ Cur.type = "array" /\ ~AtMaxDepth /\ HasLine
      /\ pos' = LineEnd + 1 /\ UNCHANGED <<sent, wire, buf, err, got, last>>
  BY DEF ProcessMultiBulkItem
<1>1. PICK off, nodes, m, n, o, g : Locus(off, nodes, m, n, o, g)
  BY <1>0, Here
<1>2. PICK s : s = nodes[n]
  OBVIOUS
<1>3. /\ s \in DOMAIN m.items /\ m \in Messages /\ Grammatical(m) /\ Cur = rstack[n]
      /\ n \in Nat \ {0} /\ o \in Int /\ s \in Nat \ {0} /\ m.wire \in Seq(Bytes)
      /\ Path(m, rstack, n, nodes) /\ Node(m, s, n) /\ Task(rstack[n])
  BY <1>1, <1>2, Top
<1>4. /\ o + s = 0 /\ obj = <<>> /\ m.wire[s].b \in TypeBytes /\ Cur.type = TypeOf(m.wire[s].b)
      /\ \E d \in Int : Seen(m.wire, s + 1, d) /\ pos = d + s
  BY <1>0, <1>1, <1>2, Begun
<1>5. PICK d \in Int : Seen(m.wire, s + 1, d) /\ pos = d + s
  BY <1>4
<1>6. m.wire[s].b = "*"
  BY <1>0, <1>4 DEF TypeBytes, TypeOf
<1>7. n = Len(rstack) /\ Tasks(rstack, n) /\ n \in Nat
  BY <1>1 DEF Locus
<1>8. m.items[s].level = n - 1 /\ m.items[s].level # MaxDepth
  BY <1>0, <1>3, <1>7 DEF Node, AtMaxDepth
<1>9. /\ NumberLine(m.wire, s)
      /\ Elements(m, s) \/ (m.items[s].good /\ EmptyItem(m.wire, s, m.items[s]))
  BY <1>3, <1>6, <1>8, ArrayOf
<1>10. PICK v \in Int : v = m.wire[s + 1].n /\ ReadLongLong = v /\ LineEnd = d + s + 2
  <2>1. /\ HasLine => LineEnd = d + s + 2 /\ ReadLongLong = m.wire[s + 1].n
        /\ m.wire[s + 1].n \in Int
    BY <1>3, <1>5, <1>9, NumberSeen DEF RInv
  <2>2. QED  BY <1>0, <2>1
<1>a. PICK p \in Nat : p = s /\ p >= 1
  BY <1>3
<1>b. PICK e \in Int : e = o /\ e + p = 0
  BY <1>3, <1>4, <1>a
<1>11. pos' = pos + 3 /\ (o - 3) + (s + 4) = 1 /\ 3 \in Nat
  <2>1. (d + p + 2) + 1 = (d + p) + 3 /\ (e - 3) + (p + 4) = 1
    BY <1>b
  <2>2. QED  BY <1>0, <1>5, <1>10, <1>a, <1>b, <2>1
<1>12. CASE ~(v > 0)
  <2>1. ~Elements(m, s)
    <3>1. SUFFICES ASSUME Elements(m, s) PROVE FALSE
      OBVIOUS
    <3>2. PICK l \in Nat : l = Len(m.items[s].kids) /\ l >= 1 /\ l <= m.wire[s + 1].n
      BY <1>3, <3>1, ElementsOf
    <3>3. QED  BY <1>10, <1>12, <3>2
  <2>2. m.items[s].good /\ EmptyItem(m.wire, s, m.items[s])
    BY <1>9, <2>1
  <2>3. /\ m.items[s].next = s + 4
        /\ m.items[s].value = Object(IF v = -1 THEN "nil" ELSE "array", <<>>, <<>>)
    BY <1>10, <2>2 DEF EmptyItem
  <2>4. Complete(m.items[s].value, rstack)
    BY <1>10, <1>12, <2>3 DEF ProcessMultiBulkItem
  <2>5. (o - 3) + m.items[s].next = 1
    BY <1>11, <2>3
  <2>6. QED  BY <1>0, <1>1, <1>2, <1>4, <1>11, <2>2, <2>4, <2>5, ItemRead
<1>13. CASE v > 0
  <2>1. Elements(m, s)
    <3>1. ~EmptyItem(m.wire, s, m.items[s])
      BY <1>10, <1>13 DEF EmptyItem
    <3>2. QED  BY <1>9, <3>1
  <2>2. PICK kids : kids = m.items[s].kids
    OBVIOUS
  <2>3. /\ Len(kids) \in Nat /\ Len(kids) >= 1 /\ kids[1] \in DOMAIN m.items
        /\ m.items[kids[1]].level = m.items[s].level + 1 /\ kids[1] = s + 4
    <3>0. m \in Messages /\ Grammatical(m) /\ s \in DOMAIN m.items
      BY <1>3
    <3>1. Len(kids) \in Nat /\ Len(kids) >= 1 /\ Kids(m, s, kids)
      BY <2>1, <2>2, <3>0, ElementsOf
    <3>2. 1 \in 1 .. Len(kids)
      BY <3>1
    <3>3. QED  BY <3>1, <3>2 DEF Kids
  <2>4. m.ok => m.items[kids[1]].good
    <3>1. SUFFICES ASSUME m.ok PROVE m.items[kids[1]].good
      OBVIOUS
    <3>2. m.items[s].good
      BY <1>3, <3>1 DEF Node
    <3>3. \A k \in 1 .. Len(kids) : m.items[kids[k]].good
      BY <1>3, <2>1, <2>2, <3>2, ArrayGood
    <3>4. 1 \in 1 .. Len(kids)
      BY <2>3
    <3>5. QED  BY <3>3, <3>4
  <2>5. PICK t : t = [rstack[n] EXCEPT !.elements = v]
    OBVIOUS
  <2>6. Task(t) /\ t.idx = rstack[n].idx /\ t.elements = v /\ t.done = rstack[n].done
    BY <1>3, <2>5 DEF Task
  <2>7. rstack[n].done = <<>>
    BY <1>0, <1>7, Processing
  <2>8. PICK r : r = [rstack EXCEPT ![n] = t]
    OBVIOUS
  <2>9. Tasks(r, n) /\ r[n] = t /\ \A i \in 1 .. n - 1 : r[i] = rstack[i]
    <3>1. n \in Nat \ {0} /\ Tasks(rstack, n) /\ Task(t)
      BY <1>3, <1>7, <2>6
    <3>2. PICK q : /\ q = [rstack EXCEPT ![n] = t] /\ Tasks(q, n)
                   /\ \A i \in 1 .. n : q[i] = IF i = n THEN t ELSE rstack[i]
      BY <3>1, Replaced
    <3>3. QED  BY <1>3, <2>8, <3>2
  <2>10. PICK c : c = NewTask(0)
    OBVIOUS
  <2>11. Task(c) /\ c.idx = 0 /\ c.type = "none"
    BY <2>10, EmptySequence DEF Task, NewTask, Types
  <2>12. rstack' = Append(r, c) /\ at' = "process" /\ obj' = <<>>
    BY <1>0, <1>4, <1>7, <1>10, <1>13, <2>5, <2>8, <2>10 DEF ProcessMultiBulkItem
  <2>13. PICK q : q = rstack' /\ Tasks(q, n + 1) /\ q[n + 1] = c /\ q[n] = t
                  /\ \A i \in 1 .. n - 1 : q[i] = rstack[i]
    <3>1. n \in Nat /\ Tasks(r, n) /\ Task(c)
      BY <1>7, <2>9, <2>11
    <3>2. PICK q : /\ q = Append(r, c) /\ Tasks(q, n + 1)
                   /\ \A i \in 1 .. n + 1 : q[i] = IF i = n + 1 THEN c ELSE r[i]
      BY <3>1, Pushed
    <3>3. q[n + 1] = c /\ q[n] = t /\ \A i \in 1 .. n - 1 : q[i] = rstack[i]
      <4>1. n + 1 \in 1 .. n + 1 /\ n \in 1 .. n + 1 /\ n # n + 1
            /\ \A i \in 1 .. n - 1 : i \in 1 .. n + 1 /\ i # n + 1
        BY <1>3
      <4>2. q[n + 1] = c /\ q[n] = r[n] /\ \A i \in 1 .. n - 1 : q[i] = r[i]
        BY <3>2, <4>1
      <4>3. QED  BY <2>9, <4>2
    <3>4. QED  BY <2>12, <3>2, <3>3
  <2>14. PICK others : others = [i \in 1 .. n + 1 |-> IF i = n + 1 THEN s + 4 ELSE nodes[i]]
    OBVIOUS
  <2>15. others[n + 1] = s + 4 /\ others[n] = s /\ \A i \in 1 .. n : others[i] = nodes[i]
    BY <1>2, <1>3, <2>14
  <2>16. Path(m, q, n, others)
    <3>1. ASSUME NEW i \in 1 .. n - 1
          PROVE  /\ q[i].elements = rstack[i].elements /\ q[i].done = rstack[i].done
                 /\ q[i + 1].idx = rstack[i + 1].idx
      <4>1. q[i] = rstack[i]
        BY <2>13
      <4>2. CASE i + 1 = n
        BY <2>6, <2>13, <4>1, <4>2
      <4>3. CASE i + 1 # n
        BY <1>3, <2>13, <4>1, <4>3
      <4>4. QED  BY <4>2, <4>3
    <3>2. n \in 1 .. n
      BY <1>3
    <3>3. QED  BY <1>3, <1>7, <2>15, <3>1, <3>2, PathPart
  <2>17. Node(m, others[n + 1], n + 1)
    BY <1>3, <1>8, <2>3, <2>4, <2>15 DEF Node
  <2>18. Link(m, others[n], others[n + 1], q[n], q[n + 1])
    <3>1. /\ t.elements = m.wire[s + 1].n /\ c.idx + 1 = 1 /\ 1 \in 1 .. Len(kids)
          /\ s + 4 = kids[1] /\ Len(t.done) = 0
      BY <1>10, <2>3, <2>6, <2>7, <2>11, EmptySequence
    <3>2. c.idx + 1 \in 1 .. Len(kids) /\ s + 4 = kids[c.idx + 1]
      BY <3>1
    <3>3. \A k \in 1 .. Len(t.done) : k <= Len(kids) /\ t.done[k] = m.items[kids[k]].value
      BY <3>1
    <3>4. Link(m, s, s + 4, t, c)
      BY <2>1, <2>2, <3>1, <3>2, <3>3 DEF Link
    <3>5. QED  BY <2>13, <2>15, <3>4
  <2>19. Path(m, q, n + 1, others)
    BY <1>3, <2>16, <2>17, <2>18, PathMore
  <2>20. Reading(m, others[n + 1], n + 1, o - 3)'
    BY <1>11, <2>11, <2>12, <2>13, <2>15 DEF Reading
  <2>21. Within(m, n + 1, o - 3, others)'
    BY <2>12, <2>13, <2>19, <2>20 DEF Within
  <2>22. Len(rstack') = n + 1 /\ rstack' # <<>>
    BY <1>7, <2>13, SequenceElim DEF Tasks
  <2>23. QED  BY <1>0, <1>1, <1>11, <2>21, <2>22, Arrived DEF RInv
<1>14. QED  BY <1>12, <1>13

-----------------------------------------------------------------------------
(* The stack when an item has just been read. *)
LEMMA Moving ==
  ASSUME RInv, at = "move"
  PROVE  \E n \in Nat \ {0} :
           /\ n = Len(rstack) /\ Tasks(rstack, n) /\ Nested(rstack, n, 1) /\ rstack # <<>>
<1>1. PICK n \in 0 .. MaxDepth + 1 : Tasks(rstack, n) /\ Nested(rstack, n, 1) /\ n > 0
  BY DEF RInv, Stack
<1>2. n \in Nat \ {0} /\ n = Len(rstack) /\ rstack # <<>>
  BY <1>1, BoundsAssumption, SequenceElim DEF Tasks
<1>3. QED  BY <1>1, <1>2

(* The end of the message: the reply is the message's value. *)
LEMMA PopRootStep ==
  ASSUME Grammar, RInv, RInv', History, Parse, PopRoot
  PROVE  Parse'
<1>0. /\ at = "move" /\ Len(rstack) = 1 /\ rstack' = <<>> /\ at' = "process"
      /\ UNCHANGED <<sent, wire, buf, pos, err, obj, got, last>>
  BY DEF PopRoot
<1>1. PICK off, nodes, m, n, o, g : Locus(off, nodes, m, n, o, g)
  BY <1>0, Moving, Here
<1>2. n = 1 /\ nodes[1] = 1
  BY <1>0, <1>1 DEF Locus, Within, Path
<1>3. /\ m.items[1].good /\ o + m.items[1].next = 1 /\ obj = <<m.items[1].value>>
  BY <1>0, <1>1, <1>2 DEF Locus, Within, HasRead
<1>4. m \in Messages /\ Grammatical(m) /\ m = sent[g + 1] /\ g = Len(got) /\ g \in Nat
      /\ g + 1 \in 1 .. Len(sent) /\ off[g + 1] = o /\ off \in [Nat -> Int] /\ Layout(off)
      /\ o \in Int
  BY <1>1 DEF Locus
<1>5. m.ok /\ m.value = m.items[1].value /\ m.items[1].next = Len(m.wire) + 1
  <2>1. m.ok = m.items[1].good
    BY <1>4 DEF Grammatical
  <2>2. m.ok
    BY <1>3, <2>1
  <2>3. QED  BY <1>4, <2>2 DEF Grammatical
<1>6. Buffers /\ Buffers'
  BY DEF RInv
<1>7. off[(g + 1) + 1] = off[g + 1] + Len(sent[g + 1].wire) /\ Len(sent[g + 1].wire) \in Nat
  BY <1>4, <1>6, Placed, WireType
<1>8. off[g + 2] = 0 /\ g < Len(sent)
  <2>1. PICK l \in Nat : l = Len(m.wire)
    BY <1>4, <1>7
  <2>2. o + (l + 1) = 1 /\ off[(g + 1) + 1] = o + l
    BY <1>3, <1>4, <1>5, <1>7, <2>1
  <2>3. PICK x \in Int : x = o
    BY <1>4
  <2>4. x + l = 0
    BY <2>2, <2>3
  <2>5. (g + 1) + 1 = g + 2
    BY <1>4
  <2>6. Len(sent) \in Nat
    BY <1>6, Lengths
  <2>7. QED  BY <1>4, <2>2, <2>3, <2>4, <2>5, <2>6
<1>9. Layout(off)'
  BY <1>0, <1>4, <1>6, Rearranged
<1>10. After(off)'
  BY <1>0, <1>3, <1>4, <1>5, <1>8 DEF After
<1>11. QED  BY <1>4, <1>9, <1>10 DEF Parse

(* The item is element x of the array at p. *)
Element(nodes, m, n, o, p, kids, x) ==
  /\ Path(m, rstack, n, nodes) /\ Node(m, p, n - 1) /\ p \in DOMAIN m.items
  /\ Elements(m, p) /\ kids = m.items[p].kids
  /\ p = nodes[n - 1] /\ x = rstack[n].idx + 1 /\ rstack[n].idx \in Int
  /\ rstack[n - 1].elements = m.wire[p + 1].n
  /\ x \in 1 .. Len(kids) /\ nodes[n] = kids[x]
  /\ Sequence(rstack[n - 1].done) /\ Len(rstack[n - 1].done) = x
  /\ \A k \in 1 .. x : rstack[n - 1].done[k] = m.items[kids[k]].value
  /\ m.items[kids[x]].good /\ o + m.items[kids[x]].next = 1 /\ obj = <<>>
  /\ Cur = rstack[n] /\ Parent = rstack[n - 1]

(* The item at the top is that element of the array below it. *)
LEMMA Above ==
  ASSUME RInv, at = "move", NEW off, NEW nodes, NEW m, NEW n, NEW o, NEW g,
         Locus(off, nodes, m, n, o, g), n > 1
  PROVE  \E p, kids, x : Element(nodes, m, n, o, p, kids, x)
<1>0. PICK p, kids, x : p = nodes[n - 1] /\ kids = m.items[p].kids /\ x = rstack[n].idx + 1
  OBVIOUS
<1>1. /\ Path(m, rstack, n, nodes) /\ n \in Nat \ {0} /\ n = Len(rstack)
      /\ HasRead(m, nodes[n], n, o) /\ Tasks(rstack, n)
  BY DEF Locus, Within
<1>2. n \in 1 .. n /\ n - 1 \in 1 .. n /\ n - 1 \in 1 .. n - 1 /\ (n - 1) + 1 = n /\ n \in 2 .. n
  BY <1>1
<1>3. Node(m, p, n - 1) /\ p \in DOMAIN m.items
  BY <1>0, <1>1, <1>2 DEF Path, Node
<1>4. Link(m, p, nodes[n], rstack[n - 1], rstack[n])
  BY <1>0, <1>1, <1>2 DEF Path
<1>5. /\ Elements(m, p) /\ rstack[n - 1].elements = m.wire[p + 1].n
      /\ x \in 1 .. Len(kids) /\ nodes[n] = kids[x]
      /\ \A k \in 1 .. Len(rstack[n - 1].done) : rstack[n - 1].done[k] = m.items[kids[k]].value
  BY <1>0, <1>4 DEF Link
<1>6. rstack[n].idx \in Int /\ Sequence(rstack[n - 1].done)
  <2>1. Task(rstack[n]) /\ Task(rstack[n - 1])
    BY <1>1, <1>2 DEF Tasks
  <2>2. QED  BY <2>1 DEF Task
<1>7. Len(rstack[n - 1].done) = x
  <2>1. Nested(rstack, n, 1)
    BY <1>1, Moving
  <2>2. Len(rstack[n - 1].done) = rstack[n].idx + 1
    BY <1>2, <2>1 DEF Nested
  <2>3. QED  BY <1>0, <2>2
<1>8. m.items[kids[x]].good /\ o + m.items[kids[x]].next = 1 /\ obj = <<>>
  <2>1. m.items[nodes[n]].good /\ o + m.items[nodes[n]].next = 1
    BY <1>1 DEF HasRead
  <2>2. n # 1
    BY <1>1
  <2>3. obj = <<>>
    BY <1>1, <2>2 DEF HasRead
  <2>4. QED  BY <1>5, <2>1, <2>3
<1>9. Cur = rstack[n] /\ Parent = rstack[n - 1]
  BY <1>1 DEF Cur, Parent
<1>a. \A k \in 1 .. x : rstack[n - 1].done[k] = m.items[kids[k]].value
  BY <1>5, <1>7
<1>10. Element(nodes, m, n, o, p, kids, x)
  BY <1>0, <1>1, <1>3, <1>5, <1>6, <1>7, <1>8, <1>9, <1>a DEF Element
<1>11. QED  BY <1>10

(* The last element of an array: the array has been read. *)
LEMMA PopTaskStep ==
  ASSUME Grammar, RInv, RInv', History, Parse, PopTask
  PROVE  Parse'
<1>0. /\ at = "move" /\ Len(rstack) > 1 /\ LastOfParent
      /\ Complete(Object("array", <<>>, Parent.done), SubSeq(rstack, 1, Len(rstack) - 1))
      /\ UNCHANGED <<sent, wire, buf, pos, err, got, last>>
  BY DEF PopTask
<1>1. PICK off, nodes, m, n, o, g : Locus(off, nodes, m, n, o, g)
  BY <1>0, Moving, Here
<1>2. n \in Nat \ {0} /\ n = Len(rstack) /\ n > 1 /\ m \in Messages /\ Grammatical(m) /\ o \in Int
  BY <1>0, <1>1 DEF Locus
<1>a. PICK p, kids, x : Element(nodes, m, n, o, p, kids, x)
  BY <1>0, <1>1, <1>2, Above
<1>3. p = nodes[n - 1] /\ kids = m.items[p].kids /\ x = rstack[n].idx + 1
  BY <1>a DEF Element
<1>4. /\ Path(m, rstack, n, nodes) /\ p \in DOMAIN m.items
      /\ Elements(m, p) /\ rstack[n - 1].elements = m.wire[p + 1].n
      /\ x \in 1 .. Len(kids) /\ rstack[n].idx \in Int
      /\ Sequence(rstack[n - 1].done) /\ Len(rstack[n - 1].done) = x
      /\ m.items[kids[x]].good /\ o + m.items[kids[x]].next = 1 /\ obj = <<>>
      /\ Cur = rstack[n] /\ Parent = rstack[n - 1]
  BY <1>a DEF Element
<1>5. \A k \in 1 .. x : rstack[n - 1].done[k] = m.items[kids[k]].value
  BY <1>a DEF Element
<1>6. /\ Len(kids) \in Nat /\ m.wire[p + 1].n \in Int /\ Len(kids) <= m.wire[p + 1].n
  BY <1>2, <1>3, <1>4, ElementsOf
<1>7. x = m.wire[p + 1].n /\ x = Len(kids) /\ x \in Nat
  <2>1. rstack[n].idx = m.wire[p + 1].n - 1
    BY <1>0, <1>4 DEF LastOfParent
  <2>2. x = m.wire[p + 1].n
    BY <1>3, <1>6, <2>1
  <2>3. QED  BY <1>4, <1>6, <2>2
<1>8. m.items[p].good
  BY <1>2, <1>3, <1>4, <1>7, GoodArray
<1>9. ArrayItem(m, p)
  BY <1>2, <1>4, <1>8, ArrayGood
<1>10. /\ m.items[p].next = m.items[kids[x]].next
       /\ m.items[p].value = Object("array", <<>>, [k \in 1 .. x |-> m.items[kids[k]].value])
  BY <1>3, <1>7, <1>9 DEF ArrayItem
<1>11. rstack[n - 1].done = [k \in 1 .. x |-> m.items[kids[k]].value]
  <2>1. PICK e : e = rstack[n - 1].done
    OBVIOUS
  <2>2. e = [k \in 1 .. x |-> e[k]]
    BY <1>4, <2>1, SequenceElim
  <2>3. \A k \in 1 .. x : e[k] = m.items[kids[k]].value
    BY <1>5, <2>1
  <2>4. QED  BY <2>1, <2>2, <2>3
<1>12. PICK h \in Nat \ {0} : h = n - 1
  BY <1>2
<1>13. PICK below : below = SubSeq(rstack, 1, h)
  OBVIOUS
<1>14. Complete(m.items[nodes[h]].value, below)
  <2>1. nodes[h] = p /\ SubSeq(rstack, 1, Len(rstack) - 1) = below
    BY <1>2, <1>3, <1>12, <1>13
  <2>2. Object("array", <<>>, Parent.done) = m.items[p].value
    BY <1>4, <1>10, <1>11
  <2>3. QED  BY <1>0, <2>1, <2>2
<1>15. Sequence(below) /\ Len(below) = h /\ \A i \in 1 .. h : below[i] = rstack[i]
  <2>1. Sequence(rstack) /\ h \in Nat /\ h <= Len(rstack)
    BY <1>1, <1>2, <1>12 DEF Locus, Tasks
  <2>2. QED  BY <1>13, <2>1, Prefix
<1>16. Tasks(below, h) /\ Nested(below, h, 0)
  <2>1. Tasks(rstack, n) /\ Nested(rstack, n, 1)
    BY <1>0, <1>2, Moving
  <2>2. \A i \in 1 .. h : Task(below[i])
    BY <1>2, <1>12, <1>15, <2>1 DEF Tasks
  <2>3. ASSUME NEW i \in 2 .. h
        PROVE  /\ below[i - 1].type = "array"
               /\ below[i].idx \in 0 .. below[i - 1].elements - 1
               /\ Len(below[i - 1].done) = below[i].idx + (IF i = h THEN 0 ELSE 0)
    <3>1. i \in 2 .. n /\ i # n /\ i \in 1 .. h /\ i - 1 \in 1 .. h
      BY <1>2, <1>12
    <3>2. below[i] = rstack[i] /\ below[i - 1] = rstack[i - 1]
      BY <1>15, <3>1
    <3>3. QED  BY <2>1, <3>1, <3>2 DEF Nested
  <2>4. QED  BY <1>15, <2>2, <2>3 DEF Tasks, Nested
<1>17. Path(m, below, h, nodes)
  <2>1. ASSUME NEW i \in 1 .. h - 1
        PROVE  /\ below[i].elements = rstack[i].elements /\ below[i].done = rstack[i].done
               /\ below[i + 1].idx = rstack[i + 1].idx
    <3>1. i \in 1 .. h /\ i + 1 \in 1 .. h
      OBVIOUS
    <3>2. below[i] = rstack[i] /\ below[i + 1] = rstack[i + 1]
      BY <1>15, <3>1
    <3>3. QED  BY <3>2
  <2>2. h \in 1 .. n /\ n \in Nat
    BY <1>2, <1>12
  <2>3. QED  BY <1>4, <2>1, <2>2, PathPart
<1>18. m.items[nodes[h]].good /\ o + m.items[nodes[h]].next = 1
  BY <1>3, <1>4, <1>8, <1>10, <1>12
<1>19. Within(m, h, o, nodes)' /\ rstack' # <<>> /\ Len(rstack') = h
  BY <1>4, <1>14, <1>16, <1>17, <1>18, Finished
<1>20. pos' = pos + 0 /\ o - 0 = o /\ 0 \in Nat /\ Buffers /\ Buffers'
  <2>1. pos \in Nat
    BY DEF RInv, Buffers
  <2>2. QED  BY <1>0, <1>2, <2>1 DEF RInv
<1>21. Within(m, h, o - 0, nodes)'
  BY <1>19, <1>20
<1>22. QED  BY <1>0, <1>1, <1>19, <1>20, <1>21, Arrived

(* Another element follows. *)
LEMMA NextTaskStep ==
  ASSUME Grammar, RInv, RInv', History, Parse, NextTask
  PROVE  Parse'
<1>0. /\ at = "move" /\ Len(rstack) > 1 /\ ~LastOfParent /\ at' = "process"
      /\ rstack' = [rstack EXCEPT ![Len(rstack)] = NewTask(Cur.idx + 1)]
      /\ UNCHANGED <<sent, wire, buf, pos, err, obj, got, last>>
  BY DEF NextTask
<1>1. PICK off, nodes, m, n, o, g : Locus(off, nodes, m, n, o, g)
  BY <1>0, Moving, Here
<1>2. /\ n \in Nat \ {0} /\ n = Len(rstack) /\ n > 1
      /\ m \in Messages /\ Grammatical(m) /\ o \in Int
      /\ Tasks(rstack, n)
  BY <1>0, <1>1 DEF Locus
<1>a. PICK p, kids, x : Element(nodes, m, n, o, p, kids, x)
  BY <1>0, <1>1, <1>2, Above
<1>3. p = nodes[n - 1] /\ kids = m.items[p].kids /\ x = rstack[n].idx + 1
  BY <1>a DEF Element
<1>4. /\ Path(m, rstack, n, nodes) /\ Node(m, p, n - 1) /\ p \in DOMAIN m.items
      /\ Elements(m, p) /\ rstack[n - 1].elements = m.wire[p + 1].n
      /\ x \in 1 .. Len(kids) /\ rstack[n].idx \in Int
      /\ Len(rstack[n - 1].done) = x
      /\ m.items[kids[x]].good /\ o + m.items[kids[x]].next = 1 /\ obj = <<>>
      /\ Cur = rstack[n] /\ Parent = rstack[n - 1]
  BY <1>a DEF Element
<1>5. \A k \in 1 .. x : rstack[n - 1].done[k] = m.items[kids[k]].value
  BY <1>a DEF Element
<1>6. /\ Len(kids) \in Nat /\ m.wire[p + 1].n \in Int /\ Len(kids) <= m.wire[p + 1].n
      /\ m.items[p].level \in Nat /\ Kids(m, p, kids)
  <2>1. m \in Messages /\ Grammatical(m) /\ p \in DOMAIN m.items /\ Elements(m, p)
    BY <1>2, <1>4
  <2>a. kids = m.items[p].kids
    BY <1>3
  <2>2. QED  BY <2>1, <2>a, ElementsOf
<1>7. x + 1 \in 1 .. Len(kids) /\ x \in Int
  <2>1. x # m.wire[p + 1].n
    <3>1. rstack[n].idx # m.wire[p + 1].n - 1
      BY <1>0, <1>4 DEF LastOfParent
    <3>2. PICK y \in Int, v \in Int : y = rstack[n].idx /\ v = m.wire[p + 1].n
      BY <1>4, <1>6
    <3>3. y + 1 # v
      BY <3>1, <3>2
    <3>4. QED  BY <1>3, <3>2, <3>3
  <2>2. x # Len(kids)
    <3>1. SUFFICES ASSUME x = Len(kids) PROVE FALSE
      OBVIOUS
    <3>2. m.items[p].good
      BY <1>2, <1>3, <1>4, <3>1, GoodArray
    <3>3. ArrayItem(m, p)
      BY <1>2, <1>4, <3>2, ArrayGood
    <3>4. x = m.wire[p + 1].n
      BY <1>3, <3>1, <3>3 DEF ArrayItem
    <3>5. QED  BY <2>1, <3>4
  <2>3. QED  BY <1>4, <1>6, <2>2
<1>8. PICK t : t = kids[x + 1]
  OBVIOUS
<1>9. t \in DOMAIN m.items /\ m.items[t].level = m.items[p].level + 1 /\ t = m.items[kids[x]].next
  <2>1. (x + 1) - 1 = x /\ x + 1 # 1
    BY <1>4, <1>7
  <2>2. QED  BY <1>6, <1>7, <1>8, <2>1 DEF Kids
<1>10. Node(m, t, n)
  <2>1. m.items[p].level = (n - 1) - 1
    BY <1>4 DEF Node
  <2>2. m.items[t].level = n - 1
    BY <1>2, <1>9, <2>1
  <2>3. ASSUME m.ok PROVE m.items[t].good
    <3>1. m.items[p].good
      BY <1>4, <2>3 DEF Node
    <3>2. \A k \in 1 .. Len(kids) : m.items[kids[k]].good
      BY <1>2, <1>3, <1>4, <3>1, ArrayGood
    <3>3. QED  BY <1>7, <1>8, <3>2
  <2>4. QED  BY <1>9, <2>2, <2>3 DEF Node
<1>11. PICK c : c = NewTask(x)
  OBVIOUS
<1>12. Task(c) /\ c.idx = x /\ c.type = "none"
  BY <1>7, <1>11, EmptySequence DEF Task, NewTask, Types
<1>13. rstack' = [rstack EXCEPT ![n] = c]
  BY <1>0, <1>2, <1>3, <1>4, <1>11
<1>14. PICK q : /\ q = rstack' /\ Tasks(q, n)
                /\ \A i \in 1 .. n : q[i] = IF i = n THEN c ELSE rstack[i]
  <2>0. n \in Nat \ {0} /\ Tasks(rstack, n) /\ Task(c)
    BY <1>2, <1>12
  <2>1. PICK q : /\ q = [rstack EXCEPT ![n] = c] /\ Tasks(q, n)
                 /\ \A i \in 1 .. n : q[i] = IF i = n THEN c ELSE rstack[i]
    BY <2>0, Replaced
  <2>2. QED  BY <1>13, <2>1
<1>15. PICK h \in Nat \ {0} : h = n - 1 /\ h + 1 = n /\ h \in 1 .. n /\ n \in 1 .. n /\ h # n
  BY <1>2
<1>16. q[n] = c /\ q[h] = rstack[h]
  BY <1>14, <1>15
<1>17. PICK others : others = [i \in 1 .. n |-> IF i = n THEN t ELSE nodes[i]]
  OBVIOUS
<1>18. others[n] = t /\ others[h] = p /\ \A i \in 1 .. h : others[i] = nodes[i]
  <2>1. \A i \in 1 .. h : i \in 1 .. n /\ i # n
    BY <1>2, <1>15
  <2>2. QED  BY <1>3, <1>15, <1>17, <2>1
<1>19. Path(m, q, h, others)
  <2>1. ASSUME NEW i \in 1 .. h - 1
        PROVE  /\ q[i].elements = rstack[i].elements /\ q[i].done = rstack[i].done
               /\ q[i + 1].idx = rstack[i + 1].idx
    <3>1. i \in 1 .. n /\ i # n /\ i + 1 \in 1 .. n /\ i + 1 # n
      BY <1>2, <1>15
    <3>2. q[i] = rstack[i] /\ q[i + 1] = rstack[i + 1]
      BY <1>14, <3>1
    <3>3. QED  BY <3>2
  <2>2. n \in Nat
    BY <1>2
  <2>3. QED  BY <1>4, <1>15, <1>18, <2>1, <2>2, PathPart
<1>20. Link(m, p, t, rstack[h], c)
  <2>1. /\ rstack[h].elements = m.wire[p + 1].n /\ c.idx + 1 \in 1 .. Len(kids)
        /\ t = kids[c.idx + 1]
    BY <1>4, <1>7, <1>8, <1>12, <1>15
  <2>2. \A k \in 1 .. Len(rstack[h].done) :
          k <= Len(kids) /\ rstack[h].done[k] = m.items[kids[k]].value
    <3>1. Len(rstack[h].done) = x /\ \A k \in 1 .. x : rstack[h].done[k] = m.items[kids[k]].value
      BY <1>4, <1>5, <1>15
    <3>2. \A k \in 1 .. x : k <= Len(kids)
      BY <1>6, <1>7
    <3>3. QED  BY <3>1, <3>2
  <2>3. QED  BY <1>3, <1>4, <2>1, <2>2 DEF Link
<1>21. Path(m, q, h + 1, others)
  <2>1. Node(m, others[h + 1], h + 1) /\ Link(m, others[h], others[h + 1], q[h], q[h + 1])
    BY <1>10, <1>15, <1>16, <1>18, <1>20
  <2>2. QED  BY <1>19, <2>1, PathMore
<1>22. Reading(m, others[n], n, o - 0)'
  <2>1. o - 0 = o
    BY <1>2
  <2>2. (o - 0) + t = 1
    BY <1>4, <1>9, <2>1
  <2>3. obj' = <<>> /\ rstack'[n].type = "none" /\ others[n] = t
    BY <1>0, <1>4, <1>12, <1>14, <1>16, <1>18
  <2>4. QED  BY <2>2, <2>3 DEF Reading
<1>23. Within(m, n, o - 0, others)'
  BY <1>0, <1>14, <1>15, <1>21, <1>22 DEF Within
<1>24. Len(rstack') = n /\ rstack' # <<>>
  BY <1>2, <1>14, SequenceElim DEF Tasks
<1>25. pos' = pos + 0 /\ 0 \in Nat /\ Buffers /\ Buffers'
  <2>1. pos \in Nat
    BY DEF RInv, Buffers
  <2>2. QED  BY <1>0, <2>1 DEF RInv
<1>26. QED  BY <1>0, <1>1, <1>23, <1>24, <1>25, Arrived

-----------------------------------------------------------------------------
(* Nothing is parsed by these steps. *)
LEMMA IdleStep ==
  ASSUME RInv, RInv', History, Parse, UNCHANGED <<sent, rstack, obj, got>>,
         at # "move", at' # "move", rstack = <<>> => at = "caller" /\ at' = "caller",
         \/ Discard /\ wire' = wire
         \/ \E n \in 1 .. Len(wire) : Feed(n)
         \/ UNCHANGED <<buf, pos, wire>>
  PROVE  Parse'
<1>1. PICK off \in [Nat -> Int] :
        Layout(off) /\ (Before(off) \/ After(off) \/ \E nodes : Inside(off, nodes))
  BY DEF Parse
<1>2. Layout(off)'
  BY <1>1, Rearranged DEF RInv
<1>3. ~After(off)
  BY DEF After
<1>4. CASE Before(off)
  <2>1. Before(off)'
    BY <1>4 DEF Before
  <2>2. QED  BY <1>2, <2>1 DEF Parse
<1>5. CASE \E nodes : Inside(off, nodes)
  <2>1. PICK nodes : Inside(off, nodes)
    BY <1>5
  <2>2. Inside(off, nodes)'
    BY <2>1 DEF Inside, Within, Reading
  <2>3. QED  BY <1>2, <2>2 DEF Parse
<1>6. QED  BY <1>1, <1>3, <1>4, <1>5

(* The parser begins a message. *)
LEMMA Started ==
  ASSUME NEW m \in Messages, Grammatical(m), at' # "move", obj' = <<>>, rstack'[1].type = "none"
  PROVE  Within(m, 1, 0, <<1>>)'
<1>1. PICK nodes : nodes = <<1>> /\ nodes[1] = 1
  BY SingleSequence
<1>2. Node(m, 1, 1)
  BY DEF Grammatical, Node
<1>3. Path(m, rstack', 1, nodes)
  <2>1. \A i \in 1 .. 1 : i = 1
    OBVIOUS
  <2>2. \A i \in 1 .. 1 - 1 : FALSE
    OBVIOUS
  <2>3. QED  BY <1>1, <1>2, <2>1, <2>2 DEF Path
<1>4. Reading(m, nodes[1], 1, 0)'
  <2>1. 0 + nodes[1] = 1
    BY <1>1
  <2>2. QED  BY <2>1 DEF Reading
<1>5. Within(m, 1, 0, nodes)'
  BY <1>3, <1>4 DEF Within
<1>6. QED  BY <1>1, <1>5

(* redisReaderGetReply() goes on where it stopped, or begins a message. *)
LEMMA GetReplyStep ==
  ASSUME Grammar, RInv, RInv', History, Parse, GetReply
  PROVE  Parse'
<1>0. /\ at = "caller" /\ at' = "process" /\ UNCHANGED <<sent, wire, buf, pos, err, obj, got, last>>
      /\ rstack' = IF rstack = <<>> THEN <<NewTask(-1)>> ELSE rstack
  BY DEF GetReply
<1>1. CASE rstack # <<>>
  BY <1>0, <1>1, IdleStep
<1>2. CASE rstack = <<>>
  <2>1. PICK off \in [Nat -> Int] :
          Layout(off) /\ (Before(off) \/ After(off) \/ \E nodes : Inside(off, nodes))
    BY DEF Parse
  <2>2. Before(off)
    BY <1>0, <1>2, <2>1 DEF After, Inside
  <2>3. Layout(off)'
    BY <1>0, <2>1, Rearranged DEF RInv
  <2>a. PICK t : t = NewTask(-1)
    OBVIOUS
  <2>4. t = NewTask(-1) /\ t.type = "none"
    BY <2>a DEF NewTask
  <2>5. rstack' = <<t>> /\ Len(rstack') = 1 /\ rstack'[1] = t /\ rstack' # <<>>
    <3>1. rstack' = <<t>>
      BY <1>0, <1>2, <2>4
    <3>2. Sequence(<<t>>) /\ Len(<<t>>) = 1 /\ <<t>>[1] = t
      BY SingleSequence
    <3>3. <<t>> # <<>>
      BY <3>2, EmptySequence
    <3>4. QED  BY <3>1, <3>2, <3>3
  <2>6. off[Len(got) + 1] = 0 /\ obj = <<>>
    BY <2>2 DEF Before
  <2>7. CASE Len(got) = Len(sent)
    <3>1. Before(off)'
      BY <1>0, <2>4, <2>5, <2>6, <2>7 DEF Before
    <3>2. QED  BY <2>3, <3>1 DEF Parse
  <2>8. CASE Len(got) # Len(sent)
    <3>1. Len(got) \in Nat /\ Len(sent) \in Nat /\ Len(got) <= Len(sent)
      BY Lengths DEF RInv
    <3>2. Len(got) < Len(sent) /\ Len(got) + 1 \in 1 .. Len(sent)
      BY <2>8, <3>1
    <3>3. PICK m : m = sent[Len(got) + 1] /\ m \in Messages
      BY <3>2, WireType
    <3>4. Within(m, 1, 0, <<1>>)'
      BY <1>0, <2>4, <2>5, <2>6, <3>3, Started DEF Grammar
    <3>5. Inside(off, <<1>>)'
      <4>1. Len(got') < Len(sent') /\ sent'[Len(got') + 1] = m /\ off[Len(got') + 1] = 0
        BY <1>0, <2>6, <3>2, <3>3
      <4>2. QED  BY <2>5, <3>4, <4>1 DEF Inside
    <3>6. QED  BY <2>3, <3>5 DEF Parse
  <2>9. QED  BY <2>7, <2>8
<1>3. QED  BY <1>1, <1>2

(* A message more: it is the next one when there was none. *)
LEMMA SendStep ==
  ASSUME Grammar, RInv, RInv', History, Parse, NEW m \in Messages, Send(m)
  PROVE  Parse'
<1>0. sent' = Append(sent, m) /\ UNCHANGED <<buf, pos, rstack, err, obj, at, got, last>>
  BY DEF Send
<1>1. PICK off \in [Nat -> Int] :
        Layout(off) /\ (Before(off) \/ After(off) \/ \E nodes : Inside(off, nodes))
  BY DEF Parse
<1>2. PICK new \in [Nat -> Int] :
        Layout(new)' /\ \A j \in 1 .. Len(sent) + 1 : new[j] = off[j]
  BY <1>1, Extended DEF RInv
<1>3. PICK g \in Nat, c \in Nat : g = Len(got) /\ c = Len(sent) /\ g <= c
  <2>1. Len(got) \in Nat /\ Len(sent) \in Nat /\ Len(got) <= Len(sent)
    BY Lengths DEF RInv
  <2>2. QED  BY <2>1
<1>4. /\ Len(sent') = c + 1 /\ sent'[c + 1] = m /\ \A j \in 1 .. c : sent'[j] = sent[j]
  <2>1. sent \in Seq(Messages)
    BY DEF History
  <2>2. QED  BY <1>0, <1>3, <2>1, AppendProperties
<1>5. new[g + 1] = off[g + 1] /\ g + 1 \in 1 .. c + 1
  BY <1>2, <1>3
<1>6. CASE Before(off)
  <2>1. at # "move" /\ obj = <<>> /\ off[g + 1] = 0
    BY <1>3, <1>6 DEF Before
  <2>2. CASE rstack = <<>>
    <3>1. Before(new)'
      BY <1>0, <1>3, <1>5, <1>6, <2>1, <2>2 DEF Before
    <3>2. QED  BY <1>2, <3>1 DEF Parse
  <2>3. CASE rstack # <<>>
    <3>1. Len(rstack) = 1 /\ rstack[1].type = "none" /\ g = c
      BY <1>3, <1>6, <2>3 DEF Before
    <3>2. Within(m, 1, 0, <<1>>)'
      BY <1>0, <2>1, <3>1, Started DEF Grammar
    <3>3. Len(got') < Len(sent') /\ sent'[Len(got') + 1] = m /\ new[Len(got') + 1] = 0
      BY <1>0, <1>3, <1>4, <1>5, <2>1, <3>1
    <3>4. Inside(new, <<1>>)'
      BY <1>0, <2>3, <3>1, <3>2, <3>3 DEF Inside
    <3>5. QED  BY <1>2, <3>4 DEF Parse
  <2>4. QED  BY <2>2, <2>3
<1>7. CASE After(off)
  <2>1. g < c
    BY <1>3, <1>7 DEF After
  <2>2. g + 2 \in 1 .. c + 1 /\ g + 1 \in 1 .. c
    BY <2>1
  <2>3. new[g + 2] = off[g + 2] /\ sent'[g + 1] = sent[g + 1] /\ g < c + 1
    <3>1. g + 2 \in 1 .. Len(sent) + 1
      BY <1>3, <2>2
    <3>2. new[g + 2] = off[g + 2]
      BY <1>2, <3>1
    <3>3. sent'[g + 1] = sent[g + 1]
      BY <1>4, <2>2
    <3>4. g < c + 1
      BY <2>1
    <3>5. QED  BY <3>2, <3>3, <3>4
  <2>4. After(new)'
    BY <1>0, <1>3, <1>4, <1>7, <2>3 DEF After
  <2>5. QED  BY <1>2, <2>4 DEF Parse
<1>8. CASE \E nodes : Inside(off, nodes)
  <2>1. PICK nodes : Inside(off, nodes)
    BY <1>8
  <2>2. g < c
    BY <1>3, <2>1 DEF Inside
  <2>3. sent'[g + 1] = sent[g + 1] /\ g < c + 1
    <3>1. g + 1 \in 1 .. c
      BY <2>2
    <3>2. QED  BY <1>4, <2>2, <3>1
  <2>4. Within(sent[g + 1], Len(rstack), off[g + 1], nodes)
    BY <1>3, <2>1 DEF Inside
  <2>5. PICK x, n, o : x = sent[g + 1] /\ n = Len(rstack) /\ o = off[g + 1]
    OBVIOUS
  <2>6. Within(x, n, o, nodes)'
    BY <1>0, <2>4, <2>5 DEF Within, Reading, HasRead
  <2>7. Inside(new, nodes)'
    BY <1>0, <1>3, <1>4, <1>5, <2>1, <2>3, <2>5, <2>6 DEF Inside
  <2>8. QED  BY <1>2, <2>7 DEF Parse
<1>9. QED  BY <1>1, <1>6, <1>7, <1>8

(* A reply is returned: it is the value of the message that comes next. *)
LEMMA ReplyStep ==
  ASSUME RInv, RInv', History, RepliesAsSent, Parse, ReturnReply
  PROVE  Parse' /\ History' /\ RepliesAsSent'
<1>0. /\ at = "process" /\ rstack = <<>> /\ Discard /\ got' = got \o obj /\ obj' = <<>>
      /\ at' = "caller" /\ UNCHANGED <<sent, wire, rstack, err>>
  BY DEF ReturnReply
<1>1. PICK off \in [Nat -> Int] :
        Layout(off) /\ (Before(off) \/ After(off) \/ \E nodes : Inside(off, nodes))
  BY DEF Parse
<1>2. After(off)
  BY <1>0, <1>1 DEF Before, Inside
<1>3. PICK g \in Nat, c \in Nat : g = Len(got) /\ c = Len(sent) /\ g < c
  <2>1. Len(got) \in Nat /\ Len(sent) \in Nat /\ Len(got) < Len(sent)
    BY <1>2, Lengths DEF RInv, After
  <2>2. QED  BY <2>1
<1>4. off[g + 2] = 0 /\ sent[g + 1].ok /\ obj = <<sent[g + 1].value>>
  BY <1>2, <1>3 DEF After
<1>5. PICK v : v = sent[g + 1].value
  OBVIOUS
<1>6. Sequence(got') /\ Len(got') = g + 1 /\ got'[g + 1] = v /\ \A i \in 1 .. g : got'[i] = got[i]
  <2>1. got' = got \o <<v>>
    BY <1>0, <1>4, <1>5
  <2>2. PICK S : got \in Seq(S) /\ v \in S
    <3>1. got \in Seq({got[i] : i \in 1 .. Len(got)} \cup {v})
      BY DEF History, Sequence
    <3>2. QED  BY <3>1
  <2>3. got' = Append(got, v)
    BY <2>1, <2>2, AppendIsConcat
  <2>4. Sequence(got)
    BY DEF History
  <2>5. QED  BY <1>3, <2>3, <2>4, Appended, AppendedAt
<1>7. History'
  BY <1>0, <1>3, <1>6 DEF History
<1>8. RepliesAsSent'
  <2>1. DOMAIN got' = 1 .. g + 1 /\ DOMAIN got = 1 .. g
    BY <1>3, <1>6, SequenceElim DEF History
  <2>2. ASSUME NEW i \in 1 .. g + 1 PROVE sent[i].ok /\ got'[i] = sent[i].value
    <3>1. CASE i = g + 1
      BY <1>4, <1>5, <1>6, <3>1
    <3>2. CASE i # g + 1
      <4>1. i \in 1 .. g
        BY <3>2
      <4>2. QED  BY <1>6, <2>1, <4>1 DEF RepliesAsSent
    <3>3. QED  BY <3>1, <3>2
  <2>3. Len(got') <= Len(sent')
    BY <1>0, <1>3, <1>6
  <2>4. QED  BY <1>0, <2>1, <2>2, <2>3 DEF RepliesAsSent
<1>9. Layout(off)'
  BY <1>0, <1>1, Rearranged DEF RInv
<1>10. Before(off)'
  <2>1. (g + 1) + 1 = g + 2
    OBVIOUS
  <2>2. QED  BY <1>0, <1>4, <1>6, <2>1 DEF Before
<1>11. QED  BY <1>7, <1>8, <1>9, <1>10 DEF Parse

(***************************************************************************)
(* When all of the message is in the buffer, processItem() does not ask    *)
(* for more.                                                               *)
(***************************************************************************)
LEMMA Ready ==
  ASSUME RInv, History, wire = <<>>, at # "move", NEW off, NEW nodes, NEW m, NEW n, NEW o, NEW g,
         Locus(off, nodes, m, n, o, g)
  PROVE  ~Incomplete
<1>1. PICK s : s = nodes[n]
  OBVIOUS
<1>2. /\ s \in DOMAIN m.items /\ m \in Messages /\ Grammatical(m) /\ Cur = rstack[n]
      /\ n \in Nat \ {0} /\ o \in Int /\ s \in Nat \ {0} /\ m.wire \in Seq(Bytes)
      /\ s \in 1 .. Len(m.wire) /\ Node(m, s, n)
  BY <1>1, Top
<1>3. PICK p \in Nat, l \in Nat, b \in Nat :
        p = s /\ l = Len(m.wire) /\ b = Len(buf) /\ p >= 1 /\ p <= l
  <2>1. Len(buf) \in Nat /\ Len(m.wire) \in Nat /\ s \in Nat /\ s >= 1 /\ s <= Len(m.wire)
    BY <1>2 DEF RInv, Buffers
  <2>2. QED  BY <2>1
<1>4. Buffers
  BY DEF RInv
<1>5. CASE Cur.type = "none"
  <2>1. o + s = 1
    BY <1>1, <1>2, <1>5 DEF Locus, Within, Reading
  <2>2. PICK d \in Int : Seen(m.wire, s, d)
    BY <1>2, <1>4, <2>1, NextBytes
  <2>3. pos + 1 = d + p /\ d + l <= b
    BY <1>3, <2>2 DEF Seen
  <2>4. pos \in Nat
    BY <1>4 DEF Buffers
  <2>5. pos # b
    BY <1>3, <2>3, <2>4
  <2>6. QED  BY <1>3, <1>5, <2>5 DEF Incomplete, LineTypes
<1>6. CASE Cur.type # "none"
  <2>1. /\ m.wire[s].b \in TypeBytes /\ Cur.type = TypeOf(m.wire[s].b)
        /\ \E d \in Int : Seen(m.wire, s + 1, d) /\ pos = d + s
    BY <1>1, <1>6, Begun
  <2>2. PICK d \in Int : Seen(m.wire, s + 1, d)
    BY <2>1
  <2>3. d + l <= b
    BY <1>3, <2>2 DEF Seen
  <2>4. ASSUME Cur.type \in LineTypes PROVE HasLine
    <3>1. m.wire[s].b \in {"-", "+", ":"}
      BY <2>1, <2>4 DEF TypeBytes, TypeOf, LineTypes
    <3>2. LineItem(m.wire, s, m.items[s])
      BY <1>2, <3>1, LineOf
    <3>3. PICK z \in Nat : z = m.items[s].next
      BY <1>2, ItemPlace DEF Item
    <3>4. /\ p + 3 <= z /\ z <= l + 1 /\ NewlineAt(m.wire, z - 2)
          /\ \A i \in s + 1 .. z - 3 : ~NewlineAt(m.wire, i)
      BY <1>3, <3>2, <3>3 DEF LineItem
    <3>5. z - 2 \in p + 1 .. l - 1 /\ (z - 2) - 1 = z - 3 /\ p + 1 \in Nat \ {0}
          /\ d + (z - 2) + 1 <= b
      BY <1>3, <2>3, <3>4
    <3>6. /\ z - 2 \in s + 1 .. Len(m.wire) - 1 /\ s + 1 \in Nat \ {0}
          /\ \A i \in s + 1 .. (z - 2) - 1 : ~NewlineAt(m.wire, i)
      BY <1>3, <3>4, <3>5
    <3>7. HasLine <=> d + (z - 2) + 1 <= Len(buf)
      BY <1>2, <1>4, <2>2, <3>4, <3>6, LineSeen
    <3>8. QED  BY <1>3, <3>5, <3>7
  <2>5. ASSUME NumberLine(m.wire, s)
        PROVE  HasLine /\ LineEnd = d + s + 2 /\ ReadLongLong = m.wire[s + 1].n
               /\ m.wire[s + 1].n \in Int
    <3>1. /\ HasLine <=> d + s + 3 <= Len(buf)
          /\ HasLine => LineEnd = d + s + 2 /\ ReadLongLong = m.wire[s + 1].n
          /\ m.wire[s + 1].n \in Int
      BY <1>2, <1>4, <2>2, <2>5, NumberSeen
    <3>2. p + 3 <= l
      BY <1>3, <2>5 DEF NumberLine
    <3>3. d + p + 3 <= b
      BY <2>3, <3>2
    <3>4. QED  BY <1>3, <3>1, <3>3
  <2>6. ASSUME Cur.type = "string" PROVE BulkReady
    <3>1. m.wire[s].b = "$"
      BY <2>1, <2>6 DEF TypeBytes, TypeOf
    <3>2. BulkItem(m.wire, s, m.items[s])
      BY <1>2, <3>1, BulkOf
    <3>3. NumberLine(m.wire, s)
      BY <3>2 DEF BulkItem
    <3>4. PICK v \in Int : v = m.wire[s + 1].n /\ HasLine /\ LineEnd = d + p + 2 /\ ReadLongLong = v
      BY <1>3, <2>5, <3>3
    <3>5. CASE v < 0
      <4>1. ~(ReadLongLong >= 0)
        BY <3>4, <3>5
      <4>2. QED  BY <3>4, <4>1 DEF BulkReady
    <3>6. CASE ~(v < 0)
      <4>1. PICK z \in Nat : z = m.items[s].next
        BY <1>2, ItemPlace DEF Item
      <4>2. z = p + 6 + v /\ z <= l + 1
        BY <1>3, <3>2, <3>4, <3>6, <4>1 DEF BulkItem
      <4>3. (d + p + 2) + 1 + v + 2 <= b
        BY <2>3, <4>2
      <4>4. BulkEnd = (d + p + 2) + 1 + v + 2
        BY <3>4 DEF BulkEnd
      <4>5. QED  BY <1>3, <3>4, <4>3, <4>4 DEF BulkReady
    <3>7. QED  BY <3>5, <3>6
  <2>7. ASSUME Cur.type = "array", ~AtMaxDepth PROVE HasLine
    <3>1. m.wire[s].b = "*"
      BY <2>1, <2>7 DEF TypeBytes, TypeOf
    <3>2. n = Len(rstack)
      BY DEF Locus
    <3>3. m.items[s].level # MaxDepth
      BY <1>2, <2>7, <3>2 DEF Node, AtMaxDepth
    <3>4. NumberLine(m.wire, s)
      BY <1>2, <3>1, <3>3, ArrayOf
    <3>5. QED  BY <2>5, <3>4
  <2>8. QED  BY <1>6, <2>4, <2>6, <2>7 DEF Incomplete
<1>7. QED  BY <1>5, <1>6

(* No call returns to wait within an array that is too deep. *)
Shallow == at = "caller" /\ rstack # <<>> => ~(Cur.type = "array" /\ AtMaxDepth)

(* When it does ask, or has nothing to look at, all replies are out. *)
LEMMA NoneLeft ==
  ASSUME Grammar, RInv, History, Parse, Shallow, wire = <<>>,
         \/ at = "process" /\ rstack # <<>> /\ Incomplete
         \/ at = "caller" /\ buf = <<>>
  PROVE  Len(got) = Len(sent)
<1>1. PICK off \in [Nat -> Int] :
        Layout(off) /\ (Before(off) \/ After(off) \/ \E nodes : Inside(off, nodes))
  BY DEF Parse
<1>2. ~After(off)
  BY DEF After
<1>3. CASE \E nodes : Inside(off, nodes)
  <2>1. PICK nodes : Inside(off, nodes)
    BY <1>3
  <2>2. PICK m, n, o, g : Locus(off, nodes, m, n, o, g)
    BY <1>1, <2>1, Located
  <2>3. ~Incomplete
    BY <2>2, Ready
  <2>4. at = "caller" /\ buf = <<>> /\ rstack # <<>>
    BY <2>1, <2>3 DEF Inside
  <2>5. Cur.type \in Types
    BY <2>2, Top DEF Task
  <2>6. Len(buf) = 0 /\ pos = 0
    BY <2>4 DEF RInv, Buffers
  <2>7. ~HasLine /\ ~BulkReady
    <3>1. \A i \in pos + 1 .. Len(buf) - 1 : FALSE
      BY <2>6
    <3>2. Newlines = {}
      BY <3>1 DEF Newlines
    <3>3. QED  BY <3>2 DEF HasLine, BulkReady
  <2>8. ~(Cur.type = "array" /\ AtMaxDepth)
    BY <2>4 DEF Shallow
  <2>9. Incomplete
    BY <2>5, <2>6, <2>7, <2>8 DEF Incomplete, Types
  <2>10. QED  BY <2>3, <2>9
<1>4. CASE Before(off) /\ rstack # <<>>
  BY <1>4 DEF Before
<1>5. CASE Before(off) /\ rstack = <<>>
  <2>1. PICK g \in Nat, c \in Nat : g = Len(got) /\ c = Len(sent) /\ g <= c
    <3>1. Len(got) \in Nat /\ Len(sent) \in Nat /\ Len(got) <= Len(sent)
      BY Lengths DEF RInv
    <3>2. QED  BY <3>1
  <2>2. off[g + 1] = 0 /\ buf = <<>>
    BY <1>5, <2>1 DEF Before
  <2>3. Left = 0
    <3>1. Len(buf) = 0 /\ pos = 0
      BY <2>2 DEF RInv, Buffers
    <3>2. Len(wire) = 0
      BY EmptySequence
    <3>3. QED  BY <3>1, <3>2 DEF Left
  <2>4. ASSUME g # c PROVE FALSE
    <3>1. g + 1 \in 1 .. Len(sent)
      BY <2>1, <2>4
    <3>2. /\ off[(g + 1) + 1] = off[g + 1] + Len(sent[g + 1].wire) /\ off[(g + 1) + 1] <= Left
          /\ Len(sent[g + 1].wire) \in Nat \ {0}
      BY <1>1, <3>1, Placed, WireType DEF RInv
    <3>3. PICK x \in Nat \ {0} : x = Len(sent[g + 1].wire)
      BY <3>2
    <3>4. 0 + x <= 0
      BY <2>2, <2>3, <3>2, <3>3
    <3>5. QED  BY <3>4
  <2>5. QED  BY <2>1, <2>4
<1>6. QED  BY <1>1, <1>2, <1>3, <1>4, <1>5
-----------------------------------------------------------------------------
(***************************************************************************)
(* The inductive invariant: until the first error the parser knows where   *)
(* it is, and after it nothing is parsed any more.                         *)
(***************************************************************************)
PInv ==
  /\ RInv /\ History /\ Shallow
  /\ RepliesAsSent /\ FailsOnlyOnBadReply /\ NothingHeldBack
  /\ IF err THEN at = "caller" /\ last = "error" ELSE Parse

(* It holds in a new reader, *)
LEMMA InitParse == Init => PInv
<1> SUFFICES ASSUME Init PROVE PInv
  OBVIOUS
<1>0. /\ sent = <<>> /\ wire = <<>> /\ buf = <<>> /\ pos = 0 /\ rstack = <<>> /\ err = FALSE
      /\ obj = <<>> /\ at = "caller" /\ got = <<>> /\ last = "null"
  BY DEF Init
<1>1. RInv
  BY InitReader
<1>2. Len(sent) = 0 /\ Len(got) = 0 /\ Len(buf) = 0 /\ Len(wire) = 0 /\ DOMAIN got = {}
  BY <1>0, EmptySequence
<1>3. History
  BY <1>0, <1>2, EmptySequence DEF History
<1>4. RepliesAsSent /\ FailsOnlyOnBadReply /\ NothingHeldBack /\ Shallow
  BY <1>0, <1>2 DEF RepliesAsSent, FailsOnlyOnBadReply, NothingHeldBack, Shallow
<1>5. PICK off : off = [j \in Nat |-> 0]
  OBVIOUS
<1>6. off \in [Nat -> Int] /\ off[1] = 0
  BY <1>5
<1>7. Left = 0
  BY <1>0, <1>2 DEF Left
<1>8. Layout(off)
  <2>1. \A j \in 1 .. Len(sent) : FALSE
    BY <1>2
  <2>2. Len(sent) + 1 = 1 /\ \A j \in 1 .. Len(sent) + 1 : j = 1
    BY <1>2
  <2>3. QED  BY <1>6, <1>7, <2>1, <2>2 DEF Layout
<1>9. Before(off)
  BY <1>0, <1>2, <1>6 DEF Before
<1>10. Parse
  BY <1>6, <1>8, <1>9 DEF Parse
<1>11. QED  BY <1>0, <1>1, <1>3, <1>4, <1>10 DEF PInv

(* A step inside redisReaderGetReply() has no effect outside. *)
LEMMA WorkStep ==
  ASSUME PInv, RInv', ~err, Parse', at' # "caller", UNCHANGED <<sent, wire, err, got, last>>
  PROVE  PInv'
<1>1. History' /\ RepliesAsSent' /\ FailsOnlyOnBadReply' /\ NothingHeldBack'
  BY DEF PInv, History, RepliesAsSent, FailsOnlyOnBadReply, NothingHeldBack
<1>2. Shallow'
  BY DEF Shallow
<1>3. QED  BY <1>1, <1>2 DEF PInv

(* So these steps keep the invariant. *)
LEMMA WorkSteps ==
  ASSUME Grammar, PInv, RInv',
         \/ GetReply \/ ReadType \/ ProcessLineItem \/ ProcessBulkItem
         \/ ProcessMultiBulkItem \/ PopRoot \/ PopTask \/ NextTask
  PROVE  PInv'
<1>1. at' # "caller" /\ ~err /\ UNCHANGED <<sent, wire, err, got, last>>
  <2>1. at # "caller" \/ ~err
    BY DEF GetReply, ReadType, ProcessLineItem, ProcessBulkItem, ProcessMultiBulkItem,
           PopRoot, PopTask, NextTask
  <2>2. ~err
    BY <2>1 DEF PInv
  <2>3. CASE GetReply \/ ReadType \/ ProcessLineItem \/ PopRoot \/ PopTask \/ NextTask
    BY <2>2, <2>3 DEF GetReply, ReadType, ProcessLineItem, PopRoot, PopTask, NextTask, Complete
  <2>4. CASE ProcessBulkItem \/ ProcessMultiBulkItem
    BY <2>2, <2>4 DEF ProcessBulkItem, ProcessMultiBulkItem, Complete
  <2>5. QED  BY <2>3, <2>4
<1>2. RInv /\ History /\ Parse
  BY <1>1 DEF PInv
<1>3. Parse'
  BY <1>2, GetReplyStep, ReadTypeStep, LineStep, BulkStep, MultiBulkStep, PopRootStep,
     PopTaskStep, NextTaskStep
<1>4. QED  BY <1>1, <1>3, WorkStep

(* The server sends a message: nothing is complete until it has been fed. *)
LEMMA SendKeeps ==
  ASSUME Grammar, PInv, RInv', NEW m \in Messages, Send(m)
  PROVE  PInv'
<1>0. /\ sent' = Append(sent, m) /\ wire' = wire \o m.wire
      /\ UNCHANGED <<buf, pos, rstack, err, obj, at, got, last>>
  BY DEF Send
<1>1. RInv /\ History
  BY DEF PInv
<1>2. PICK g \in Nat, c \in Nat : g = Len(got) /\ c = Len(sent) /\ g <= c
  <2>1. Len(got) \in Nat /\ Len(sent) \in Nat /\ Len(got) <= Len(sent)
    BY <1>1, Lengths DEF RInv
  <2>2. QED  BY <2>1
<1>3. /\ sent' \in Seq(Messages) /\ Len(sent') = c + 1
      /\ \A j \in 1 .. c : sent'[j] = sent[j]
  <2>1. sent \in Seq(Messages)
    BY <1>1 DEF History
  <2>2. QED  BY <1>0, <1>2, <2>1, AppendProperties
<1>4. History'
  BY <1>0, <1>1, <1>2, <1>3 DEF History
<1>5. RepliesAsSent'
  <2>1. DOMAIN got = 1 .. g
    BY <1>1, <1>2, SequenceElim DEF History
  <2>2. ASSUME NEW i \in 1 .. g PROVE sent'[i].ok /\ got[i] = sent'[i].value
    <3>1. i \in 1 .. c
      BY <1>2
    <3>2. sent[i].ok /\ got[i] = sent[i].value
      BY <2>1 DEF PInv, RepliesAsSent
    <3>3. QED  BY <1>3, <3>1, <3>2
  <2>3. Len(got) <= Len(sent')
    BY <1>2, <1>3
  <2>4. QED  BY <1>0, <2>1, <2>2, <2>3 DEF RepliesAsSent
<1>6. FailsOnlyOnBadReply'
  <2>1. ASSUME err PROVE g < c + 1 /\ ~sent'[g + 1].ok
    <3>1. g < c /\ ~sent[g + 1].ok
      BY <1>2, <2>1 DEF PInv, FailsOnlyOnBadReply
    <3>2. g + 1 \in 1 .. c /\ g < c + 1
      BY <1>2, <3>1
    <3>3. QED  BY <1>3, <3>1, <3>2
  <2>2. QED  BY <1>0, <1>2, <1>3, <2>1 DEF FailsOnlyOnBadReply
<1>7. NothingHeldBack'
  <2>1. wire \in Seq(Bytes) /\ m.wire \in Seq(Bytes) /\ Len(m.wire) > 0
    BY <1>1, MessagesAssumption DEF RInv, Buffers, Bytes
  <2>2. Len(wire') = Len(wire) + Len(m.wire)
    BY <1>0, <2>1
  <2>3. Len(wire') > 0
    BY <2>1, <2>2
  <2>4. wire' # <<>>
    BY <2>3, EmptySequence
  <2>5. QED  BY <2>4 DEF NothingHeldBack
<1>8. Shallow'
  BY <1>0 DEF PInv, Shallow, Cur, AtMaxDepth
<1>9. err' = err /\ (err => at' = "caller" /\ last' = "error")
  BY <1>0 DEF PInv
<1>10. ~err => Parse'
  BY <1>1, SendStep DEF PInv
<1>11. QED  BY <1>4, <1>5, <1>6, <1>7, <1>8, <1>9, <1>10 DEF PInv

(* The caller feeds bytes, or asks and there are none. *)
LEMMA CallKeeps ==
  ASSUME Grammar, PInv, RInv', (\E n \in 1 .. Len(wire) : Feed(n)) \/ GetReplyReturnsEarly
  PROVE  PInv'
<1>0. at = "caller" /\ UNCHANGED <<sent, rstack, err, obj, at, got>>
  BY DEF Feed, GetReplyReturnsEarly
<1>1. RInv /\ History /\ Shallow
  BY DEF PInv
<1>2. History' /\ RepliesAsSent' /\ FailsOnlyOnBadReply' /\ Shallow'
  BY <1>0 DEF PInv, History, RepliesAsSent, FailsOnlyOnBadReply, Shallow, Cur, AtMaxDepth
<1>3. CASE \E n \in 1 .. Len(wire) : Feed(n)
  <2>1. ~err /\ last' = "fed"
    BY <1>3 DEF Feed
  <2>2. Parse'
    BY <1>0, <1>1, <1>3, <2>1, IdleStep DEF PInv
  <2>3. NothingHeldBack'
    BY <2>1 DEF NothingHeldBack
  <2>4. QED  BY <1>0, <1>2, <2>1, <2>2, <2>3 DEF PInv
<1>4. CASE GetReplyReturnsEarly
  <2>0. (err \/ buf = <<>>) /\ last' = (IF err THEN "error" ELSE "null")
        /\ UNCHANGED <<wire, buf, pos>>
    BY <1>4 DEF GetReplyReturnsEarly
  <2>1. CASE err
    <3>1. NothingHeldBack'
      BY <2>0, <2>1 DEF NothingHeldBack
    <3>2. QED  BY <1>0, <1>2, <2>0, <2>1, <3>1 DEF PInv
  <2>2. CASE ~err
    <3>1. Parse
      BY <2>2 DEF PInv
    <3>2. Parse'
      BY <1>0, <1>1, <2>0, <3>1, IdleStep
    <3>3. wire = <<>> => Len(got) = Len(sent)
      BY <1>0, <1>1, <2>0, <2>2, <3>1, NoneLeft
    <3>4. NothingHeldBack'
      BY <1>0, <2>0, <3>3 DEF NothingHeldBack
    <3>5. QED  BY <1>0, <1>2, <2>2, <3>2, <3>4 DEF PInv
  <2>3. QED  BY <2>1, <2>2
<1>5. QED  BY <1>3, <1>4

(* The parser fails. *)
LEMMA ErrorKeeps ==
  ASSUME Grammar, PInv, RInv', BadTypeByte \/ TooDeep
  PROVE  PInv'
<1>0. at = "process" /\ SetError
  BY DEF BadTypeByte, TooDeep
<1>1. /\ err' = TRUE /\ last' = "error" /\ at' = "caller" /\ rstack' = <<>>
      /\ UNCHANGED <<sent, wire, got>>
  BY <1>0 DEF SetError
<1>2. RInv /\ History /\ Parse
  BY <1>0 DEF PInv
<1>3. Len(got) < Len(sent) /\ ~sent[Len(got) + 1].ok
  BY <1>2, ErrorStep
<1>4. FailsOnlyOnBadReply'
  BY <1>1, <1>3 DEF FailsOnlyOnBadReply
<1>5. History' /\ RepliesAsSent' /\ NothingHeldBack' /\ Shallow'
  BY <1>1 DEF PInv, History, RepliesAsSent, NothingHeldBack, Shallow
<1>6. QED  BY <1>1, <1>4, <1>5 DEF PInv

(* The parser asks for more, or returns a reply. *)
LEMMA ReturnKeeps ==
  ASSUME Grammar, PInv, RInv', ReturnNull \/ ReturnReply
  PROVE  PInv'
<1>0. at = "process" /\ at' = "caller" /\ Discard /\ UNCHANGED <<sent, wire, rstack, err>>
  BY DEF ReturnNull, ReturnReply
<1>1. RInv /\ History /\ Parse /\ ~err /\ Shallow /\ RepliesAsSent
  BY <1>0 DEF PInv
<1>2. FailsOnlyOnBadReply'
  BY <1>0, <1>1 DEF FailsOnlyOnBadReply
<1>3. CASE ReturnNull
  <2>0. rstack # <<>> /\ Incomplete /\ last' = "null" /\ UNCHANGED <<obj, got>>
    BY <1>3 DEF ReturnNull
  <2>1. Parse'
    BY <1>0, <1>1, <2>0, IdleStep
  <2>2. wire = <<>> => Len(got) = Len(sent)
    BY <1>0, <1>1, <2>0, NoneLeft
  <2>3. NothingHeldBack'
    BY <1>0, <2>0, <2>2 DEF NothingHeldBack
  <2>4. History' /\ RepliesAsSent'
    BY <1>0, <1>1, <2>0 DEF History, RepliesAsSent
  <2>5. ~(Cur.type = "array" /\ AtMaxDepth)
    BY <2>0 DEF Incomplete, LineTypes
  <2>6. Shallow'
    BY <1>0, <2>5 DEF Shallow, Cur, AtMaxDepth
  <2>7. QED  BY <1>0, <1>1, <1>2, <2>1, <2>3, <2>4, <2>6 DEF PInv
<1>4. CASE ReturnReply
  <2>0. rstack = <<>> /\ last' = "reply"
    BY <1>4 DEF ReturnReply
  <2>1. Parse' /\ History' /\ RepliesAsSent'
    BY <1>1, <1>4, ReplyStep
  <2>2. NothingHeldBack' /\ Shallow'
    BY <1>0, <2>0 DEF NothingHeldBack, Shallow
  <2>3. QED  BY <1>0, <1>1, <1>2, <2>1, <2>2 DEF PInv
<1>5. QED  BY <1>3, <1>4

(* and every step keeps it, *)
LEMMA StepParse ==
  ASSUME Grammar
  PROVE  PInv /\ [Next]_vars => PInv'
<1> SUFFICES ASSUME PInv, [Next]_vars PROVE PInv'
  OBVIOUS
<1>1. RInv'
  BY StepReader DEF PInv
<1>2. CASE UNCHANGED vars
  <2>1. UNCHANGED <<sent, wire, buf, pos, rstack, err, obj, at, got, last>>
    BY <1>2 DEF vars
  <2>2. Parse => Parse'
    <3>1. SUFFICES ASSUME Parse PROVE Parse'
      OBVIOUS
    <3>2. PICK off \in [Nat -> Int] :
            Layout(off) /\ (Before(off) \/ After(off) \/ \E nodes : Inside(off, nodes))
      BY <3>1 DEF Parse
    <3>3. Layout(off)'
      BY <2>1, <3>2 DEF Layout, Left, Unread
    <3>4. Before(off)' \/ After(off)' \/ \E nodes : Inside(off, nodes)'
      BY <2>1, <3>2 DEF Before, After, Inside, Within, Reading, HasRead
    <3>5. QED  BY <3>3, <3>4 DEF Parse
  <2>3. /\ History' /\ RepliesAsSent' /\ FailsOnlyOnBadReply' /\ NothingHeldBack' /\ Shallow'
    BY <2>1 DEF PInv, History, RepliesAsSent, FailsOnlyOnBadReply, NothingHeldBack, Shallow,
                Cur, AtMaxDepth
  <2>4. QED  BY <1>1, <2>1, <2>2, <2>3 DEF PInv
<1>3. CASE Caller
  BY <1>1, <1>3, SendKeeps, CallKeeps, WorkSteps DEF Caller
<1>4. CASE Parser
  BY <1>1, <1>4, WorkSteps, ErrorKeeps, ReturnKeeps DEF Parser
<1>5. QED  BY <1>2, <1>3, <1>4 DEF Next

(* so that it always holds. *)
LEMMA ParseAlways ==
  ASSUME Grammar
  PROVE  Spec => []PInv
  BY InitParse, StepParse, PTL DEF Spec

(***************************************************************************)
(* However the server's bytes are cut into pieces by redisReaderFeed(),    *)
(* and wherever redisReaderGetReply() is called in between, the replies    *)
(* that come out are the values of the messages sent, in their order, and  *)
(* none comes out of a malformed message: for any messages of the          *)
(* protocol, however many and however deeply nested, any limit on the      *)
(* depth and any size at which consumed bytes are discarded.               *)
(***************************************************************************)
THEOREM RepliesComeAsSent ==
  ASSUME \A m \in Messages : Grammatical(m)
  PROVE  Spec => []RepliesAsSent
<1>1. Grammar
  BY DEF Grammar
<1>2. PInv => RepliesAsSent
  BY DEF PInv
<1>3. QED  BY <1>1, <1>2, ParseAlways, PTL

(***************************************************************************)
(* When redisReaderGetReply() says that there is nothing more and all that *)
(* was sent has been fed, every reply has been emitted: no item waits for  *)
(* bytes of the next one, and no reply stays in the reader's stack or      *)
(* buffer.                                                                 *)
(***************************************************************************)
THEOREM NothingIsHeldBack ==
  ASSUME \A m \in Messages : Grammatical(m)
  PROVE  Spec => []NothingHeldBack
<1>1. Grammar
  BY DEF Grammar
<1>2. PInv => NothingHeldBack
  BY DEF PInv
<1>3. QED  BY <1>1, <1>2, ParseAlways, PTL

(***************************************************************************)
(* The reader fails only on a message that is malformed or nested too      *)
(* deep, and has emitted all the replies before it: however a good message *)
(* is cut, the parser never takes a byte of it for the type byte of        *)
(* another item.                                                           *)
(***************************************************************************)
THEOREM OnlyBadRepliesFail ==
  ASSUME \A m \in Messages : Grammatical(m)
  PROVE  Spec => []FailsOnlyOnBadReply
<1>1. Grammar
  BY DEF Grammar
<1>2. PInv => FailsOnlyOnBadReply
  BY DEF PInv
<1>3. QED  BY <1>1, <1>2, ParseAlways, PTL
=============================================================================
