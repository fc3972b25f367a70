--------------------------- MODULE HiredisReader ----------------------------
(***************************************************************************)
(* The reply parser of hiredis (read.c).  A server sends replies; their    *)
(* bytes reach redisReaderFeed() in pieces cut anywhere; redisReaderGet-   *)
(* Reply() is called at any time and either emits a reply, or returns NULL *)
(* and keeps in the reader where it stopped, or fails for good.            *)
(*                                                                         *)
(* A byte is a record; the digits of a number are one byte that carries    *)
(* it, since a piece that ends between two digits is a line that is not    *)
(* complete.  Memory allocation is taken to succeed.                       *)
(***************************************************************************)
EXTENDS Integers, Sequences

CONSTANTS
  Messages,         \* replies the server may send: [wire, value, ok, items]
  MaxMessages,      \* bound on the replies sent
  MaxDepth,         \* the last index of rstack (8)
  DiscardAt         \* consumed bytes at which the buffer is cut (1024)

Byte(b) == [b |-> b, n |-> 0]
Number(n) == [b |-> "number", n |-> n]
CRLF == <<Byte("CR"), Byte("LF")>>

(* redisReply objects: what createString and the other functions make. *)
Object(type, bytes, elements) == [type |-> type, bytes |-> bytes, elements |-> elements]

ASSUME MessagesAssumption ==
  \A m \in Messages :
    m.ok \in BOOLEAN /\ m.wire \in Seq([b : STRING, n : Int]) /\ Len(m.wire) > 0
ASSUME BoundsAssumption ==
  MaxMessages \in Nat /\ MaxDepth \in Nat /\ DiscardAt \in Nat \ {0}

(* The reply type a first byte announces. *)
TypeBytes == {"-", "+", ":", "$", "*"}
TypeOf(b) ==
  CASE b = "-" -> "error" [] b = "+" -> "status" [] b = ":" -> "integer"
    [] b = "$" -> "string" [] b = "*" -> "array"
LineTypes == {"error", "status", "integer"}

VARIABLES
  sent, wire,       \* what the server sent: replies, and bytes not yet read
  buf, pos,         \* r->buf and the cursor
  rstack,           \* r->rstack[0 .. ridx]
  err,              \* r->err
  obj,              \* r->reply: the root object once it is complete
  at,               \* in the caller, or in redisReaderGetReply()
  got, last         \* replies emitted, and how the last call ended

vars == <<sent, wire, buf, pos, rstack, err, obj, at, got, last>>

(* redisReadTask, with the elements of its array that are done. *)
NewTask(idx) == [type |-> "none", elements |-> -1, idx |-> idx, done |-> <<>>]
Cur == rstack[Len(rstack)]

(* redisReaderCreateWithFunctions(). *)
Init ==
  /\ sent = <<>> /\ wire = <<>> /\ buf = <<>> /\ pos = 0
  /\ rstack = <<>> /\ err = FALSE /\ obj = <<>>
  /\ at = "caller" /\ got = <<>> /\ last = "null"

-----------------------------------------------------------------------------
(* The server and the caller. *)

Send(m) ==
  /\ Len(sent) < MaxMessages
  /\ sent' = Append(sent, m) /\ wire' = wire \o m.wire
  /\ UNCHANGED <<buf, pos, rstack, err, obj, at, got, last>>

(* redisReaderFeed() of the next n bytes; refused when there was an error. *)
Feed(n) ==
  /\ at = "caller" /\ ~err
  /\ buf' = buf \o SubSeq(wire, 1, n)
  /\ wire' = SubSeq(wire, n + 1, Len(wire))
  /\ last' = "fed"
  /\ UNCHANGED <<sent, pos, rstack, err, obj, at, got>>

(* redisReaderGetReply() up to its loop. *)
GetReplyReturnsEarly ==
  /\ at = "caller" /\ (err \/ buf = <<>>)
  /\ last' = IF err THEN "error" ELSE "null"
  /\ UNCHANGED <<sent, wire, buf, pos, rstack, err, obj, at, got>>

GetReply ==
  /\ at = "caller" /\ ~err /\ buf # <<>>
  /\ rstack' = IF rstack = <<>> THEN <<NewTask(-1)>> ELSE rstack
  /\ at' = "process"
  /\ UNCHANGED <<sent, wire, buf, pos, err, obj, got, last>>

-----------------------------------------------------------------------------
(* processItem() and the functions it calls. *)

(* __redisReaderSetError(); GetReply() then returns REDIS_ERR. *)
SetError ==
  /\ err' = TRUE /\ last' = "error" /\ at' = "caller"
  /\ buf' = <<>> /\ pos' = 0 /\ rstack' = <<>> /\ obj' = <<>>
  /\ UNCHANGED <<sent, wire, got>>

(* readBytes(): the type byte of the next item. *)
ReadType ==
  /\ at = "process" /\ rstack # <<>> /\ Cur.type = "none" /\ pos < Len(buf)
  /\ buf[pos + 1].b \in TypeBytes
  /\ rstack' = [rstack EXCEPT ![Len(rstack)].type = TypeOf(buf[pos + 1].b)]
  /\ pos' = pos + 1
  /\ UNCHANGED <<sent, wire, buf, err, obj, at, got, last>>

BadTypeByte ==
  /\ at = "process" /\ rstack # <<>> /\ Cur.type = "none" /\ pos < Len(buf)
  /\ buf[pos + 1].b \notin TypeBytes
  /\ SetError

(* seekNewline(): the places from the cursor on where a CR LF starts. *)
Newlines == {i \in pos + 1 .. Len(buf) - 1 : buf[i].b = "CR" /\ buf[i + 1].b = "LF"}
HasLine == Newlines # {}
(* Mutant: the last CR LF in the buffer is found. *)
LineEndLast == CHOOSE i \in Newlines : \A j \in Newlines : i >= j
LineEnd == CHOOSE i \in Newlines : \A j \in Newlines : i <= j
Line == SubSeq(buf, pos + 1, LineEnd - 1)

(* readLongLong(): 0 when no digit comes before the CR, with or without a  *)
(* sign, and -1 when something that is no digit does.                      *)
Signed == Line # <<>> /\ Line[1].b \in {"-", "+"}
Digits == IF Signed THEN Tail(Line) ELSE Line
ReadLongLong ==
  CASE Digits = <<>> -> 0
    [] Len(Digits) = 1 /\ Digits[1].b = "number" /\ (Signed => Digits[1].n >= 0) ->
         IF Signed /\ Line[1].b = "-" THEN -Digits[1].n ELSE Digits[1].n
    [] OTHER -> -1

(***************************************************************************)
(* An object is complete: it is the reply when it is the root, and is in   *)
(* its parent's array otherwise.  moveToNextTask() comes next.             *)
(***************************************************************************)
Complete(o, stack) ==
  LET n == Len(stack) IN
  /\ at' = "move"
  /\ IF n = 1 THEN obj' = <<o>> /\ rstack' = stack
     ELSE /\ rstack' = [stack EXCEPT ![n - 1].done = Append(@, o)]
          /\ UNCHANGED obj

(* processLineItem(). *)
ProcessLineItem ==
  /\ at = "process" /\ rstack # <<>> /\ Cur.type \in LineTypes /\ HasLine
  /\ Complete(IF Cur.type = "integer"
                THEN Object("integer", <<Number(ReadLongLong)>>, <<>>)
                ELSE Object(Cur.type, Line, <<>>), rstack)
  /\ pos' = LineEnd + 1
  /\ UNCHANGED <<sent, wire, buf, err, got, last>>

(* processBulkItem(): nil, or a string when all of it is in the buffer. *)
BulkEnd == LineEnd + 1 + ReadLongLong + 2
(* Mutant: a string that ends where the buffer ends is not complete. *)
BulkReadyOneMore == HasLine /\ (ReadLongLong >= 0 => BulkEnd < Len(buf))
BulkReady == HasLine /\ (ReadLongLong >= 0 => BulkEnd <= Len(buf))

ProcessBulkItem ==
  /\ at = "process" /\ rstack # <<>> /\ Cur.type = "string" /\ BulkReady
  /\ IF ReadLongLong < 0
       THEN Complete(Object("nil", <<>>, <<>>), rstack) /\ pos' = LineEnd + 1
       ELSE /\ Complete(Object("string", SubSeq(buf, LineEnd + 2, BulkEnd - 2), <<>>), rstack)
            /\ pos' = BulkEnd
  /\ UNCHANGED <<sent, wire, buf, err, got, last>>

(* Mutants: one level more, or one less, is allowed. *)
AtMaxDepthLate == Len(rstack) - 2 = MaxDepth
AtMaxDepthEarly == Len(rstack) = MaxDepth

(* processMultiBulkItem(). *)
AtMaxDepth == Len(rstack) - 1 = MaxDepth

TooDeep ==
  /\ at = "process" /\ rstack # <<>> /\ Cur.type = "array" /\ AtMaxDepth
  /\ SetError

ProcessMultiBulkItem ==
  /\ at = "process" /\ rstack # <<>> /\ Cur.type = "array"
  /\ ~AtMaxDepth /\ HasLine
  /\ pos' = LineEnd + 1
  /\ IF ReadLongLong > 0
       THEN /\ rstack' = Append([rstack EXCEPT ![Len(rstack)].elements = ReadLongLong],
                                NewTask(0))
            /\ UNCHANGED <<obj, at>>
       ELSE Complete(Object(IF ReadLongLong = -1 THEN "nil" ELSE "array", <<>>, <<>>),
                     rstack)
  /\ UNCHANGED <<sent, wire, buf, err, got, last>>

-----------------------------------------------------------------------------
(***************************************************************************)
(* moveToNextTask(), one turn of its loop at a time: the item at the top   *)
(* of the stack is done.                                                   *)
(***************************************************************************)
PopRoot ==
  /\ at = "move" /\ Len(rstack) = 1
  /\ rstack' = <<>> /\ at' = "process"
  /\ UNCHANGED <<sent, wire, buf, pos, err, obj, got, last>>

Parent == rstack[Len(rstack) - 1]
LastOfParent == Cur.idx = Parent.elements - 1

(* The parent's array is complete too. *)
PopTask ==
  LET below == SubSeq(rstack, 1, Len(rstack) - 1) IN
  /\ at = "move" /\ Len(rstack) > 1 /\ LastOfParent
  /\ Complete(Object("array", <<>>, Parent.done), below)
  /\ UNCHANGED <<sent, wire, buf, pos, err, got, last>>

(* The next item of the same array can be anything. *)
NextTask ==
  /\ at = "move" /\ Len(rstack) > 1 /\ ~LastOfParent
  /\ rstack' = [rstack EXCEPT ![Len(rstack)] = NewTask(Cur.idx + 1)]
  /\ at' = "process"
  /\ UNCHANGED <<sent, wire, buf, pos, err, obj, got, last>>

-----------------------------------------------------------------------------
(* The end of redisReaderGetReply(). *)

(* processItem() wants more bytes than there are. *)
Incomplete ==
  \/ Cur.type = "none" /\ pos = Len(buf)
  \/ Cur.type \in LineTypes /\ ~HasLine
  \/ Cur.type = "string" /\ ~BulkReady
  \/ Cur.type = "array" /\ ~AtMaxDepth /\ ~HasLine

(* sdsrange(): the consumed part of the buffer goes when it is long. *)
Discard ==
  /\ buf' = IF pos >= DiscardAt THEN SubSeq(buf, pos + 1, Len(buf)) ELSE buf
  /\ pos' = IF pos >= DiscardAt THEN 0 ELSE pos

ReturnNull ==
  /\ at = "process" /\ rstack # <<>> /\ Incomplete
  /\ Discard
  /\ at' = "caller" /\ last' = "null"
  /\ UNCHANGED <<sent, wire, rstack, err, obj, got>>

ReturnReply ==
  /\ at = "process" /\ rstack = <<>>
  /\ Discard
  /\ got' = got \o obj /\ obj' = <<>>
  /\ at' = "caller" /\ last' = "reply"
  /\ UNCHANGED <<sent, wire, rstack, err>>

-----------------------------------------------------------------------------
Caller ==
  \/ \E m \in Messages : Send(m)
  \/ \E n \in 1 .. Len(wire) : Feed(n)
  \/ GetReplyReturnsEarly \/ GetReply
Parser ==
  \/ ReadType \/ BadTypeByte \/ ProcessLineItem \/ ProcessBulkItem \/ TooDeep
  \/ ProcessMultiBulkItem \/ PopRoot \/ PopTask \/ NextTask \/ ReturnNull \/ ReturnReply
Next == Caller \/ Parser

Spec == Init /\ [][Next]_vars

-----------------------------------------------------------------------------
(***************************************************************************)
(* The asserts of moveToNextTask() and createStringObject() and their like *)
(* (the tasks below the top are arrays, and the index of a task is one of  *)
(* its parent's), and the array rstack is not overrun.                     *)
(***************************************************************************)
StackIsPath ==
  \A i \in 2 .. Len(rstack) :
    /\ rstack[i - 1].type = "array"
    /\ rstack[i].idx \in 0 .. rstack[i - 1].elements - 1
    /\ Len(rstack[i - 1].done) =
         rstack[i].idx + (IF at = "move" /\ i = Len(rstack) THEN 1 ELSE 0)

(* The reader's fields have their types, the cursor stays inside the       *)
(* buffer, and the stack is never more than the path to the current item.  *)
TypeOK ==
  /\ at \in {"caller", "process", "move"} /\ err \in BOOLEAN
  /\ last \in {"null", "reply", "error", "fed"}
  /\ pos \in 0 .. Len(buf) /\ Len(rstack) <= MaxDepth + 1 /\ Len(obj) <= 1
  /\ \A i \in DOMAIN rstack :
       rstack[i].type \in {"none", "string", "array"} \cup LineTypes
  /\ StackIsPath

(***************************************************************************)
(* The replies that come out are the replies that were sent, in order,     *)
(* however the bytes were cut into pieces and calls placed between them.   *)
(***************************************************************************)
RepliesAsSent ==
  /\ Len(got) <= Len(sent)
  /\ \A i \in DOMAIN got : sent[i].ok /\ got[i] = sent[i].value

(***************************************************************************)
(* A reply is not held back: when everything sent has been fed and the     *)
(* reader says that there is nothing more, it has emitted every reply.     *)
(***************************************************************************)
NothingHeldBack == last = "null" /\ wire = <<>> => Len(got) = Len(sent)

(***************************************************************************)
(* The parser fails only on the reply that is malformed or nested deeper   *)
(* than it supports, and has emitted all the replies before that one.      *)
(***************************************************************************)
FailsOnlyOnBadReply == err => Len(got) < Len(sent) /\ ~sent[Len(got) + 1].ok

-----------------------------------------------------------------------------
(***************************************************************************)
(* The protocol, without a parser.  The items field of a message gives,    *)
(* for the place of the type byte of each item in it, the item's level,    *)
(* whether the item is good (well formed, and not nested too deep), its    *)
(* value, the place after it, and the places of its elements.  What it     *)
(* says of an item must agree with the bytes there and with what it says   *)
(* of the elements.                                                        *)
(***************************************************************************)
NewlineAt(w, i) == w[i].b = "CR" /\ w[i + 1].b = "LF"
NumberLine(w, s) == s + 3 <= Len(w) /\ w[s + 1].b = "number" /\ NewlineAt(w, s + 2)

(* A line: what stands before the first CR LF. *)
LineItem(w, s, it) ==
  /\ w[s].b \in {"-", "+", ":"}
  /\ s + 3 <= it.next /\ it.next <= Len(w) + 1
  /\ NewlineAt(w, it.next - 2) /\ \A i \in s + 1 .. it.next - 3 : ~NewlineAt(w, i)
  /\ IF w[s].b = ":"
       THEN /\ NumberLine(w, s) /\ it.next = s + 4
            /\ it.value = Object("integer", <<Number(w[s + 1].n)>>, <<>>)
       ELSE it.value = Object(TypeOf(w[s].b), SubSeq(w, s + 1, it.next - 3), <<>>)

(* A string of as many bytes as its line says and two more, or nil. *)
BulkItem(w, s, it) ==
  /\ w[s].b = "$" /\ NumberLine(w, s)
  /\ IF w[s + 1].n < 0
       THEN it.next = s + 4 /\ it.value = Object("nil", <<>>, <<>>)
       ELSE /\ it.next = s + 6 + w[s + 1].n /\ it.next <= Len(w) + 1
            /\ it.value = Object("string", SubSeq(w, s + 4, it.next - 3), <<>>)

EmptyItem(w, s, it) ==
  /\ w[s].b = "*" /\ NumberLine(w, s) /\ it.level < MaxDepth
  /\ w[s + 1].n \in {-1, 0} /\ it.next = s + 4
  /\ it.value = Object(IF w[s + 1].n = -1 THEN "nil" ELSE "array", <<>>, <<>>)

(* An array: its elements follow one another up to the first bad one. *)
Elements(m, s) ==
  LET w == m.wire
      it == m.items[s]
      kids == it.kids
  IN  /\ w[s].b = "*" /\ NumberLine(w, s) /\ it.level < MaxDepth
      /\ Len(kids) \in 1 .. w[s + 1].n
      /\ \A k \in 1 .. Len(kids) :
           /\ kids[k] \in DOMAIN m.items /\ m.items[kids[k]].level = it.level + 1
           /\ kids[k] = IF k = 1 THEN s + 4 ELSE m.items[kids[k - 1]].next
           /\ k < Len(kids) => m.items[kids[k]].good

ArrayItem(m, s) ==
  LET it == m.items[s]
      kids == it.kids
      n == Len(kids)
  IN  /\ Elements(m, s) /\ n = m.wire[s + 1].n
      /\ m.items[kids[n]].good /\ it.next = m.items[kids[n]].next
      /\ it.value = Object("array", <<>>, [k \in 1 .. n |-> m.items[kids[k]].value])

(* An unknown type, an array too deep, or one with a bad element. *)
BadItem(m, s) ==
  LET it == m.items[s]
      kids == it.kids
  IN  \/ m.wire[s].b \notin TypeBytes
      \/ m.wire[s].b = "*" /\ it.level = MaxDepth
      \/ Elements(m, s) /\ ~m.items[kids[Len(kids)]].good

Item(m, s) ==
  LET it == m.items[s] IN
  /\ s \in 1 .. Len(m.wire)
  /\ it.good \in BOOLEAN /\ it.level \in Nat /\ it.next \in Nat /\ it.kids \in Seq(Nat)
  /\ IF it.good THEN \/ LineItem(m.wire, s, it) \/ BulkItem(m.wire, s, it)
                     \/ EmptyItem(m.wire, s, it) \/ ArrayItem(m, s)
     ELSE BadItem(m, s)

(* The message is one item, and is good if that one is. *)
Grammatical(m) ==
  /\ \A s \in DOMAIN m.items : Item(m, s)
  /\ 1 \in DOMAIN m.items /\ m.items[1].level = 0 /\ m.ok = m.items[1].good
  /\ m.ok => m.value = m.items[1].value /\ m.items[1].next = Len(m.wire) + 1

=============================================================================
