-------------------------- MODULE MCHiredisReader ---------------------------
(* Model-checking instances of HiredisReader. *)
EXTENDS HiredisReader, FiniteSetsExt, TLC

X == Byte("x")
Status == Object("status", <<X>>, <<>>)
Integer == Object("integer", <<Number(2)>>, <<>>)
Empty == Object("string", <<>>, <<>>)
Binary == Object("string", CRLF, <<>>)
Nil == Object("nil", <<>>, <<>>)
Array(elements) == Object("array", <<>>, elements)

(* The protocol, as the server writes it. *)
RECURSIVE Encode(_), EncodeAll(_)
Encode(o) ==
  CASE o.type = "status" -> <<Byte("+")>> \o o.bytes \o CRLF
    [] o.type = "error" -> <<Byte("-")>> \o o.bytes \o CRLF
    [] o.type = "integer" -> <<Byte(":")>> \o o.bytes \o CRLF
    [] o.type = "nil" -> <<Byte("$"), Number(-1)>> \o CRLF
    [] o.type = "string" ->
         <<Byte("$"), Number(Len(o.bytes))>> \o CRLF \o o.bytes \o CRLF
    [] o.type = "junk" -> o.bytes
    [] o.type = "array" ->
         <<Byte("*"), Number(Len(o.elements))>> \o CRLF \o EncodeAll(o.elements)
EncodeAll(s) == IF s = <<>> THEN <<>> ELSE Encode(Head(s)) \o EncodeAll(Tail(s))

(***************************************************************************)
(* The items of an object that starts at place s: the elements after a bad *)
(* one are not part of what the parser gets to.                            *)
(***************************************************************************)
RECURSIVE ItemsOf(_, _, _)
ItemsOf(o, s, level) ==
  LET deep == o.type = "array" /\ level = MaxDepth
      all == IF deep THEN <<>> ELSE o.elements
      start == [k \in 1 .. Len(all) |-> s + 4 + Len(EncodeAll(SubSeq(all, 1, k - 1)))]
      of == [k \in 1 .. Len(all) |-> ItemsOf(all[k], start[k], level + 1)]
      bad == {k \in 1 .. Len(all) : ~of[k][start[k]].good}
      n == IF bad = {} THEN Len(all) ELSE Min(bad)
      item == [good |-> o.type # "junk" /\ ~deep /\ bad = {}, level |-> level, value |-> o,
               next |-> s + Len(Encode(o)), kids |-> SubSeq(start, 1, n)]
  IN FoldSet(LAMBDA k, f : f @@ of[k], s :> item, 1 .. n)

Message(o, bytes) ==
  LET items == ItemsOf(o, 1, 0)
  IN [wire |-> bytes, value |-> o, ok |-> items[1].good, items |-> items]

(* An array of arrays ends two levels, and one follows another's end. *)
Replies ==
  {Message(o, Encode(o)) : o \in
     {Status, Object("error", <<X>>, <<>>), Integer, Empty, Binary, Nil, Array(<<>>),
      Array(<<Binary, Integer>>), Array(<<Array(<<Status>>), Nil>>),
      Array(<<Array(<<>>), Array(<<Empty, Nil>>)>>)}}
  \cup {Message(Nil, <<Byte("*"), Number(-1)>> \o CRLF)}

(* A byte that is no type, alone and inside an array; arrays too deep. *)
Junk == Object("junk", <<X>>, <<>>)
Malformed ==
  {Message(o, Encode(o)) : o \in
     {Junk, Array(<<Nil, Junk>>), Array(<<Array(<<Array(<<Status>>)>>)>>)}}

AllMessages == Replies \cup Malformed

(* They meet the hypothesis of the theorems about HiredisReader. *)
ASSUME MessagesGrammatical ==
  /\ \A m \in AllMessages : Grammatical(m)
  /\ \A m \in AllMessages : m.ok <=> m \in Replies
=============================================================================
