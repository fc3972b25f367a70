-------------------------- MODULE MCHiredisFormat ---------------------------
(* Model-checking instances of HiredisFormat. *)
EXTENDS HiredisFormat

Alphabet == {"x", " ", "%", "s", "b", "d", "f", "h", "l", "0", "5", "."}
(* Every format of up to four characters, and some that are longer: two    *)
(* values in one argument, every part of a conversion, one that has no     *)
(* room in _format, several arguments.                                     *)
ShortFormats == UNION {[1 .. n -> Alphabet] : n \in 0 .. 4}
LongFormats ==
  {<<"%", "s", "%", "b", " ", "x">>, <<"x", " ", "%", "0", "5", ".", "5", "d">>,
   <<"%", "5", ".", "5", "l", "l", "d", " ", "%", "s">>,
   <<"%", "0", "0", "5", ".", "5", "h", "h", "d", " ", "x">>,
   <<"x", " ", "%", "s", " ", "%", "s", " ", " ", "x">>,
   <<"%", "s", " ", "%", "s", " ", "%", "5", ".", "x">>,
   <<"x", " ", "x", "%", "%", " ", "%", "h", "h", "d", "%", "f">>}
AllFormats == ShortFormats \cup LongFormats
=============================================================================
