--------------------------- MODULE HiredisFormat ----------------------------
(***************************************************************************)
(* How hiredis makes a command out of a format and arguments               *)
(* (redisvFormatCommand), or out of a vector of arguments, with any        *)
(* allocation on the way failing.  A format is a sequence of characters;   *)
(* of the values passed, and of what printf makes of them, only the length *)
(* is kept, and of the command its length.  One step is one turn of the    *)
(* loop over the format.                                                   *)
(***************************************************************************)
EXTENDS Integers, Sequences, FiniteSets, SequencesExt

CONSTANTS
  Formats,      \* the formats that are tried
  ArgLens,      \* the lengths a value can have
  MaxArgc,      \* the most arguments of a vector
  FormatRoom    \* sizeof(_format) - 2

ASSUME FormatAssumption ==
  ArgLens \subseteq Nat /\ MaxArgc \in Nat /\ FormatRoom \in Nat

IntFmts == {"d"}                  \* "diouxX"
DoubleFmts == {"f"}               \* "eEfFgGaA"
Flags == {"0", " "}               \* "#0-+ "
Digits == {"0", "5"}              \* isdigit()

VARIABLES
  mode,         \* "format", "argv" or "sds": which function was called
  format,       \* its format
  c,            \* the position in it
  args,         \* lengths of the values taken from the va_list or the vector
  curarg, touched,
  argv,         \* curargv
  totlen,
  live,         \* strings allocated and not yet freed
  at, ret       \* where the call is, and what it returned

vars == <<mode, format, c, args, curarg, touched, argv, totlen, live, at, ret>>

(* A piece of an argument is a character of the format or the k-th value;  *)
(* one of no length leaves the string as it is.                            *)
Piece(what, len) == [what |-> what, len |-> len]
Cat(arg, p) == IF p.len > 0 THEN Append(arg, p) ELSE arg
sdslen(arg) == FoldLeft(LAMBDA n, p : n + p.len, 0, arg)

(* Four digits at a time. *)
digitsOf[v \in Nat] ==
  IF v < 10 THEN 1 ELSE IF v < 100 THEN 2 ELSE IF v < 1000 THEN 3
  ELSE IF v < 10000 THEN 4 ELSE 4 + digitsOf[v \div 10000]
countDigits(v) == digitsOf[v]

bulklen(len) == 1 + countDigits(len) + 2 + len + 2
CountLen(argc) == 1 + countDigits(argc) + 2
LensOf(v) == [i \in 1 .. Len(v) |-> sdslen(v[i])]
TotLen(lens) == FoldLeft(LAMBDA n, l : n + bulklen(l), CountLen(Len(lens)), lens)

Init ==
  /\ \/ mode = "format" /\ format \in Formats /\ args = <<>>
     \/ mode \in {"argv", "sds"} /\ format = <<>>
        /\ \E n \in 0 .. MaxArgc : args \in [1 .. n -> ArgLens]
  /\ c = 1 /\ curarg = <<>> /\ touched = FALSE /\ argv = <<>>
  /\ totlen = 0 /\ live = 0 /\ at = "start" /\ ret = 0

-----------------------------------------------------------------------------
(* redisFormatCommandArgv() and redisFormatSdsCommandArgv(). *)

Argv ==
  /\ at = "start" /\ mode \in {"argv", "sds"}
  /\ totlen' = TotLen(args)
  /\ argv' = [i \in 1 .. Len(args) |-> <<Piece(i, args[i])>>]
  /\ \/ at' = "done" /\ ret' = totlen' /\ UNCHANGED live
     \/ at' = "error" /\ ret' = -1 /\ UNCHANGED live
     (* sdsMakeRoomFor() fails, and the empty string is lost. *)
     \/ mode = "sds" /\ at' = "error" /\ ret' = -1 /\ live' = 1
  /\ UNCHANGED <<mode, format, c, args, curarg, touched>>

-----------------------------------------------------------------------------
(* redisvFormatCommand(). *)

Start ==
  /\ at = "start" /\ mode = "format"
  /\ \/ at' = "loop" /\ live' = 1 /\ UNCHANGED ret
     \/ at' = "error" /\ ret' = -1 /\ UNCHANGED live
  /\ UNCHANGED <<mode, format, c, args, curarg, touched, argv, totlen>>

(* Mutant: the first argument is not freed. *)
FreedOneShort(v, cur) == Len(v) - (IF v = <<>> THEN 0 ELSE 1) + cur
(* The strings that cleanup frees: the arguments, and curarg unless it is  *)
(* NULL (cur = 0).                                                         *)
Freed(v, cur) == Len(v) + cur

(* memory_err and format_err. *)
Fail(code, v, cur) ==
  /\ at' = "error" /\ ret' = code /\ live' = live - Freed(v, cur)
  /\ UNCHANGED <<mode, format, c, args, curarg, touched, argv, totlen>>
NoMemory == Fail(-1, argv, 1)

Peek(i) == IF i <= Len(format) THEN format[i] ELSE "NUL"
InLoop == at = "loop" /\ c <= Len(format)
AtPercent == InLoop /\ format[c] = "%" /\ c < Len(format)
AtLiteral == InLoop /\ (format[c] = "%" => c = Len(format))

Literal ==
  /\ AtLiteral /\ format[c] # " "
  /\ \/ /\ curarg' = Cat(curarg, Piece(format[c], 1)) /\ touched' = TRUE /\ c' = c + 1
        /\ UNCHANGED <<mode, format, args, argv, totlen, live, at, ret>>
     \/ NoMemory

(* Mutant: an argument that holds nothing is not one. *)
HasArgumentIfNotEmpty == curarg # <<>>
HasArgument == touched
(* A space ends the argument, if there is one. *)
Space ==
  /\ AtLiteral /\ format[c] = " "
  /\ \/ /\ ~HasArgument /\ c' = c + 1
        /\ UNCHANGED <<mode, format, args, curarg, touched, argv, totlen, live, at, ret>>
     \/ /\ HasArgument /\ argv' = Append(argv, curarg)
        /\ totlen' = totlen + bulklen(sdslen(curarg))
        /\ curarg' = <<>> /\ live' = live + 1 /\ touched' = FALSE /\ c' = c + 1
        /\ UNCHANGED <<mode, format, args, at, ret>>
     \/ HasArgument /\ NoMemory
     \/ HasArgument /\ Fail(-1, Append(argv, curarg), 0)

(* The value of a conversion is added, and the format goes on at next. *)
Convert(p, next) ==
  /\ curarg' = Cat(curarg, p) /\ touched' = TRUE /\ c' = next
  /\ UNCHANGED <<mode, format, argv, totlen, live, ret>>
NextValue(len) == Piece(Len(args) + 1, len)

(* %s and %b. *)
StringArg(len) ==
  /\ AtPercent /\ format[c + 1] \in {"s", "b"}
  /\ \/ args' = Append(args, len) /\ Convert(NextValue(len), c + 2) /\ UNCHANGED at
     \/ len > 0 /\ NoMemory

(* %% *)
Percent ==
  /\ AtPercent /\ format[c + 1] = "%"
  /\ \/ Convert(Piece("%", 1), c + 2) /\ UNCHANGED <<args, at>>
     \/ NoMemory

(* Where _p stands after it skipped the characters in S from i on. *)
Skip(i, S) ==
  CHOOSE j \in i .. Len(format) + 1 :
    Peek(j) \notin S /\ \A k \in i .. j - 1 : format[k] \in S
SizeStart ==
  LET w == Skip(Skip(c + 1, Flags), Digits)
  IN IF Peek(w) = "." THEN Skip(w + 1, Digits) ELSE w
(* The position of the last character of a printf conversion, or 0.        *)
(* strchr() also finds the NUL that ends the format.                       *)
ConversionEnd ==
  LET p == SizeStart
      q == IF Peek(p + 1) = Peek(p) THEN p + 2 ELSE p + 1
  IN IF Peek(p) \in IntFmts \cup DoubleFmts \cup {"NUL"} THEN p
     ELSE IF Peek(p) \in {"h", "l"} /\ Peek(q) \in IntFmts THEN q ELSE 0

AtConversion == AtPercent /\ format[c + 1] \notin {"s", "b", "%"}

(* A conversion that fits in _format.  Beyond the NUL nothing is known. *)
PrintfArg(len) ==
  /\ AtConversion /\ ConversionEnd > 0 /\ ConversionEnd + 1 - c < FormatRoom
  /\ \/ /\ args' = Append(args, len) /\ Convert(NextValue(len), ConversionEnd + 1)
        /\ at' = IF ConversionEnd > Len(format) THEN "pastEnd" ELSE "loop"
     \/ NoMemory

(* One that does not fit takes its value and adds nothing; the rest of it  *)
(* is read as text.                                                        *)
PrintfTooLong(len) ==
  /\ AtConversion /\ ConversionEnd > 0 /\ ConversionEnd + 1 - c >= FormatRoom
  /\ args' = Append(args, len) /\ Convert(Piece("", 0), c + 2) /\ UNCHANGED at

InvalidFormat ==
  /\ AtConversion /\ ConversionEnd = 0 /\ Fail(-2, argv, 1)

(* The end of the format: the last argument, then the command. *)
LastArgv == IF HasArgument THEN Append(argv, curarg) ELSE argv
Finish ==
  /\ at = "loop" /\ c = Len(format) + 1
  /\ \/ /\ argv' = LastArgv
        /\ totlen' = totlen + CountLen(Len(argv'))
                     + (IF HasArgument THEN bulklen(sdslen(curarg)) ELSE 0)
        /\ ret' = totlen' /\ live' = live - Freed(LastArgv, IF HasArgument THEN 0 ELSE 1)
        /\ at' = "done" /\ UNCHANGED <<mode, format, c, args, curarg, touched>>
     \/ HasArgument /\ NoMemory
     \/ Fail(-1, LastArgv, IF HasArgument THEN 0 ELSE 1)

Next ==
  \/ Argv \/ Start \/ Literal \/ Space \/ Percent \/ InvalidFormat \/ Finish
  \/ \E len \in ArgLens : StringArg(len) \/ PrintfArg(len) \/ PrintfTooLong(len)

Spec == Init /\ [][Next]_vars

-----------------------------------------------------------------------------
(* What a format means, without a scanner: the format is cut into items,   *)
(* each a character, a directive or a conversion of printf's grammar; the  *)
(* arguments are the runs of items between spaces.                         *)

Among(s, S) == \A i \in 1 .. Len(s) : s[i] \in S
Sizes == {<<>>, <<"h">>, <<"h", "h">>, <<"l">>, <<"l", "l">>}
Endings == {z \o <<d>> : z \in Sizes, d \in IntFmts} \cup {<<d>> : d \in DoubleFmts}
(* "%", flags, a width, a precision: what may stand before the ending. *)
IsOpening(s) ==
  /\ s # <<>> /\ s[1] = "%"
  /\ \E i \in 1 .. Len(s) : \E j \in i .. Len(s) :
       /\ Among(SubSeq(s, 2, i), Flags) /\ Among(SubSeq(s, i + 1, j), Digits)
       /\ j = Len(s) \/ (s[j + 1] = "." /\ Among(SubSeq(s, j + 2, Len(s)), Digits))
IsConversion(s) ==
  \E k \in 1 .. Len(s) - 1 : IsOpening(SubSeq(s, 1, k)) /\ SubSeq(s, k + 1, Len(s)) \in Endings
IsItem(s) ==
  \/ Len(s) = 1 /\ s[1] # "%"
  \/ Len(s) = 2 /\ s[1] = "%" /\ s[2] \in {"s", "b", "%"}
  \/ IsConversion(s)

(* The items of the format, with an empty one after what is none.  A "%"   *)
(* at the very end is a character.                                         *)
Items ==
  LET n == Len(format)
      Ends(i) == {j \in i .. n : IsItem(SubSeq(format, i, j)) \/ (i = n /\ j = n)}
      from[i \in 1 .. n + 1] ==
        IF i = n + 1 THEN <<>>
        ELSE IF Ends(i) = {} THEN <<SubSeq(format, i, n), <<>>>>
        ELSE LET j == CHOOSE j \in Ends(i) : TRUE
             IN <<SubSeq(format, i, j)>> \o from[j + 1]
  IN from[1]
WellFormed == ~Contains(Items, <<>>)
TooLong == \E i \in 1 .. Len(Items) : Len(Items[i]) >= FormatRoom
(* The format ends inside a conversion. *)
CutShort == ~WellFormed /\ IsOpening(Items[Len(Items) - 1])

IsValue(item) == Len(item) > 1 /\ item # <<"%", "%">>
Meaning ==
  LET items == Items
      Text(i) == items[i] # <<" ">>
      Runs == {r \in (1 .. Len(items)) \X (1 .. Len(items)) :
                 /\ r[1] <= r[2] /\ \A i \in r[1] .. r[2] : Text(i)
                 /\ (r[1] > 1 => ~Text(r[1] - 1)) /\ (r[2] < Len(items) => ~Text(r[2] + 1))}
      Number(i) == Cardinality({j \in 1 .. i : IsValue(items[j])})
      Of(i) == IF IsValue(items[i]) THEN Piece(Number(i), args[Number(i)])
               ELSE Piece(items[i][1], 1)
      sorted == SetToSortSeq(Runs, LAMBDA a, b : a[1] < b[1])
  IN [r \in 1 .. Len(sorted) |->
        SelectSeq([k \in 1 .. sorted[r][2] - sorted[r][1] + 1 |-> Of(sorted[r][1] + k - 1)],
                  LAMBDA p : p.len > 0)]

(* The decimal digits that printf writes. *)
Printed(n) == CHOOSE k \in 1 .. 9 : n < 10 ^ k /\ (k > 1 => n >= 10 ^ (k - 1))
Written(lens) ==
  FoldLeft(LAMBDA n, l : n + 1 + Printed(l) + 2 + l + 2, 1 + Printed(Len(lens)) + 2, lens)

(* The arguments of a command are what the format means: spaces in values  *)
(* do not separate, an empty value still makes an argument, and every      *)
(* value goes where its conversion stands.  The format is refused only if  *)
(* it is not well formed.                                                  *)
ArgumentsRight ==
  mode = "format" /\ at \in {"done", "error"} =>
    \/ TooLong
    \/ at = "done" /\ WellFormed /\ argv = Meaning
    \/ at = "error" /\ (ret = -2 => ~WellFormed)

(* The loop goes past the end of the format only if it ends inside a       *)
(* conversion.                                                             *)
PastEndOnlyIfCutShort == at = "pastEnd" => CutShort \/ TooLong

(* The length computed from the digit counts, for which memory was         *)
(* allocated, is the number of bytes then written: the asserts of all      *)
(* three functions.                                                        *)
LengthExact == at = "done" => ret = totlen /\ totlen = Written(LensOf(argv))

(* A command is what was asked for, and is as long as it says. *)
CommandRight == ArgumentsRight /\ PastEndOnlyIfCutShort /\ LengthExact

(* Whatever allocation fails, every string is freed when the call returns, *)
(* except that redisFormatSdsCommandArgv() can lose its empty one.         *)
NothingLeaked ==
  at \in {"done", "error"} => live = 0 \/ (live = 1 /\ mode = "sds" /\ ret = -1)
=============================================================================
