------------------------- MODULE RedisClientProofs --------------------------
(***************************************************************************)
(* Proofs about RedisClient, for any number of threads and calls.          *)
(*                                                                         *)
(* A reply carries no identifier, so that it reaches the call it answers   *)
(* is a fact about everything between the two ends of the connection: the  *)
(* bytes in the reader's buffer, those on their way back, those on their   *)
(* way out and those in the output buffer are, in this order, what is left *)
(* of the commands of the one call that is under way.                      *)
(***************************************************************************)
EXTENDS RedisClient, SequenceTheorems, TLAPS

(* Commands of a call, and the command that the p-th byte of it belongs to. *)
CmdCount(kind) == IF kind \in Writes /\ slaves THEN 2 ELSE 1
CmdAt(n, p) == Cmd(n, p > 2)

(* Only one thread is inside the context, in a call that is not over. *)
OneInside ==
  /\ \A t, u \in Inside : t = u
  /\ \A t \in Inside :
       /\ th[t].kind \in Writes \cup {"read"} /\ th[t].call \in 1 .. MaxCalls
       /\ Len(th[t].got) < CmdCount(th[t].kind)

(* The replies a call has read answer its own commands, in order. *)
Answers(got, n) ==
  \A i \in 1 .. Len(got) : got[i] = Cmd(n, i = 2) /\ got[i] \in answered

RepliesOwn ==
  /\ \A t \in Inside : Answers(th[t].got, th[t].call)
  /\ \A r \in returned :
       /\ Answers(r.got, r.call)
       /\ Len(r.got) <= CmdCount(r.kind)
       /\ r.kind \in Writes => Len(r.got) = CmdCount(r.kind)

(* The bytes of s are bytes offset + 1, offset + 2, ... of call n. *)
Carries(s, n, offset) == \A i \in 1 .. Len(s) : s[i].cmd = CmdAt(n, offset + i)
AllIn(s, cmds) == \A i \in 1 .. Len(s) : s[i].cmd \in cmds

(***************************************************************************)
(* The pipeline of a call that has read some of its replies: what is left  *)
(* of the replies, and, unless the server closed the connection, what is   *)
(* left of the commands behind them.                                       *)
(***************************************************************************)
Replies(t) == 2 * Len(th[t].got) + Len(rbuf) + Len(in)
All(t) == 2 * CmdCount(th[t].kind)
ReplySide(t) ==
  /\ Carries(rbuf, th[t].call, 2 * Len(th[t].got))
  /\ Carries(in, th[t].call, 2 * Len(th[t].got) + Len(rbuf))
  /\ AllIn(rbuf, answered) /\ AllIn(in, answered) /\ Replies(t) <= All(t)
CommandSide(t) ==
  up => /\ Replies(t) \in {0, 2, 4} /\ Replies(t) + Len(out) + Len(obuf) = All(t)
        /\ Carries(out, th[t].call, Replies(t))
        /\ Carries(obuf, th[t].call, Replies(t) + Len(out))
Progress(t) ==
  /\ th[t].at \in {"get", "write"} /\ th[t].got = <<>> => rbuf = <<>>
  /\ th[t].at \in {"read", "parse"} \/ th[t].got # <<>> => obuf = <<>>
  /\ th[t].at \in {"write", "read"} => Len(rbuf) < 2
Pipeline(t) == ReplySide(t) /\ CommandSide(t) /\ Progress(t)

Drained == obuf = <<>> /\ rbuf = <<>> /\ out = <<>> /\ in = <<>>

(***************************************************************************)
(* What is in the buffers.  After an error nothing is read any more, and   *)
(* what is left in the reader is not a whole reply.                        *)
(***************************************************************************)
Healthy ==
  process \in {"starting", "running"} /\ ~err =>
    (Inside = {} => Drained) /\ (\A t \in Inside : Pipeline(t))
Failed ==
  Running /\ err =>
    /\ Len(rbuf) < 2
    /\ \A t \in Inside : th[t].at \in {"get", "write"} /\ th[t].got = <<>>
Starting == process = "starting" => Inside = {} /\ ~err
Buffers == (~up => out = <<>>) /\ Healthy /\ Failed /\ Starting

IInv == TypeOK /\ OneInside /\ RepliesOwn /\ Buffers

-----------------------------------------------------------------------------
(* The type invariant, in the parts that the steps disturb separately.     *)

Processes == {"starting", "running", "freed", "exit1", "exit2", "aborted", "killed", "undefined"}
ThreadStates ==
  [at : {"idle", "get", "write", "read", "parse", "threw"},
   kind : Writes \cup {"read", "none"}, call : 0 .. MaxCalls, got : Seq(Cmds)]
InsidePlaces == {"get", "write", "read", "parse"}

ControlType ==
  /\ slaves \in BOOLEAN /\ err \in BOOLEAN /\ up \in BOOLEAN
  /\ process \in Processes /\ calls \in 0 .. MaxCalls
ThreadType == th \in [Threads -> ThreadStates]
WireType == obuf \in Seq(Wire) /\ rbuf \in Seq(Wire) /\ out \in Seq(Wire) /\ in \in Seq(Wire)
HistoryType ==
  /\ answered \subseteq Cmds
  /\ returned \subseteq [call : 1 .. MaxCalls, kind : Writes \cup {"read"}, got : Seq(Cmds)]

LEMMA TypeParts == TypeOK <=> ControlType /\ ThreadType /\ WireType /\ HistoryType
  BY Zenon DEF TypeOK, ControlType, ThreadType, WireType, HistoryType, Processes, ThreadStates

LEMMA TypePartsPrime == TypeOK' <=> (ControlType /\ ThreadType /\ WireType /\ HistoryType)'
  BY TypeParts, PTL

-----------------------------------------------------------------------------
(* Cutting a buffer in two, and putting two together. *)

LEMMA Cut ==
  ASSUME NEW S, NEW s \in Seq(S), NEW k \in 0 .. Len(s)
  PROVE  /\ SubSeq(s, 1, k) \in Seq(S) /\ Len(SubSeq(s, 1, k)) = k
         /\ \A i \in 1 .. k : SubSeq(s, 1, k)[i] = s[i]
         /\ SubSeq(s, k + 1, Len(s)) \in Seq(S) /\ Len(SubSeq(s, k + 1, Len(s))) = Len(s) - k
         /\ \A i \in 1 .. Len(s) - k : SubSeq(s, k + 1, Len(s))[i] = s[k + i]
  <1>1. Len(s) \in Nat /\ k \in Nat
    BY LenProperties
  <1>2. SubSeq(s, 1, k) \in Seq(S) /\ Len(SubSeq(s, 1, k)) = k
        /\ \A i \in 1 .. k : SubSeq(s, 1, k)[i] = s[i]
    BY <1>1, SMT
  <1>3. SubSeq(s, k + 1, Len(s)) \in Seq(S) /\ Len(SubSeq(s, k + 1, Len(s))) = Len(s) - k
        /\ \A i \in 1 .. Len(s) - k : SubSeq(s, k + 1, Len(s))[i] = s[k + i]
    BY <1>1, SMT
  <1> QED BY <1>2, <1>3

LEMMA CarriesCut ==
  ASSUME NEW S, NEW s \in Seq(S), NEW k \in 0 .. Len(s), NEW n, NEW o \in Nat, NEW A
  PROVE  /\ Carries(s, n, o) => /\ Carries(SubSeq(s, 1, k), n, o)
                                /\ Carries(SubSeq(s, k + 1, Len(s)), n, o + k)
         /\ AllIn(s, A) => /\ AllIn(SubSeq(s, 1, k), A)
                           /\ AllIn(SubSeq(s, k + 1, Len(s)), A)
  <1> DEFINE a == SubSeq(s, 1, k)
             b == SubSeq(s, k + 1, Len(s))
  <1>1. Len(s) \in Nat /\ k \in Nat
    BY LenProperties
  <1>2. Len(a) = k /\ (\A i \in 1 .. k : a[i] = s[i])
        /\ Len(b) = Len(s) - k /\ (\A i \in 1 .. Len(s) - k : b[i] = s[k + i])
    BY Cut
  <1> HIDE DEF a, b
  <1>3. \A i \in 1 .. Len(a) : i \in 1 .. Len(s) /\ a[i] = s[i]
    BY <1>1, <1>2
  <1>4. \A i \in 1 .. Len(b) : k + i \in 1 .. Len(s) /\ b[i] = s[k + i] /\ (o + k) + i = o + (k + i)
    BY <1>1, <1>2
  <1>5. Carries(s, n, o) => Carries(a, n, o) /\ Carries(b, n, o + k)
    BY <1>3, <1>4 DEF Carries
  <1>6. AllIn(s, A) => AllIn(a, A) /\ AllIn(b, A)
    BY <1>3, <1>4 DEF AllIn
  <1> QED BY <1>5, <1>6 DEF a, b

LEMMA CarriesConcat ==
  ASSUME NEW S, NEW s \in Seq(S), NEW u \in Seq(S), NEW n, NEW o \in Nat, NEW A
  PROVE  /\ s \o u \in Seq(S) /\ Len(s \o u) = Len(s) + Len(u)
         /\ Carries(s, n, o) /\ Carries(u, n, o + Len(s)) => Carries(s \o u, n, o)
         /\ AllIn(s, A) /\ AllIn(u, A) => AllIn(s \o u, A)
  <1> DEFINE w == s \o u
  <1>1. Len(s) \in Nat /\ Len(u) \in Nat
    BY LenProperties
  <1>2. w \in Seq(S) /\ Len(w) = Len(s) + Len(u)
        /\ \A i \in 1 .. Len(s) + Len(u) : w[i] = IF i <= Len(s) THEN s[i] ELSE u[i - Len(s)]
    BY ConcatProperties
  <1> HIDE DEF w
  <1>3. \A i \in 1 .. Len(w) : \/ i \in 1 .. Len(s) /\ w[i] = s[i]
                               \/ /\ i - Len(s) \in 1 .. Len(u) /\ w[i] = u[i - Len(s)]
                                  /\ (o + Len(s)) + (i - Len(s)) = o + i
    BY <1>1, <1>2
  <1>4. Carries(s, n, o) /\ Carries(u, n, o + Len(s)) => Carries(w, n, o)
    BY <1>3 DEF Carries
  <1>5. AllIn(s, A) /\ AllIn(u, A) => AllIn(w, A)
    BY <1>3 DEF AllIn
  <1> QED BY <1>2, <1>4, <1>5 DEF w

(* The empty buffer carries anything. *)
LEMMA CarriesEmpty ==
  ASSUME NEW n, NEW o, NEW A
  PROVE  Carries(<<>>, n, o) /\ AllIn(<<>>, A)
  BY DEF Carries, AllIn

(* The two bytes of a command, at either place in a call. *)
LEMMA CarriesBytes ==
  ASSUME NEW n \in 1 .. MaxCalls, NEW w \in BOOLEAN,
         NEW type \in {"array", "status", "integer", "error"}
  PROVE  /\ Cmd(n, w) \in Cmds
         /\ Bytes(Cmd(n, w), type) \in Seq(Wire) /\ Len(Bytes(Cmd(n, w), type)) = 2
         /\ Carries(Bytes(Cmd(n, w), type), n, IF w THEN 2 ELSE 0)
  <1> DEFINE b == Bytes(Cmd(n, w), type)
  <1>1. Cmd(n, w) \in Cmds
    BY DEF Cmd, Cmds
  <1>2. b = <<[cmd |-> Cmd(n, w), type |-> type, half |-> 1],
              [cmd |-> Cmd(n, w), type |-> type, half |-> 2]>>
    BY DEF Bytes
  <1>3. [cmd |-> Cmd(n, w), type |-> type, half |-> 1] \in Wire
        /\ [cmd |-> Cmd(n, w), type |-> type, half |-> 2] \in Wire
    BY <1>1 DEF Wire
  <1>4. b \in Seq(Wire) /\ Len(b) = 2 /\ b[1].cmd = Cmd(n, w) /\ b[2].cmd = Cmd(n, w)
    BY <1>2, <1>3
  <1> HIDE DEF b
  <1>5. \A i \in 1 .. Len(b) : i = 1 \/ i = 2
    BY <1>4
  <1>6. Carries(b, n, IF w THEN 2 ELSE 0)
    <2>1. w = TRUE \/ w = FALSE
      OBVIOUS
    <2>2. \A i \in 1 .. Len(b) : b[i].cmd = Cmd(n, w)
      BY <1>4, <1>5
    <2>3. CASE w = TRUE
      <3>1. \A i \in 1 .. Len(b) : (2 + i > 2) = TRUE
        BY <1>5
      <3>2. \A i \in 1 .. Len(b) : CmdAt(n, 2 + i) = Cmd(n, w)
        BY <2>3, <3>1, Zenon DEF CmdAt
      <3> QED BY <2>2, <2>3, <3>2 DEF Carries
    <2>4. CASE w = FALSE
      BY <1>5, <2>2, <2>4 DEF Carries, CmdAt, Cmd
    <2> QED BY <2>1, <2>3, <2>4
  <1> QED BY <1>1, <1>4, <1>6 DEF b

-----------------------------------------------------------------------------
(* Steps that several actions share. *)

LEMMA ShortCall ==
  ASSUME NEW l \in Nat, NEW c \in {1, 2}, l < c
  PROVE  2 * l \in Nat /\ (2 * l = 0 \/ 2 * l = 2)
  OBVIOUS

LEMMA LastReply ==
  ASSUME NEW l \in Nat, NEW c \in {1, 2}, l + 1 = c, NEW a \in Nat, NEW b \in Nat,
         2 * l + a + b <= 2 * c, 2 <= a
  PROVE  a = 2 /\ b = 0 /\ 2 * l + 2 = 2 * c
  OBVIOUS

LEMMA CmdCountType == ASSUME NEW kind PROVE CmdCount(kind) \in {1, 2}
  BY DEF CmdCount

(* The process ends: nothing is claimed of the buffers any more. *)
LEMMA Ends ==
  ASSUME IInv, process' \in Processes \ {"starting", "running"},
         UNCHANGED <<slaves, th, obuf, network, returned, calls>>,
         err' \in BOOLEAN, rbuf' \in Seq(Wire)
  PROVE  IInv'
  <1>1. ControlType /\ ThreadType /\ WireType /\ HistoryType
    BY TypeParts DEF IInv
  <1>2. UNCHANGED <<slaves, th, obuf, out, in, up, answered, returned, calls>>
    BY DEF network
  <1>3. Inside' = Inside
    BY <1>2 DEF Inside
  <1>4. TypeOK'
    <2>1. ControlType'
      BY <1>1, <1>2 DEF ControlType
    <2>2. ThreadType' /\ WireType' /\ HistoryType'
      BY <1>1, <1>2 DEF ThreadType, WireType, HistoryType
    <2> QED BY <2>1, <2>2, TypePartsPrime
  <1>5. OneInside'
    BY <1>2, <1>3 DEF IInv, OneInside, CmdCount
  <1>6. RepliesOwn'
    BY <1>2, <1>3 DEF IInv, RepliesOwn, Answers, CmdCount
  <1>7. Buffers'
    <2>1. process' # "starting" /\ process' # "running"
      OBVIOUS
    <2>2. (~up => out = <<>>)'
      BY <1>2 DEF IInv, Buffers
    <2>3. Healthy' /\ Failed' /\ Starting'
      BY <2>1 DEF Healthy, Failed, Starting, Running
    <2> QED BY <2>2, <2>3 DEF Buffers
  <1> QED BY <1>4, <1>5, <1>6, <1>7 DEF IInv

(* The thread that is inside the context is the only one. *)
LEMMA AloneInside ==
  ASSUME IInv, Running, NEW t \in Threads, th[t].at \in InsidePlaces
  PROVE  /\ Inside = {t} /\ th[t] \in ThreadStates
         /\ th[t].kind \in Writes \cup {"read"} /\ th[t].call \in 1 .. MaxCalls
         /\ Len(th[t].got) < CmdCount(th[t].kind) /\ Answers(th[t].got, th[t].call)
         /\ ~err => Pipeline(t)
         /\ err => Len(rbuf) < 2 /\ th[t].at \in {"get", "write"} /\ th[t].got = <<>>
  <1>1. t \in Inside
    BY DEF Inside, InsidePlaces
  <1>2. Inside = {t}
    BY <1>1 DEF IInv, OneInside
  <1>3. th[t] \in ThreadStates
    BY TypeParts DEF IInv, ThreadType
  <1>4. th[t].kind \in Writes \cup {"read"} /\ th[t].call \in 1 .. MaxCalls
        /\ Len(th[t].got) < CmdCount(th[t].kind)
    BY <1>1 DEF IInv, OneInside
  <1>5. Answers(th[t].got, th[t].call)
    BY <1>1 DEF IInv, RepliesOwn
  <1>6. ~err => Pipeline(t)
    BY <1>1 DEF IInv, Buffers, Healthy, Running
  <1>7. err => Len(rbuf) < 2 /\ th[t].at \in {"get", "write"} /\ th[t].got = <<>>
    BY <1>1 DEF IInv, Buffers, Failed
  <1> QED BY <1>2, <1>3, <1>4, <1>5, <1>6, <1>7

(* The thread goes on inside its call. *)
LEMMA GoesOn ==
  ASSUME IInv, NEW t \in Threads, Inside \subseteq {t}, NEW r \in ThreadStates,
         th' = [th EXCEPT ![t] = r], r.at \in InsidePlaces,
         r.kind \in Writes \cup {"read"}, r.call \in 1 .. MaxCalls,
         Len(r.got) < CmdCount(r.kind), Answers(r.got, r.call),
         UNCHANGED <<slaves, answered, returned>>
  PROVE  /\ th'[t] = r /\ Inside' = {t}
         /\ ThreadType' /\ HistoryType' /\ OneInside' /\ RepliesOwn'
  <1>1. ThreadType /\ HistoryType
    BY TypeParts DEF IInv
  <1>2. th'[t] = r /\ (\A u \in Threads \ {t} : th'[u] = th[u])
    BY <1>1 DEF ThreadType
  <1>3. ThreadType'
    BY <1>1, <1>2 DEF ThreadType
  <1>4. HistoryType'
    BY <1>1 DEF HistoryType
  <1>5. \A u \in Threads \ {t} : th[u].at \notin InsidePlaces
    BY DEF Inside, InsidePlaces
  <1>6. Inside' = {t}
    BY <1>2, <1>5 DEF Inside, InsidePlaces
  <1>7. OneInside'
    BY <1>2, <1>6 DEF OneInside, CmdCount
  <1>8. RepliesOwn'
    BY <1>2, <1>6 DEF IInv, RepliesOwn, Answers, CmdCount
  <1> QED BY <1>2, <1>3, <1>4, <1>6, <1>7, <1>8

(* The call returns, with replies to its own commands. *)
LEMMA Returns ==
  ASSUME IInv, NEW t \in Threads, Inside = {t}, NEW got \in Seq(Cmds), ReturnOK(t, got),
         th[t].kind \in Writes \cup {"read"}, th[t].call \in 1 .. MaxCalls,
         Answers(got, th[t].call), Len(got) <= CmdCount(th[t].kind),
         th[t].kind \in Writes => Len(got) = CmdCount(th[t].kind),
         UNCHANGED <<slaves, answered>>
  PROVE  Inside' = {} /\ ThreadType' /\ HistoryType' /\ OneInside' /\ RepliesOwn'
  <1> DEFINE new == [call |-> th[t].call, kind |-> th[t].kind, got |-> got]
  <1>1. ThreadType /\ HistoryType
    BY TypeParts DEF IInv
  <1>2. th' = [th EXCEPT ![t] = Idle] /\ returned' = returned \cup {new}
    BY DEF ReturnOK
  <1>3. Idle \in ThreadStates
    <2>1. <<>> \in Seq(Cmds)
      OBVIOUS
    <2>2. 0 \in 0 .. MaxCalls
      BY MaxCallsAssumption
    <2> QED BY <2>1, <2>2 DEF Idle, ThreadStates
  <1>4. th'[t] = Idle /\ (\A u \in Threads \ {t} : th'[u] = th[u])
    BY <1>1, <1>2 DEF ThreadType
  <1>5. ThreadType'
    BY <1>1, <1>2, <1>3 DEF ThreadType
  <1>6. HistoryType'
    <2>1. new \in [call : 1 .. MaxCalls, kind : Writes \cup {"read"}, got : Seq(Cmds)]
      BY Zenon
    <2> QED BY <1>1, <1>2, <2>1 DEF HistoryType
  <1>7. \A u \in Threads \ {t} : th[u].at \notin InsidePlaces
    BY DEF Inside, InsidePlaces
  <1>8. Inside' = {}
    <2>1. Idle.at \notin InsidePlaces
      BY DEF Idle, InsidePlaces
    <2> QED BY <1>4, <1>7, <2>1 DEF Inside, InsidePlaces
  <1>9. OneInside'
    BY <1>8 DEF OneInside
  <1>10. RepliesOwn'
    <2>1. new.got = got /\ new.call = th[t].call /\ new.kind = th[t].kind
      OBVIOUS
    <2> HIDE DEF new
    <2>2. \A r \in returned' : r \in returned \/ r = new
      BY <1>2
    <2>3. \A r \in returned :
            Answers(r.got, r.call) /\ Len(r.got) <= CmdCount(r.kind)
            /\ (r.kind \in Writes => Len(r.got) = CmdCount(r.kind))
      BY DEF IInv, RepliesOwn
    <2>4. \A r \in returned' :
            Answers(r.got, r.call) /\ Len(r.got) <= CmdCount(r.kind)
            /\ (r.kind \in Writes => Len(r.got) = CmdCount(r.kind))
      BY <2>1, <2>2, <2>3
    <2> QED BY <1>8, <2>4 DEF RepliesOwn, Answers, CmdCount
  <1> QED BY <1>5, <1>6, <1>8, <1>9, <1>10

-----------------------------------------------------------------------------
(* One lemma for each action, or group of actions. *)

LEMMA ConstructStep ==
  ASSUME IInv, Construct
  PROVE  IInv'
  <1>1. ControlType /\ ThreadType /\ WireType /\ HistoryType
    BY TypeParts DEF IInv
  <1>2. UNCHANGED <<slaves, th, obuf, err, rbuf, out, in, up, answered, returned, calls>>
    BY DEF Construct, context, network
  <1>3. CASE process' = "exit1"
    <2>1. process' \in Processes \ {"starting", "running"}
      BY <1>3 DEF Processes
    <2>2. err' \in BOOLEAN /\ rbuf' \in Seq(Wire)
      BY <1>1, <1>2 DEF ControlType, WireType
    <2>3. UNCHANGED <<slaves, th, obuf, network, returned, calls>>
      BY <1>2 DEF network
    <2> QED BY <2>1, <2>2, <2>3, Ends
  <1>4. CASE process' = "running"
    <2>1. Inside = {} /\ ~err /\ Drained
      BY DEF IInv, Buffers, Healthy, Starting, Construct
    <2>2. Inside' = {} /\ Drained'
      BY <1>2, <2>1 DEF Inside, Drained
    <2>3. TypeOK'
      <3>1. ControlType'
        BY <1>1, <1>2, <1>4 DEF ControlType, Processes
      <3>2. ThreadType' /\ WireType' /\ HistoryType'
        BY <1>1, <1>2 DEF ThreadType, WireType, HistoryType
      <3> QED BY <3>1, <3>2, TypePartsPrime
    <2>4. OneInside' /\ RepliesOwn'
      BY <1>2, <2>2 DEF IInv, OneInside, RepliesOwn, Answers, CmdCount
    <2>5. Buffers'
      <3>1. (~up => out = <<>>)'
        BY <1>2 DEF IInv, Buffers
      <3>2. Healthy' /\ Failed' /\ Starting'
        BY <1>2, <1>4, <2>1, <2>2 DEF Healthy, Failed, Starting
      <3> QED BY <3>1, <3>2 DEF Buffers
    <2> QED BY <2>3, <2>4, <2>5 DEF IInv
  <1> QED BY <1>3, <1>4 DEF Construct

(* The steps that end the process between two calls. *)
LEMMA EndSteps ==
  ASSUME IInv, NEW t \in Threads, Destroy \/ CommandUndefined(t) \/ Race(t)
  PROVE  IInv'
  <1>1. process' \in Processes \ {"starting", "running"}
    BY DEF Destroy, CommandUndefined, Race, Processes
  <1>2. UNCHANGED <<slaves, th, obuf, network, returned, calls>> /\ err' = err /\ rbuf' = rbuf
    BY DEF Destroy, CommandUndefined, Race, context
  <1>3. err' \in BOOLEAN /\ rbuf' \in Seq(Wire)
    BY <1>2, TypeParts DEF IInv, ControlType, WireType
  <1> QED BY <1>1, <1>2, <1>3, Ends

LEMMA ScanStep ==
  ASSUME IInv, NEW t \in Threads, Scan(t)
  PROVE  IInv'
  <1>1. ControlType /\ ThreadType /\ WireType /\ HistoryType
    BY TypeParts DEF IInv
  <1>2. /\ UNCHANGED <<slaves, process, obuf, err, rbuf, out, in, up, answered, returned, calls>>
        /\ th' = [th EXCEPT ![t].at = "threw"] /\ th[t] = Idle
    BY DEF Scan, context, network
  <1>3. th[t].at \notin InsidePlaces /\ "threw" \notin InsidePlaces
    BY <1>2 DEF Idle, InsidePlaces
  <1>4. th'[t].at = "threw" /\ (\A u \in Threads \ {t} : th'[u] = th[u])
    BY <1>1, <1>2 DEF ThreadType, ThreadStates
  <1>5. Inside' = Inside /\ (\A u \in Inside : u \in Threads /\ th'[u] = th[u])
    BY <1>3, <1>4 DEF Inside, InsidePlaces
  <1>6. TypeOK'
    <2>1. ControlType'
      BY <1>1, <1>2 DEF ControlType
    <2>2. WireType' /\ HistoryType'
      BY <1>1, <1>2 DEF WireType, HistoryType
    <2>3. ThreadType'
      <3>1. [th[t] EXCEPT !.at = "threw"] \in ThreadStates
        BY <1>1 DEF ThreadType, ThreadStates
      <3> QED BY <1>1, <1>2, <3>1 DEF ThreadType
    <2> QED BY <2>1, <2>2, <2>3, TypePartsPrime
  <1>7. OneInside'
    BY <1>2, <1>5 DEF IInv, OneInside, CmdCount
  <1>8. RepliesOwn'
    BY <1>2, <1>5 DEF IInv, RepliesOwn, Answers, CmdCount
  <1>9. Buffers'
    <2>1. (~up => out = <<>>)' /\ Starting'
      BY <1>2, <1>5 DEF IInv, Buffers, Starting
    <2>2. \A u \in Inside : Pipeline(u) => Pipeline(u)'
      BY <1>2, <1>5 DEF Pipeline, ReplySide, CommandSide, Progress, Replies, All, CmdCount
    <2>3. Healthy'
      BY <1>2, <1>5, <2>2 DEF IInv, Buffers, Healthy, Drained
    <2>4. Failed'
      BY <1>2, <1>5 DEF IInv, Buffers, Failed, Running
    <2> QED BY <2>1, <2>3, <2>4 DEF Buffers
  <1> QED BY <1>6, <1>7, <1>8, <1>9 DEF IInv

(* What the three steps that begin a call have in common. *)
LEMMA BeginFacts ==
  ASSUME IInv, NEW t \in Threads, NEW kind \in Writes \cup {"read"}, Begin(t, kind)
  PROVE  /\ th'[t] = [at |-> "get", kind |-> kind, call |-> calls', got |-> <<>>]
         /\ Inside' = {t} /\ calls' \in 1 .. MaxCalls /\ process' = "running"
         /\ ThreadType' /\ HistoryType' /\ OneInside' /\ RepliesOwn'
         /\ ~err => Drained
         /\ UNCHANGED <<slaves, rbuf, out, in, up, answered>>
  <1> DEFINE r == [at |-> "get", kind |-> kind, call |-> calls', got |-> <<>>]
  <1>1. calls' \in 1 .. MaxCalls
    BY TypeParts, MaxCallsAssumption DEF IInv, ControlType, Begin
  <1>2. UNCHANGED <<slaves, process, rbuf, out, in, up, answered, returned>>
        /\ Running /\ Inside = {} /\ th' = [th EXCEPT ![t] = r]
    BY DEF Begin, network
  <1>3. <<>> \in Seq(Cmds) /\ Len(<<>>) = 0
    OBVIOUS
  <1>4. calls' \in 0 .. MaxCalls
    BY <1>1
  <1>5. r \in ThreadStates
    BY <1>3, <1>4, Zenon DEF ThreadStates
  <1>6. r.at = "get" /\ r.kind = kind /\ r.call = calls' /\ r.got = <<>>
    OBVIOUS
  <1> HIDE DEF r
  <1>7. Len(r.got) < CmdCount(r.kind) /\ Answers(r.got, r.call)
    BY <1>3, <1>6, CmdCountType DEF Answers
  <1>8. "get" \in InsidePlaces
    BY DEF InsidePlaces
  <1>9. /\ th'[t] = r /\ Inside' = {t}
        /\ ThreadType' /\ HistoryType' /\ OneInside' /\ RepliesOwn'
    BY <1>1, <1>2, <1>5, <1>6, <1>7, <1>8, GoesOn
  <1>10. ~err => Drained
    BY <1>2 DEF IInv, Buffers, Healthy, Running
  <1> QED BY <1>1, <1>2, <1>9, <1>10 DEF r, Running

(* A call that begins with its commands in an empty pipeline. *)
LEMMA BeginPipeline ==
  ASSUME IInv, NEW t \in Threads, NEW kind \in Writes \cup {"read"}, Begin(t, kind),
         obuf' \in Seq(Wire), err' = err,
         ~err => Carries(obuf', calls', 0) /\ Len(obuf') = 2 * CmdCount(kind)
  PROVE  IInv'
  <1> DEFINE r == [at |-> "get", kind |-> kind, call |-> calls', got |-> <<>>]
  <1>1. /\ th'[t] = r
        /\ Inside' = {t} /\ calls' \in 1 .. MaxCalls /\ process' = "running"
        /\ ThreadType' /\ HistoryType' /\ OneInside' /\ RepliesOwn'
        /\ ~err => Drained
        /\ UNCHANGED <<slaves, rbuf, out, in, up, answered>>
    BY BeginFacts
  <1>2. r.at = "get" /\ r.kind = kind /\ r.call = calls' /\ r.got = <<>>
    OBVIOUS
  <1> HIDE DEF r
  <1>3. TypeOK'
    <2>1. ControlType /\ WireType
      BY TypeParts DEF IInv
    <2>2. calls' \in 0 .. MaxCalls
      BY <1>1
    <2>3. ControlType'
      BY <1>1, <2>1, <2>2 DEF ControlType, Processes
    <2>4. WireType'
      BY <1>1, <2>1 DEF WireType
    <2> QED BY <1>1, <2>3, <2>4, TypePartsPrime
  <1>4. ~err => Pipeline(t)'
    <2> SUFFICES ASSUME ~err PROVE Pipeline(t)'
      OBVIOUS
    <2>1. rbuf' = <<>> /\ in' = <<>> /\ out' = <<>> /\ Len(<<>>) = 0
      BY <1>1 DEF Drained
    <2>2. CmdCount(kind)' = CmdCount(kind) /\ CmdCount(kind) \in {1, 2}
      BY <1>1, CmdCountType DEF CmdCount
    <2>3. Replies(t)' = 0 /\ All(t)' = 2 * CmdCount(kind)
      BY <1>1, <1>2, <2>1, <2>2 DEF Replies, All
    <2>4. ReplySide(t)'
      BY <1>1, <1>2, <2>1, <2>2, <2>3 DEF ReplySide, Carries, AllIn
    <2>5. CommandSide(t)'
      BY <1>1, <1>2, <2>1, <2>2, <2>3 DEF CommandSide, Carries
    <2>6. Progress(t)'
      BY <1>1, <1>2, <2>1 DEF Progress
    <2> QED BY <2>4, <2>5, <2>6 DEF Pipeline
  <1>5. Buffers'
    <2>1. (~up => out = <<>>)' /\ Starting'
      BY <1>1 DEF IInv, Buffers, Starting
    <2>2. Healthy'
      BY <1>1, <1>4 DEF Healthy
    <2>3. Failed'
      <3>1. err => Len(rbuf) < 2
        BY DEF IInv, Buffers, Failed, Begin
      <3> QED BY <1>1, <1>2, <3>1 DEF Failed
    <2> QED BY <2>1, <2>2, <2>3 DEF Buffers
  <1> QED BY <1>1, <1>3, <1>5 DEF IInv

LEMMA ReadStep ==
  ASSUME IInv, NEW t \in Threads, Read(t)
  PROVE  IInv'
  <1> DEFINE b == Bytes(Cmd(calls', FALSE), "array")
  <1>1. Begin(t, "read") /\ obuf' = obuf \o b /\ err' = err
    BY DEF Read, AppendCommand
  <1>2. calls' \in 1 .. MaxCalls /\ (~err => Drained)
    BY <1>1, BeginFacts
  <1>3. b \in Seq(Wire) /\ Len(b) = 2 /\ Carries(b, calls', 0)
    BY <1>2, CarriesBytes
  <1> HIDE DEF b
  <1>4. obuf \in Seq(Wire)
    BY TypeParts DEF IInv, WireType
  <1>5. obuf' \in Seq(Wire)
    BY <1>1, <1>3, <1>4, CarriesConcat
  <1>6. ~err => Carries(obuf', calls', 0) /\ Len(obuf') = 2 * CmdCount("read")
    <2>1. ~err => obuf' = b
      BY <1>1, <1>2, <1>3, ConcatEmptySeq DEF Drained
    <2>2. CmdCount("read") = 1
      BY DEF CmdCount, Writes
    <2> QED BY <1>3, <2>1, <2>2
  <1> QED BY <1>1, <1>5, <1>6, BeginPipeline

(* A buffer to which a WAIT is appended when there are slaves. *)
LEMMA AppendWaitType ==
  ASSUME calls' \in 1 .. MaxCalls, NEW buf \in Seq(Wire)
  PROVE  AppendWait(buf) \in Seq(Wire)
  <1>1. Bytes(Cmd(calls', TRUE), "integer") \in Seq(Wire)
    BY CarriesBytes
  <1> QED BY <1>1, CarriesConcat DEF AppendWait, AppendCommand

LEMMA CommandStep ==
  ASSUME IInv, NEW t \in Threads, NEW kind \in Writes, Command(t, kind)
  PROVE  IInv'
  <1> DEFINE b == Bytes(Cmd(calls', FALSE), "status")
             w == Bytes(Cmd(calls', TRUE), "integer")
  <1>1. Begin(t, kind) /\ obuf' = AppendWait(obuf \o b) /\ err' = err
    BY DEF Command, AppendCommand
  <1>2. calls' \in 1 .. MaxCalls /\ (~err => Drained)
    BY <1>1, BeginFacts
  <1>3. /\ b \in Seq(Wire) /\ Len(b) = 2 /\ Carries(b, calls', 0)
        /\ w \in Seq(Wire) /\ Len(w) = 2 /\ Carries(w, calls', 2)
    BY <1>2, CarriesBytes
  <1>4. \A buf : AppendWait(buf) = IF slaves THEN buf \o w ELSE buf
    BY DEF AppendWait, AppendCommand
  <1> HIDE DEF b, w
  <1>5. obuf \in Seq(Wire)
    BY TypeParts DEF IInv, WireType
  <1>6. obuf \o b \in Seq(Wire)
    BY <1>3, <1>5, CarriesConcat
  <1>7. obuf' \in Seq(Wire)
    BY <1>1, <1>2, <1>6, AppendWaitType
  <1>8. ~err => Carries(obuf', calls', 0) /\ Len(obuf') = 2 * CmdCount(kind)
    <2> SUFFICES ASSUME ~err PROVE Carries(obuf', calls', 0) /\ Len(obuf') = 2 * CmdCount(kind)
      OBVIOUS
    <2>1. obuf \o b = b
      BY <1>2, <1>3, ConcatEmptySeq DEF Drained
    <2>2. obuf' = IF slaves THEN b \o w ELSE b
      BY <1>1, <1>4, <2>1
    <2>3. Carries(b \o w, calls', 0) /\ Len(b \o w) = 4
      <3>1. 0 + Len(b) = 2 /\ 0 \in Nat /\ calls' \in Nat
        BY <1>2, <1>3
      <3>2. Carries(w, calls', 0 + Len(b))
        BY <1>3, <3>1
      <3>3. Carries(b, calls', 0) /\ Carries(w, calls', 0 + Len(b)) => Carries(b \o w, calls', 0)
        BY <1>3, <3>1, CarriesConcat, Zenon
      <3>4. Len(b \o w) = Len(b) + Len(w)
        BY <1>3, ConcatProperties
      <3> QED BY <1>3, <3>2, <3>3, <3>4
    <2>4. CmdCount(kind) = IF slaves THEN 2 ELSE 1
      BY DEF CmdCount
    <2> QED BY <1>3, <2>2, <2>3, <2>4
  <1>9. kind \in Writes \cup {"read"}
    OBVIOUS
  <1> QED BY <1>1, <1>7, <1>8, <1>9, BeginPipeline

LEMMA CommandRefusedStep ==
  ASSUME IInv, NEW t \in Threads, CommandRefused(t)
  PROVE  IInv'
  <1>1. Begin(t, "update") /\ obuf' = AppendWait(obuf) /\ err' = TRUE
    BY DEF CommandRefused
  <1> DEFINE r == [at |-> "get", kind |-> "update", call |-> calls', got |-> <<>>]
  <1>2. "update" \in Writes \cup {"read"}
    BY DEF Writes
  <1>3. /\ th'[t] = r
        /\ Inside' = {t} /\ calls' \in 1 .. MaxCalls /\ process' = "running"
        /\ ThreadType' /\ HistoryType' /\ OneInside' /\ RepliesOwn'
        /\ ~err => Drained
        /\ UNCHANGED <<slaves, rbuf, out, in, up, answered>>
    BY <1>1, <1>2, BeginFacts
  <1>4. r.at = "get" /\ r.got = <<>>
    OBVIOUS
  <1> HIDE DEF r
  <1>5. TypeOK'
    <2>1. ControlType /\ WireType
      BY TypeParts DEF IInv
    <2>2. calls' \in 0 .. MaxCalls
      BY <1>3
    <2>3. ControlType'
      BY <1>1, <1>3, <2>1, <2>2 DEF ControlType, Processes
    <2>4. obuf' \in Seq(Wire)
      BY <1>1, <1>3, <2>1, AppendWaitType DEF WireType
    <2>5. WireType'
      BY <1>3, <2>1, <2>4 DEF WireType
    <2> QED BY <1>3, <2>3, <2>5, TypePartsPrime
  <1>6. Buffers'
    <2>1. (~up => out = <<>>)' /\ Starting'
      BY <1>3 DEF IInv, Buffers, Starting
    <2>2. Healthy'
      BY <1>1 DEF Healthy
    <2>3. Failed'
      <3>1. err => Len(rbuf) < 2
        BY <1>1 DEF IInv, Buffers, Failed, Begin
      <3>2. ~err => Len(rbuf) < 2
        BY <1>3 DEF Drained
      <3> QED BY <1>3, <1>4, <3>1, <3>2 DEF Failed
    <2> QED BY <2>1, <2>2, <2>3 DEF Buffers
  <1> QED BY <1>3, <1>5, <1>6 DEF IInv

-----------------------------------------------------------------------------
(* redisGetReply(): a step that leaves the call inside, without an error.  *)

LEMMA HealthyStep ==
  ASSUME IInv, Running, ~err, NEW t \in Threads, Inside = {t},
         NEW r \in ThreadStates, th' = [th EXCEPT ![t] = r], r.at \in InsidePlaces,
         r.kind = th[t].kind, r.call = th[t].call, Len(r.got) < CmdCount(r.kind),
         Answers(r.got, r.call), obuf' \in Seq(Wire), rbuf' \in Seq(Wire),
         out' \in Seq(Wire), in' \in Seq(Wire), ~up => out' = <<>>,
         UNCHANGED <<slaves, process, err, up, answered, returned, calls>>,
         th'[t] = r => Pipeline(t)'
  PROVE  IInv'
  <1>1. ControlType
    BY TypeParts DEF IInv
  <1>2. r.kind \in Writes \cup {"read"} /\ r.call \in 1 .. MaxCalls
    BY DEF IInv, OneInside
  <1>3. Inside \subseteq {t}
    OBVIOUS
  <1>4. /\ th'[t] = r /\ Inside' = {t}
        /\ ThreadType' /\ HistoryType' /\ OneInside' /\ RepliesOwn'
    BY <1>2, <1>3, GoesOn
  <1>5. ControlType' /\ WireType'
    BY <1>1 DEF ControlType, WireType
  <1>6. Healthy'
    BY <1>4 DEF Healthy
  <1>7. Failed' /\ Starting' /\ (~up => out = <<>>)'
    BY DEF Failed, Starting, Running
  <1> QED BY <1>4, <1>5, <1>6, <1>7, TypePartsPrime DEF IInv, Buffers

(* Going to another place changes nothing else about the thread. *)
LEMMA GotoRecord ==
  ASSUME IInv, NEW t \in Threads, NEW place \in InsidePlaces, Goto(t, place)
  PROVE  \E r \in ThreadStates :
           /\ th' = [th EXCEPT ![t] = r] /\ r.at = place
           /\ r.kind = th[t].kind /\ r.call = th[t].call /\ r.got = th[t].got
  <1> DEFINE r == [th[t] EXCEPT !.at = place]
  <1>1. th[t] \in ThreadStates /\ th \in [Threads -> ThreadStates]
    BY TypeParts DEF IInv, ThreadType
  <1>2. place \in {"idle", "get", "write", "read", "parse", "threw"}
    BY DEF InsidePlaces
  <1>3. r \in ThreadStates /\ r.at = place
        /\ r.kind = th[t].kind /\ r.call = th[t].call /\ r.got = th[t].got
    BY <1>1, <1>2 DEF ThreadStates
  <1>4. th' = [th EXCEPT ![t] = r]
    BY <1>1 DEF Goto
  <1> QED BY <1>3, <1>4

(* The lengths of what is in the pipeline, and the types of its parts. *)
LEMMA Lengths ==
  ASSUME IInv, NEW t \in Threads
  PROVE  /\ Len(obuf) \in Nat /\ Len(rbuf) \in Nat /\ Len(out) \in Nat /\ Len(in) \in Nat
         /\ Len(th[t].got) \in Nat /\ th[t].got \in Seq(Cmds)
         /\ obuf \in Seq(Wire) /\ rbuf \in Seq(Wire) /\ out \in Seq(Wire) /\ in \in Seq(Wire)
  <1>1. obuf \in Seq(Wire) /\ rbuf \in Seq(Wire) /\ out \in Seq(Wire) /\ in \in Seq(Wire)
    BY TypeParts DEF IInv, WireType
  <1>2. th[t].got \in Seq(Cmds)
    BY TypeParts DEF IInv, ThreadType, ThreadStates
  <1> QED BY <1>1, <1>2, LenProperties

(* redisGetReplyFromReader() finds no whole reply. *)
LEMMA NoReplyStep ==
  ASSUME IInv, NEW t \in Threads, FromReader(t), ~Whole(rbuf)
  PROVE  IInv'
  <1> DEFINE place == IF th[t].at = "get" THEN "write" ELSE "read"
  <1>1. /\ Running /\ th[t].at \in {"get", "parse"} /\ Goto(t, place)
        /\ UNCHANGED <<slaves, process, obuf, err, rbuf, out, in, up, answered, returned, calls>>
    BY DEF FromReader, At, network
  <1>2. th[t].at \in InsidePlaces /\ place \in InsidePlaces
    BY <1>1 DEF InsidePlaces
  <1>3. /\ Inside = {t} /\ th[t] \in ThreadStates
        /\ th[t].kind \in Writes \cup {"read"} /\ th[t].call \in 1 .. MaxCalls
        /\ Len(th[t].got) < CmdCount(th[t].kind) /\ Answers(th[t].got, th[t].call)
        /\ ~err => Pipeline(t)
        /\ err => Len(rbuf) < 2 /\ th[t].at \in {"get", "write"} /\ th[t].got = <<>>
    BY <1>1, <1>2, AloneInside
  <1>4. PICK r \in ThreadStates :
          /\ th' = [th EXCEPT ![t] = r] /\ r.at = place
          /\ r.kind = th[t].kind /\ r.call = th[t].call /\ r.got = th[t].got
    BY <1>1, <1>2, GotoRecord
  <1>5. Len(rbuf) \in Nat /\ Len(rbuf) < 2
    BY Lengths DEF Whole
  <1>6. WireType
    BY TypeParts DEF IInv
  <1>7. CASE ~err
    <2>1. th'[t] = r => Pipeline(t)'
      <3> SUFFICES ASSUME th'[t] = r PROVE Pipeline(t)'
        OBVIOUS
      <3>1. Pipeline(t)
        BY <1>3, <1>7
      <3>2. ReplySide(t)' /\ CommandSide(t)'
        BY <1>1, <1>4, <3>1 DEF Pipeline, ReplySide, CommandSide, Replies, All, CmdCount
      <3>3. Progress(t)'
        BY <1>1, <1>4, <1>5, <3>1 DEF Pipeline, Progress
      <3> QED BY <3>2, <3>3 DEF Pipeline
    <2>2. obuf' \in Seq(Wire) /\ rbuf' \in Seq(Wire) /\ out' \in Seq(Wire) /\ in' \in Seq(Wire)
      BY <1>1, <1>6 DEF WireType
    <2>3. ~up => out' = <<>>
      BY <1>1 DEF IInv, Buffers
    <2>4. UNCHANGED <<slaves, process, err, up, answered, returned, calls>>
      BY <1>1
    <2>5. r.at \in InsidePlaces /\ Len(r.got) < CmdCount(r.kind) /\ Answers(r.got, r.call)
      BY <1>2, <1>3, <1>4
    <2> HIDE DEF place
    <2> QED BY <1>1, <1>3, <1>4, <1>7, <2>1, <2>2, <2>3, <2>4, <2>5, HealthyStep
  <1>8. CASE err
    <2>1. th[t].at = "get"
      BY <1>1, <1>3, <1>8
    <2>2. Inside \subseteq {t} /\ UNCHANGED <<slaves, answered, returned>>
      BY <1>1, <1>3
    <2>3. r.at \in InsidePlaces /\ r.kind \in Writes \cup {"read"} /\ r.call \in 1 .. MaxCalls
          /\ Len(r.got) < CmdCount(r.kind) /\ Answers(r.got, r.call)
      BY <1>2, <1>3, <1>4
    <2>4. /\ th'[t] = r /\ Inside' = {t}
          /\ ThreadType' /\ HistoryType' /\ OneInside' /\ RepliesOwn'
      BY <1>4, <2>2, <2>3, GoesOn
    <2>5. ControlType' /\ WireType'
      BY <1>1, TypeParts DEF IInv, ControlType, WireType
    <2>6. Failed'
      BY <1>1, <1>3, <1>4, <1>5, <1>8, <2>1, <2>4 DEF Failed
    <2>7. Healthy' /\ Starting' /\ (~up => out = <<>>)'
      BY <1>1, <1>8 DEF Healthy, Starting, IInv, Buffers, Running
    <2> QED BY <2>4, <2>5, <2>6, <2>7, TypePartsPrime DEF IInv, Buffers
  <1> QED BY <1>7, <1>8

(* redisBufferWrite(). *)
LEMMA WriteStep ==
  ASSUME IInv, NEW t \in Threads, NEW n \in 0 .. Len(obuf), Write(t, n)
  PROVE  IInv'
  <1> DEFINE place == IF obuf' = <<>> THEN "read" ELSE "write"
             front == SubSeq(obuf, 1, n)
  <1>1. /\ Running /\ th[t].at = "write" /\ ~err /\ Goto(t, place)
        /\ out' = (IF up THEN out \o front ELSE out)
        /\ obuf' = SubSeq(obuf, n + 1, Len(obuf))
        /\ UNCHANGED <<slaves, process, err, rbuf, in, up, answered, returned, calls>>
    BY DEF Write, At
  <1>2. th[t].at \in InsidePlaces /\ place \in InsidePlaces
    BY <1>1 DEF InsidePlaces
  <1>3. /\ Inside = {t} /\ Len(th[t].got) < CmdCount(th[t].kind) /\ Answers(th[t].got, th[t].call)
        /\ Pipeline(t)
    BY <1>1, <1>2, AloneInside
  <1>4. PICK r \in ThreadStates :
          /\ th' = [th EXCEPT ![t] = r] /\ r.at = place
          /\ r.kind = th[t].kind /\ r.call = th[t].call /\ r.got = th[t].got
    BY <1>1, <1>2, GotoRecord
  <1>5. /\ Len(obuf) \in Nat /\ Len(rbuf) \in Nat /\ Len(out) \in Nat /\ Len(in) \in Nat
        /\ Len(th[t].got) \in Nat /\ n \in Nat
        /\ obuf \in Seq(Wire) /\ rbuf \in Seq(Wire) /\ out \in Seq(Wire) /\ in \in Seq(Wire)
    BY Lengths
  <1>6. /\ front \in Seq(Wire) /\ Len(front) = n
        /\ obuf' \in Seq(Wire) /\ Len(obuf') = Len(obuf) - n
    BY <1>1, <1>5, Cut
  <1>7. /\ out \o front \in Seq(Wire) /\ Len(out \o front) = Len(out) + n
    BY <1>5, <1>6, ConcatProperties
  <1>8. out' \in Seq(Wire)
    BY <1>1, <1>5, <1>7
  <1>9. ASSUME th'[t] = r PROVE Pipeline(t)'
    <2>1. Replies(t)' = Replies(t) /\ All(t)' = All(t) /\ Replies(t) \in Nat
      <3>1. Replies(t)' = Replies(t)
        BY <1>1, <1>4, <1>9 DEF Replies
      <3>2. All(t)' = All(t)
        BY <1>1, <1>4, <1>9 DEF All, CmdCount
      <3>3. Replies(t) \in Nat
        BY <1>5 DEF Replies
      <3> QED BY <3>1, <3>2, <3>3
    <2>2. ReplySide(t)'
      BY <1>1, <1>3, <1>4, <1>9, <2>1 DEF Pipeline, ReplySide
    <2>3. CommandSide(t)'
      <3> DEFINE R == Replies(t)
      <3> SUFFICES ASSUME up
                   PROVE  /\ R \in {0, 2, 4} /\ R + Len(out') + Len(obuf') = All(t)
                          /\ Carries(out', th[t].call, R)
                          /\ Carries(obuf', th[t].call, R + Len(out'))
        BY <1>1, <1>4, <1>9, <2>1 DEF CommandSide
      <3>1. /\ R \in {0, 2, 4} /\ R + Len(out) + Len(obuf) = All(t)
            /\ Carries(out, th[t].call, R) /\ Carries(obuf, th[t].call, R + Len(out))
        BY <1>3 DEF Pipeline, CommandSide
      <3>2. R \in Nat /\ All(t) \in Nat
        BY <2>1, <3>1, CmdCountType DEF All
      <3> HIDE DEF R
      <3>3. out' = out \o front
        BY <1>1
      <3> HIDE DEF front
      <3>4. R + Len(out) \in Nat
        BY <1>5, <3>2
      <3>5. Carries(front, th[t].call, R + Len(out))
            /\ Carries(obuf', th[t].call, (R + Len(out)) + n)
        BY <1>1, <1>5, <3>1, <3>4, CarriesCut DEF front
      <3>6. Carries(out', th[t].call, R)
        BY <1>5, <1>6, <3>1, <3>2, <3>3, <3>5, CarriesConcat
      <3>7. Len(out') = Len(out) + n /\ (R + Len(out)) + n = R + Len(out')
        <4>1. Len(out') = Len(out) + n
          BY <1>7, <3>3
        <4> QED BY <1>5, <3>2, <4>1
      <3>8. R + Len(out') + Len(obuf') = All(t)
        BY <1>5, <1>6, <3>1, <3>2, <3>7
      <3> QED BY <3>1, <3>5, <3>6, <3>7, <3>8
    <2>4. Progress(t)'
      <3>1. th[t].got # <<>> => obuf' = <<>>
        <4>1. th[t].got # <<>> => obuf = <<>>
          BY <1>3 DEF Pipeline, Progress
        <4>2. obuf = <<>> => Len(obuf') = 0
          BY <1>5, <1>6
        <4> QED BY <1>6, <4>1, <4>2, EmptySeq
      <3>2. (th[t].got = <<>> => rbuf = <<>>) /\ Len(rbuf) < 2
        BY <1>1, <1>3 DEF Pipeline, Progress
      <3> QED BY <1>1, <1>4, <1>9, <3>1, <3>2 DEF Progress
    <2> QED BY <2>2, <2>3, <2>4 DEF Pipeline
  <1>10. ~up => out' = <<>>
    BY <1>1 DEF IInv, Buffers
  <1>11. rbuf' \in Seq(Wire) /\ in' \in Seq(Wire)
    BY <1>1, <1>5
  <1>12. r.at \in InsidePlaces /\ Len(r.got) < CmdCount(r.kind) /\ Answers(r.got, r.call)
    BY <1>2, <1>3, <1>4
  <1>13. UNCHANGED <<slaves, process, err, up, answered, returned, calls>>
    BY <1>1
  <1> HIDE DEF place
  <1> QED BY <1>1, <1>3, <1>4, <1>6, <1>8, <1>9, <1>10, <1>11, <1>12, <1>13, HealthyStep

(* redisBufferRead(). *)
LEMMA BufferReadStep ==
  ASSUME IInv, NEW t \in Threads, NEW n \in 1 .. Len(in), BufferRead(t, n)
  PROVE  IInv'
  <1> DEFINE front == SubSeq(in, 1, n)
  <1>1. /\ Running /\ th[t].at = "read" /\ ~err /\ Goto(t, "parse")
        /\ rbuf' = rbuf \o front /\ in' = SubSeq(in, n + 1, Len(in))
        /\ UNCHANGED <<slaves, process, obuf, err, out, up, answered, returned, calls>>
    BY DEF BufferRead, At
  <1>2. th[t].at \in InsidePlaces /\ "parse" \in InsidePlaces
    BY <1>1 DEF InsidePlaces
  <1>3. /\ Inside = {t} /\ Len(th[t].got) < CmdCount(th[t].kind) /\ Answers(th[t].got, th[t].call)
        /\ Pipeline(t)
    BY <1>1, <1>2, AloneInside
  <1>4. PICK r \in ThreadStates :
          /\ th' = [th EXCEPT ![t] = r] /\ r.at = "parse"
          /\ r.kind = th[t].kind /\ r.call = th[t].call /\ r.got = th[t].got
    BY <1>1, <1>2, GotoRecord
  <1>5. /\ Len(obuf) \in Nat /\ Len(rbuf) \in Nat /\ Len(out) \in Nat /\ Len(in) \in Nat
        /\ Len(th[t].got) \in Nat
        /\ obuf \in Seq(Wire) /\ rbuf \in Seq(Wire) /\ out \in Seq(Wire) /\ in \in Seq(Wire)
    BY Lengths
  <1>6. n \in Nat /\ n \in 0 .. Len(in)
    BY <1>5
  <1>7. /\ front \in Seq(Wire) /\ Len(front) = n
        /\ in' \in Seq(Wire) /\ Len(in') = Len(in) - n
    BY <1>1, <1>5, <1>6, Cut
  <1>8. rbuf \o front \in Seq(Wire) /\ Len(rbuf \o front) = Len(rbuf) + n
    BY <1>5, <1>7, ConcatProperties
  <1>9. rbuf' \in Seq(Wire) /\ Len(rbuf') = Len(rbuf) + n
    BY <1>1, <1>8
  <1>10. ASSUME th'[t] = r PROVE Pipeline(t)'
    <2>1. 2 * Len(th'[t].got) = 2 * Len(th[t].got) /\ th'[t].call = th[t].call
      BY <1>4, <1>10
    <2>2. Replies(t)' = Replies(t)
      <3> DEFINE o == 2 * Len(th[t].got)
      <3>1. Replies(t)' = o + Len(rbuf') + Len(in') /\ Replies(t) = o + Len(rbuf) + Len(in)
        BY <2>1 DEF Replies
      <3>2. o \in Nat
        BY <1>5
      <3> HIDE DEF o
      <3> QED BY <1>5, <1>6, <1>7, <1>9, <3>1, <3>2
    <2>3. All(t)' = All(t)
      BY <1>1, <1>4, <1>10 DEF All, CmdCount
    <2>4. ReplySide(t)'
      <3> DEFINE o == 2 * Len(th[t].got)
      <3>1. /\ Carries(rbuf, th[t].call, o) /\ Carries(in, th[t].call, o + Len(rbuf))
            /\ AllIn(rbuf, answered) /\ AllIn(in, answered) /\ Replies(t) <= All(t)
        BY <1>3 DEF Pipeline, ReplySide
      <3>2. o \in Nat /\ o + Len(rbuf) \in Nat
        BY <1>5
      <3>3. th'[t].call = th[t].call /\ 2 * Len(th'[t].got) = o
        BY <2>1
      <3> HIDE DEF o, front
      <3>4. /\ Carries(front, th[t].call, o + Len(rbuf)) /\ AllIn(front, answered)
            /\ Carries(in', th[t].call, (o + Len(rbuf)) + n) /\ AllIn(in', answered)
        BY <1>1, <1>5, <1>6, <3>1, <3>2, CarriesCut DEF front
      <3>5. Carries(rbuf', th[t].call, o) /\ AllIn(rbuf', answered)
        BY <1>1, <1>5, <1>7, <3>1, <3>2, <3>4, CarriesConcat
      <3>6. (o + Len(rbuf)) + n = o + Len(rbuf')
        BY <1>5, <1>6, <1>9, <3>2
      <3>7. Carries(in', th[t].call, o + Len(rbuf'))
        BY <3>4, <3>6
      <3> QED BY <1>1, <2>2, <2>3, <3>1, <3>3, <3>4, <3>5, <3>7 DEF ReplySide
    <2>5. CommandSide(t)'
      BY <1>1, <1>3, <1>4, <1>10, <2>2, <2>3 DEF Pipeline, CommandSide
    <2>6. Progress(t)'
      BY <1>1, <1>3, <1>4, <1>10 DEF Pipeline, Progress
    <2> QED BY <2>4, <2>5, <2>6 DEF Pipeline
  <1>11. ~up => out' = <<>>
    BY <1>1 DEF IInv, Buffers
  <1>12. obuf' \in Seq(Wire) /\ out' \in Seq(Wire)
    BY <1>1, <1>5
  <1>13. r.at \in InsidePlaces /\ Len(r.got) < CmdCount(r.kind) /\ Answers(r.got, r.call)
    BY <1>2, <1>3, <1>4
  <1>14. UNCHANGED <<slaves, process, err, up, answered, returned, calls>>
    BY <1>1
  <1> QED BY <1>1, <1>3, <1>4, <1>7, <1>9, <1>10, <1>11, <1>12, <1>13, <1>14, HealthyStep

(* The call returns, and leaves nothing behind, or leaves an error. *)
LEMMA ReturnStep ==
  ASSUME IInv, Running, NEW t \in Threads, Inside = {t}, NEW got \in Seq(Cmds), ReturnOK(t, got),
         th[t].kind \in Writes \cup {"read"}, th[t].call \in 1 .. MaxCalls,
         Answers(got, th[t].call), Len(got) <= CmdCount(th[t].kind),
         th[t].kind \in Writes => Len(got) = CmdCount(th[t].kind),
         UNCHANGED <<slaves, process, obuf, out, in, up, answered, calls>>,
         err' \in BOOLEAN, rbuf' \in Seq(Wire),
         (~err' /\ Drained') \/ (err' /\ Len(rbuf') < 2)
  PROVE  IInv'
  <1>1. Inside' = {} /\ ThreadType' /\ HistoryType' /\ OneInside' /\ RepliesOwn'
    BY Returns
  <1>2. ControlType' /\ WireType'
    BY TypeParts DEF IInv, ControlType, WireType
  <1>3. Healthy' /\ Failed' /\ Starting'
    BY <1>1 DEF Healthy, Failed, Starting, Running
  <1>4. (~up => out = <<>>)'
    BY DEF IInv, Buffers
  <1> QED BY <1>1, <1>2, <1>3, <1>4, TypePartsPrime DEF IInv, Buffers

(* redisGetReply() fails, with what is left in the reader not a reply. *)
LEMMA GetReplyFailsStep ==
  ASSUME IInv, Running, NEW t \in Threads, th[t].at \in InsidePlaces, Len(rbuf) < 2,
         err' = TRUE, UNCHANGED <<slaves, obuf, rbuf, network, calls>>,
         GetReplyFails(t) \/ (process' = "killed" /\ UNCHANGED <<th, returned>>)
  PROVE  IInv'
  <1>1. rbuf' \in Seq(Wire) /\ err' \in BOOLEAN /\ th[t].got \in Seq(Cmds)
    BY Lengths
  <1>2. CASE th[t].kind = "read" /\ ReturnOK(t, th[t].got) /\ UNCHANGED process
    <2>1. /\ Inside = {t}
          /\ th[t].kind \in Writes \cup {"read"} /\ th[t].call \in 1 .. MaxCalls
          /\ Len(th[t].got) < CmdCount(th[t].kind) /\ Answers(th[t].got, th[t].call)
      BY AloneInside
    <2>2. Len(th[t].got) <= CmdCount(th[t].kind)
      <3>1. Len(th[t].got) \in Nat /\ CmdCount(th[t].kind) \in {1, 2}
        BY Lengths, CmdCountType
      <3> QED BY <2>1, <3>1
    <2>3. th[t].kind \notin Writes
      BY <1>2 DEF Writes
    <2>4. UNCHANGED <<slaves, process, obuf, out, in, up, answered, calls>>
      BY <1>2 DEF network
    <2>5. err' /\ Len(rbuf') < 2
      OBVIOUS
    <2> QED BY <1>1, <1>2, <2>1, <2>2, <2>3, <2>4, <2>5, ReturnStep
  <1>3. CASE process' \in {"exit2", "undefined", "killed"} /\ UNCHANGED <<th, returned>>
    <2>1. process' \in Processes \ {"starting", "running"}
      BY <1>3 DEF Processes
    <2> QED BY <1>1, <1>3, <2>1, Ends
  <1> QED BY <1>2, <1>3 DEF GetReplyFails

LEMMA WriteFailsStep ==
  ASSUME IInv, NEW t \in Threads, WriteFails(t)
  PROVE  IInv'
  <1>1. Running /\ th[t].at = "write" /\ err' = TRUE /\ (err \/ (~up /\ obuf # <<>>))
        /\ UNCHANGED <<slaves, obuf, rbuf, network, calls>>
        /\ (GetReplyFails(t) \/ (process' = "killed" /\ UNCHANGED <<th, returned>>))
    BY DEF WriteFails, At
  <1>2. th[t].at \in InsidePlaces
    BY <1>1 DEF InsidePlaces
  <1>3. Len(rbuf) < 2
    BY <1>1, <1>2, AloneInside DEF Pipeline, Progress
  <1> QED BY <1>1, <1>2, <1>3, GetReplyFailsStep

LEMMA ReadFailsStep ==
  ASSUME IInv, NEW t \in Threads, ReadFails(t)
  PROVE  IInv'
  <1>1. Running /\ th[t].at = "read" /\ err' = TRUE /\ GetReplyFails(t)
        /\ UNCHANGED <<slaves, obuf, rbuf, network, calls>>
    BY DEF ReadFails, At
  <1>2. th[t].at \in InsidePlaces
    BY <1>1 DEF InsidePlaces
  <1>3. Len(rbuf) < 2
    BY <1>1, <1>2, AloneInside DEF Pipeline, Progress
  <1> QED BY <1>1, <1>2, <1>3, GetReplyFailsStep

(* redisGetReplyFromReader() returns a reply. *)
LEMMA DeliverStep ==
  ASSUME IInv, NEW t \in Threads, FromReader(t), Whole(rbuf)
  PROVE  IInv'
  <1> DEFINE reply == rbuf[2]
             got == Append(th[t].got, reply.cmd)
             o == 2 * Len(th[t].got)
             n == th[t].call
  <1>1. /\ Running /\ th[t].at \in {"get", "parse"} /\ Deliver(t, reply)
        /\ rbuf' = SubSeq(rbuf, 3, Len(rbuf))
        /\ UNCHANGED <<slaves, obuf, err, out, in, up, answered, calls>>
    BY DEF FromReader, At, network
  <1>2. th[t].at \in InsidePlaces
    BY <1>1 DEF InsidePlaces
  <1>3. /\ Len(obuf) \in Nat /\ Len(rbuf) \in Nat /\ Len(out) \in Nat /\ Len(in) \in Nat
        /\ Len(th[t].got) \in Nat /\ th[t].got \in Seq(Cmds)
        /\ obuf \in Seq(Wire) /\ rbuf \in Seq(Wire) /\ out \in Seq(Wire) /\ in \in Seq(Wire)
    BY Lengths
  <1>4. 2 \in 0 .. Len(rbuf) /\ 2 \in 1 .. Len(rbuf) /\ ~(Len(rbuf) < 2)
    BY <1>3 DEF Whole
  <1>5. /\ Inside = {t} /\ th[t] \in ThreadStates
        /\ th[t].kind \in Writes \cup {"read"} /\ n \in 1 .. MaxCalls
        /\ Len(th[t].got) < CmdCount(th[t].kind) /\ Answers(th[t].got, n)
        /\ ~err /\ Pipeline(t)
    BY <1>1, <1>2, <1>4, AloneInside
  <1>6. rbuf' \in Seq(Wire) /\ Len(rbuf') = Len(rbuf) - 2
    <2>1. rbuf' = SubSeq(rbuf, 2 + 1, Len(rbuf))
      BY <1>1
    <2>2. /\ SubSeq(rbuf, 2 + 1, Len(rbuf)) \in Seq(Wire)
          /\ Len(SubSeq(rbuf, 2 + 1, Len(rbuf))) = Len(rbuf) - 2
      BY <1>3, <1>4, Cut, Zenon
    <2> QED BY <2>1, <2>2, Zenon
  <1>7. o \in Nat /\ CmdCount(th[t].kind) \in {1, 2} /\ (o = 0 \/ o = 2)
    <2>1. CmdCount(th[t].kind) \in {1, 2}
      BY CmdCountType
    <2>2. Len(th[t].got) \in Nat /\ Len(th[t].got) < CmdCount(th[t].kind)
      BY <1>3, <1>5
    <2> QED BY <2>1, <2>2, ShortCall
  <1>8. /\ Carries(rbuf, n, o) /\ Carries(in, n, o + Len(rbuf))
        /\ AllIn(rbuf, answered) /\ AllIn(in, answered)
        /\ o + Len(rbuf) + Len(in) <= All(t)
    BY <1>5 DEF Pipeline, ReplySide, Replies
  <1>9. reply.cmd = CmdAt(n, o + 2) /\ reply.cmd \in answered
    BY <1>4, <1>8 DEF Carries, AllIn
  <1>10. reply.cmd \in Cmds
    BY <1>9, TypeParts DEF IInv, HistoryType
  <1>11. /\ got \in Seq(Cmds) /\ Len(got) = Len(th[t].got) + 1
         /\ \A i \in 1 .. Len(th[t].got) : got[i] = th[t].got[i]
         /\ got[Len(th[t].got) + 1] = reply.cmd
    BY <1>3, <1>10, AppendProperties
  <1>12. Answers(got, n)
    <2> DEFINE k == Len(th[t].got) + 1
    <2>1. CmdAt(n, o + 2) = Cmd(n, k = 2)
      <3>1. (o + 2 > 2) <=> (k = 2)
        BY <1>3, <1>7
      <3>2. (o + 2 > 2) = (k = 2)
        BY <3>1
      <3> QED BY <3>2, Zenon DEF CmdAt
    <2> HIDE DEF got, reply, o
    <2>2. \A i \in 1 .. Len(got) : i = k \/ i \in 1 .. Len(th[t].got)
      BY <1>3, <1>11
    <2> HIDE DEF k
    <2>3. got[k] = Cmd(n, k = 2) /\ got[k] \in answered
      BY <1>9, <1>11, <2>1 DEF k
    <2>4. \A i \in 1 .. Len(th[t].got) : got[i] = Cmd(n, i = 2) /\ got[i] \in answered
      BY <1>5, <1>11 DEF Answers
    <2> QED BY <2>2, <2>3, <2>4 DEF Answers
  <1>13. RepliesDue(t) = CmdCount(th[t].kind)
    BY DEF RepliesDue, Commands, CmdCount
  <1>14. obuf = <<>>
    <2>1. rbuf # <<>>
      BY <1>4
    <2> QED BY <1>1, <1>5, <2>1 DEF Pipeline, Progress
  <1>15. All(t) = 2 * CmdCount(th[t].kind)
    BY DEF All
  <1> HIDE DEF reply, got, o
  (* Read() finds a reply that is not an array. *)
  <1>16. CASE process' = "aborted" /\ UNCHANGED <<th, returned>>
    <2>1. process' \in Processes \ {"starting", "running"}
      BY <1>16 DEF Processes
    <2>2. err' \in BOOLEAN /\ UNCHANGED <<slaves, th, obuf, network, returned, calls>>
      BY <1>1, <1>16, TypeParts DEF IInv, ControlType, network
    <2> QED BY <1>6, <2>1, <2>2, Ends
  (* A WAIT remains to be answered. *)
  <1>17. CASE /\ Len(got) < RepliesDue(t) /\ UNCHANGED <<process, returned>>
              /\ th' = [th EXCEPT ![t].at = "get", ![t].got = got]
    <2> DEFINE r == [th[t] EXCEPT !.at = "get", !.got = got]
    <2>1. r \in ThreadStates /\ r.at = "get" /\ r.kind = th[t].kind /\ r.call = n /\ r.got = got
      BY <1>5, <1>11 DEF ThreadStates
    <2>2. th' = [th EXCEPT ![t] = r]
      BY <1>17
    <2> HIDE DEF r
    <2>3. ASSUME th'[t] = r PROVE Pipeline(t)'
      <3>1. Len(th'[t].got) = Len(th[t].got) + 1 /\ th'[t].call = n
        BY <1>11, <2>1, <2>3
      <3>2. 2 * Len(th'[t].got) = o + 2
        BY <1>3, <3>1 DEF o
      <3>3. Replies(t) = o + Len(rbuf) + Len(in)
        BY DEF Replies, o
      <3>4. Replies(t)' = (o + 2) + (Len(rbuf) - 2) + Len(in)
        BY <1>1, <1>6, <3>2 DEF Replies
      <3>5. Replies(t)' = Replies(t)
        BY <1>3, <1>7, <3>3, <3>4
      <3>6. All(t)' = All(t)
        BY <1>1, <2>1, <2>3 DEF All, CmdCount
      <3>7. ReplySide(t)'
        <4>1. rbuf' = SubSeq(rbuf, 2 + 1, Len(rbuf))
          BY <1>1
        <4>2. Carries(rbuf', n, o + 2) /\ AllIn(rbuf', answered)
          BY <1>3, <1>4, <1>7, <1>8, <4>1, CarriesCut
        <4>3. (o + 2) + Len(rbuf') = o + Len(rbuf)
          BY <1>3, <1>6, <1>7
        <4>4. Carries(in', n, (o + 2) + Len(rbuf')) /\ AllIn(in', answered)
          BY <1>1, <1>8, <4>3
        <4> HIDE DEF n
        <4> QED BY <1>1, <1>8, <3>1, <3>2, <3>3, <3>5, <3>6, <4>2, <4>4 DEF ReplySide
      <3>8. CommandSide(t)'
        BY <1>1, <1>5, <2>1, <2>3, <3>5, <3>6 DEF Pipeline, CommandSide
      <3>9. Progress(t)'
        <4>1. th'[t].got # <<>>
          BY <1>3, <3>1
        <4> QED BY <1>1, <1>14, <2>1, <2>3, <4>1 DEF Progress
      <3> QED BY <3>7, <3>8, <3>9 DEF Pipeline
    <2>4. Len(r.got) < CmdCount(r.kind) /\ Answers(r.got, r.call) /\ r.at \in InsidePlaces
      BY <1>12, <1>13, <1>17, <2>1 DEF InsidePlaces
    <2>5. obuf' \in Seq(Wire) /\ out' \in Seq(Wire) /\ in' \in Seq(Wire)
      BY <1>1, <1>3
    <2>6. ~up => out' = <<>>
      BY <1>1 DEF IInv, Buffers
    <2>7. UNCHANGED <<slaves, process, err, up, answered, returned, calls>>
      BY <1>1, <1>17
    <2> QED BY <1>1, <1>5, <1>6, <2>1, <2>2, <2>3, <2>4, <2>5, <2>6, <2>7, HealthyStep
  (* It was the last one. *)
  <1>18. CASE ~(Len(got) < RepliesDue(t)) /\ ReturnOK(t, got) /\ UNCHANGED process
    <2>1. Len(got) = CmdCount(th[t].kind)
      BY <1>3, <1>5, <1>7, <1>11, <1>13, <1>18
    <2>2. Len(rbuf) = 2 /\ Len(in) = 0
      <3>1. Len(th[t].got) + 1 = CmdCount(th[t].kind)
        BY <1>11, <2>1
      <3>2. 2 * Len(th[t].got) + Len(rbuf) + Len(in) <= 2 * CmdCount(th[t].kind)
        BY <1>8, <1>15 DEF o
      <3>3. 2 <= Len(rbuf)
        BY <1>3, <1>4
      <3> QED BY <1>3, <1>7, <3>1, <3>2, <3>3, LastReply
    <2>3. out = <<>>
      <3>1. up => Replies(t) + Len(out) + Len(obuf) = All(t)
        BY <1>5 DEF Pipeline, CommandSide
      <3>2. Replies(t) = All(t)
        <4>1. o + 2 = 2 * CmdCount(th[t].kind)
          <5>1. Len(th[t].got) + 1 = CmdCount(th[t].kind) /\ o = 2 * Len(th[t].got)
            BY <1>11, <2>1 DEF o
          <5> QED BY <1>3, <1>7, <5>1
        <4>2. Replies(t) = o + Len(rbuf) + Len(in)
          BY DEF Replies, o
        <4> QED BY <1>7, <1>15, <2>2, <4>1, <4>2
      <3>3. up => Len(out) = 0
        BY <1>3, <1>7, <1>14, <1>15, <3>1, <3>2
      <3>4. ~up => out = <<>>
        BY DEF IInv, Buffers
      <3> QED BY <1>3, <3>3, <3>4, EmptySeq
    <2>4. Drained'
      <3>1. Len(rbuf') = 0
        BY <1>6, <2>2
      <3>2. rbuf' = <<>> /\ in = <<>>
        BY <1>3, <1>6, <2>2, <3>1, EmptySeq
      <3> QED BY <1>1, <1>14, <2>3, <3>2 DEF Drained
    <2>5. UNCHANGED <<slaves, process, obuf, out, in, up, answered, calls>>
      BY <1>1, <1>18
    <2>6. err' \in BOOLEAN /\ ~err'
      BY <1>1, <1>5, TypeParts DEF IInv, ControlType
    <2>7. Len(got) <= CmdCount(th[t].kind)
      BY <1>7, <2>1
    <2> QED BY <1>1, <1>5, <1>6, <1>11, <1>12, <1>18, <2>1, <2>4, <2>5, <2>6, <2>7, ReturnStep
  <1>19. \/ process' = "aborted" /\ UNCHANGED <<th, returned>>
         \/ /\ Len(got) < RepliesDue(t) /\ UNCHANGED <<process, returned>>
            /\ th' = [th EXCEPT ![t].at = "get", ![t].got = got]
         \/ ~(Len(got) < RepliesDue(t)) /\ ReturnOK(t, got) /\ UNCHANGED process
    BY <1>1 DEF Deliver, got
  <1> QED BY <1>16, <1>17, <1>18, <1>19

LEMMA AnswerStep ==
  ASSUME IInv, Answer
  PROVE  IInv'
  <1> DEFINE c == out[2].cmd
  <1>1. PICK type \in {out[2].type, "error"} : in' = in \o Bytes(c, type)
    BY DEF Answer
  <1>2. /\ up /\ Whole(out) /\ out' = SubSeq(out, 2 + 1, Len(out)) /\ answered' = answered \cup {c}
        /\ UNCHANGED <<slaves, process, th, obuf, err, rbuf, up, returned, calls>>
    BY DEF Answer, context
  <1>3. ControlType /\ ThreadType /\ WireType /\ HistoryType
    BY TypeParts DEF IInv
  <1>4. obuf \in Seq(Wire) /\ rbuf \in Seq(Wire) /\ out \in Seq(Wire) /\ in \in Seq(Wire)
    BY <1>3 DEF WireType
  <1>5. Len(obuf) \in Nat /\ Len(rbuf) \in Nat /\ Len(out) \in Nat /\ Len(in) \in Nat
    BY <1>4, LenProperties
  <1>6. 1 \in 1 .. Len(out) /\ 2 \in 1 .. Len(out) /\ 2 \in 0 .. Len(out) /\ Len(out) >= 2
    BY <1>2, <1>5 DEF Whole
  <1>7. out[2] \in Wire
    BY <1>4, <1>6, ElementOfSeq
  <1>8. c \in Cmds /\ type \in {"array", "status", "integer", "error"}
    BY <1>7 DEF Wire
  <1> DEFINE b == Bytes(c, type)
  <1>9. b \in Seq(Wire) /\ Len(b) = 2 /\ b[1].cmd = c /\ b[2].cmd = c
    <2>1. b = <<[cmd |-> c, type |-> type, half |-> 1], [cmd |-> c, type |-> type, half |-> 2]>>
      BY DEF Bytes
    <2>2. [cmd |-> c, type |-> type, half |-> 1] \in Wire
          /\ [cmd |-> c, type |-> type, half |-> 2] \in Wire
      BY <1>8 DEF Wire
    <2> HIDE DEF c
    <2> QED BY <2>1, <2>2
  <1>10. in' = in \o b
    BY <1>1
  <1> HIDE DEF b, c
  <1>11. /\ out' \in Seq(Wire) /\ Len(out') = Len(out) - 2
         /\ in' \in Seq(Wire) /\ Len(in') = Len(in) + 2
    <2>1. out' \in Seq(Wire) /\ Len(out') = Len(out) - 2
      <3>1. out \in Seq(Wire) /\ 2 \in 0 .. Len(out)
        BY <1>4, <1>6
      <3>2. /\ SubSeq(out, 2 + 1, Len(out)) \in Seq(Wire)
            /\ Len(SubSeq(out, 2 + 1, Len(out))) = Len(out) - 2
        BY <3>1, Cut, Zenon
      <3> QED BY <1>2, <3>2, Zenon
    <2>2. in \o b \in Seq(Wire) /\ Len(in \o b) = Len(in) + Len(b)
      BY <1>4, <1>9, ConcatProperties
    <2> QED BY <1>9, <1>10, <2>1, <2>2
  <1>12. TypeOK'
    <2>1. ControlType' /\ ThreadType'
      BY <1>2, <1>3 DEF ControlType, ThreadType
    <2>2. WireType'
      BY <1>2, <1>4, <1>11 DEF WireType
    <2>3. HistoryType'
      BY <1>2, <1>3, <1>8 DEF HistoryType
    <2> QED BY <2>1, <2>2, <2>3, TypePartsPrime
  <1>13. Inside' = Inside
    BY <1>2 DEF Inside
  <1>14. OneInside'
    BY <1>2, <1>13 DEF IInv, OneInside, CmdCount
  <1>15. RepliesOwn'
    <2>1. answered \subseteq answered'
      BY <1>2
    <2>2. (\A t \in Inside : Answers(th[t].got, th[t].call))'
      BY <1>2, <1>13, <2>1 DEF IInv, RepliesOwn, Answers
    <2>3. (\A r \in returned : Answers(r.got, r.call))'
      BY <1>2, <2>1 DEF IInv, RepliesOwn, Answers
    <2>4. (\A r \in returned : /\ Len(r.got) <= CmdCount(r.kind)
                               /\ r.kind \in Writes => Len(r.got) = CmdCount(r.kind))'
      BY <1>2 DEF IInv, RepliesOwn, CmdCount
    <2> QED BY <2>2, <2>3, <2>4 DEF RepliesOwn
  <1>16. ASSUME NEW t \in Inside, Pipeline(t) PROVE Pipeline(t)'
    <2> DEFINE R == Replies(t)
               n == th[t].call
               o == 2 * Len(th[t].got)
    <2>1. t \in Threads /\ Len(th[t].got) \in Nat
      BY Lengths DEF Inside
    <2>2. o \in Nat /\ R = o + Len(rbuf) + Len(in)
      BY <2>1 DEF Replies
    <2>3. All(t) \in {2, 4} /\ All(t)' = All(t)
      BY <1>2, CmdCountType DEF All, CmdCount
    <2>4. /\ R \in {0, 2, 4} /\ R + Len(out) + Len(obuf) = All(t)
          /\ Carries(out, n, R) /\ Carries(obuf, n, R + Len(out))
      BY <1>2, <1>16 DEF Pipeline, CommandSide
    <2>5. /\ Carries(rbuf, n, o) /\ Carries(in, n, o + Len(rbuf))
          /\ AllIn(rbuf, answered) /\ AllIn(in, answered)
      BY <1>16 DEF Pipeline, ReplySide
    <2>6. th'[t] = th[t] /\ rbuf' = rbuf /\ obuf' = obuf
      BY <1>2
    <2>7. Replies(t)' = o + Len(rbuf) + (Len(in) + 2)
      BY <1>11, <2>6 DEF Replies
    <2> HIDE DEF o, R
    <2>8. R \in {0, 2} /\ Replies(t)' = R + 2
      BY <1>5, <1>6, <2>2, <2>3, <2>4, <2>7
    (* Both bytes at the front of out are of the command that is answered. *)
    <2>9. Carries(b, n, R)
      <3>1. c = CmdAt(n, R + 2)
        BY <1>6, <2>4 DEF Carries, c
      <3>2. CmdAt(n, R + 1) = CmdAt(n, R + 2)
        <4>1. (R + 1 > 2) <=> (R + 2 > 2)
          BY <2>8
        <4>2. (R + 1 > 2) = (R + 2 > 2)
          BY <4>1
        <4> QED BY <4>2, Zenon DEF CmdAt
      <3>3. \A i \in 1 .. Len(b) : i = 1 \/ i = 2
        BY <1>9
      <3> QED BY <1>9, <3>1, <3>2, <3>3 DEF Carries
    <2>10. AllIn(b, answered')
      <3>1. \A i \in 1 .. Len(b) : i = 1 \/ i = 2
        BY <1>9
      <3> QED BY <1>2, <1>9, <3>1 DEF AllIn
    <2>11. ReplySide(t)'
      <3>1. (o + Len(rbuf)) + Len(in) = R /\ o + Len(rbuf) \in Nat
        BY <1>5, <2>2
      <3>2. Carries(b, n, (o + Len(rbuf)) + Len(in))
        BY <2>9, <3>1
      <3>3. AllIn(in, answered') /\ AllIn(rbuf, answered')
        BY <1>2, <2>5 DEF AllIn
      <3>4. Carries(in', n, o + Len(rbuf))
        BY <1>4, <1>9, <1>10, <2>5, <3>1, <3>2, CarriesConcat, Zenon
      <3>5. AllIn(in', answered')
        BY <1>4, <1>9, <1>10, <2>10, <3>1, <3>3, CarriesConcat, Zenon
      <3>6. Replies(t)' <= All(t)'
        BY <1>5, <1>6, <2>3, <2>4, <2>8
      <3>7. 2 * Len(th'[t].got) = o
        BY <2>6 DEF o
      <3> QED BY <2>5, <2>6, <3>3, <3>4, <3>5, <3>6, <3>7 DEF ReplySide
    <2>12. CommandSide(t)'
      <3>1. Carries(out', n, R + 2)
        BY <1>2, <1>4, <1>6, <2>4, <2>8, CarriesCut
      <3>2. (R + 2) + Len(out') = R + Len(out)
        BY <1>5, <1>11, <2>8
      <3>3. Carries(obuf, n, (R + 2) + Len(out'))
        BY <2>4, <3>2
      <3>4. (R + 2) + Len(out') + Len(obuf) = All(t)' /\ R + 2 \in {0, 2, 4}
        BY <1>5, <1>11, <2>3, <2>4, <2>8
      <3> QED BY <2>6, <2>8, <3>1, <3>3, <3>4 DEF CommandSide
    <2>13. Progress(t)'
      BY <1>16, <2>6 DEF Pipeline, Progress
    <2> QED BY <2>11, <2>12, <2>13 DEF Pipeline
  <1>17. Buffers'
    <2>1. (~up => out = <<>>)' /\ Starting' /\ Failed'
      BY <1>2, <1>13 DEF IInv, Buffers, Starting, Failed, Running
    <2>2. Healthy'
      <3>1. out # <<>>
        BY <1>6
      <3> QED BY <1>2, <1>13, <1>16, <3>1 DEF IInv, Buffers, Healthy, Drained
    <2> QED BY <2>1, <2>2 DEF Buffers
  <1> QED BY <1>12, <1>14, <1>15, <1>17 DEF IInv

LEMMA ServerClosesStep ==
  ASSUME IInv, ServerCloses
  PROVE  IInv'
  <1>1. /\ up' = FALSE /\ out' = <<>>
        /\ UNCHANGED <<slaves, process, th, obuf, err, rbuf, answered, returned, calls>>
    BY DEF ServerCloses, context
  <1>2. PICK n \in 0 .. Len(in) : in' = SubSeq(in, 1, n)
    BY DEF ServerCloses
  <1>3. ControlType /\ ThreadType /\ WireType /\ HistoryType
    BY TypeParts DEF IInv
  <1>4. in \in Seq(Wire) /\ rbuf \in Seq(Wire) /\ Len(in) \in Nat /\ Len(rbuf) \in Nat /\ n \in Nat
    BY <1>3, LenProperties DEF WireType
  <1>5. in' \in Seq(Wire) /\ Len(in') = n /\ n <= Len(in)
    BY <1>2, <1>4, Cut
  <1>6. TypeOK'
    <2>1. ControlType' /\ ThreadType' /\ HistoryType'
      BY <1>1, <1>3 DEF ControlType, ThreadType, HistoryType
    <2>2. <<>> \in Seq(Wire)
      OBVIOUS
    <2>3. WireType'
      BY <1>1, <1>3, <1>5, <2>2 DEF WireType
    <2> QED BY <2>1, <2>3, TypePartsPrime
  <1>7. Inside' = Inside
    BY <1>1 DEF Inside
  <1>8. OneInside' /\ RepliesOwn'
    <2>1. OneInside'
      BY <1>1, <1>7 DEF IInv, OneInside, CmdCount
    <2>2. RepliesOwn'
      BY <1>1, <1>7 DEF IInv, RepliesOwn, Answers, CmdCount
    <2> QED BY <2>1, <2>2
  <1>9. ASSUME NEW t \in Inside, Pipeline(t) PROVE Pipeline(t)'
    <2> DEFINE o == 2 * Len(th[t].got)
    <2>1. t \in Threads /\ Len(th[t].got) \in Nat
      BY Lengths DEF Inside
    <2>2. o \in Nat /\ o + Len(rbuf) \in Nat
      BY <1>4, <2>1
    <2>3. th'[t] = th[t] /\ rbuf' = rbuf /\ obuf' = obuf /\ answered' = answered
      BY <1>1
    <2>4. /\ Carries(rbuf, th[t].call, o) /\ Carries(in, th[t].call, o + Len(rbuf))
          /\ AllIn(rbuf, answered) /\ AllIn(in, answered) /\ o + Len(rbuf) + Len(in) <= All(t)
      BY <1>9 DEF Pipeline, ReplySide, Replies
    <2>5. All(t) \in {2, 4} /\ All(t)' = All(t)
      BY <1>1, CmdCountType DEF All, CmdCount
    <2>6. Replies(t)' = o + Len(rbuf) + n
      BY <1>5, <2>3 DEF Replies
    <2>7. 2 * Len(th'[t].got) = o
      BY <2>3
    <2> HIDE DEF o
    <2>8. Carries(in', th[t].call, o + Len(rbuf)) /\ AllIn(in', answered)
      BY <1>2, <1>4, <2>2, <2>4, CarriesCut
    <2>9. Replies(t)' <= All(t)'
      BY <1>4, <1>5, <2>2, <2>4, <2>5, <2>6
    <2>10. ReplySide(t)'
      BY <2>3, <2>4, <2>7, <2>8, <2>9 DEF ReplySide
    <2>11. CommandSide(t)'
      BY <1>1 DEF CommandSide
    <2>12. Progress(t)'
      BY <1>9, <2>3 DEF Pipeline, Progress
    <2> QED BY <2>10, <2>11, <2>12 DEF Pipeline
  <1>10. Buffers'
    <2>1. (~up => out = <<>>)' /\ Starting' /\ Failed'
      BY <1>1, <1>7 DEF IInv, Buffers, Starting, Failed, Running
    <2>2. Drained => Drained'
      <3>1. in = <<>> => Len(in') = 0
        BY <1>4, <1>5
      <3>2. in = <<>> => in' = <<>>
        BY <1>5, <3>1, EmptySeq
      <3> QED BY <1>1, <3>2 DEF Drained
    <2>3. Healthy'
      BY <1>1, <1>7, <1>9, <2>2 DEF IInv, Buffers, Healthy
    <2> QED BY <2>1, <2>3 DEF Buffers
  <1> QED BY <1>6, <1>8, <1>10 DEF IInv

-----------------------------------------------------------------------------
(* The invariant, and what follows from it. *)

LEMMA InitInvariant == Init => IInv
  <1> SUFFICES ASSUME Init PROVE IInv
    OBVIOUS
  <1>1. \A t \in Threads : th[t] = Idle
    BY DEF Init
  <1>2. Inside = {}
    BY <1>1 DEF Inside, Idle
  <1>3. TypeOK
    <2>1. 0 \in 0 .. MaxCalls
      BY MaxCallsAssumption
    <2>2. <<>> \in Seq(Cmds) /\ <<>> \in Seq(Wire)
      OBVIOUS
    <2>3. Idle \in ThreadStates
      BY <2>1, <2>2 DEF Idle, ThreadStates
    <2>4. ControlType
      BY <2>1 DEF Init, ControlType, Processes
    <2>5. ThreadType /\ WireType /\ HistoryType
      BY <2>2, <2>3 DEF Init, ThreadType, WireType, HistoryType
    <2> QED BY <2>4, <2>5, TypeParts
  <1>4. OneInside /\ RepliesOwn
    BY <1>2 DEF Init, OneInside, RepliesOwn
  <1>5. Buffers
    BY <1>2 DEF Init, Buffers, Healthy, Failed, Starting, Running, Drained
  <1> QED BY <1>3, <1>4, <1>5 DEF IInv

LEMMA StutterStep ==
  ASSUME IInv, UNCHANGED vars
  PROVE  IInv'
  <1>1. UNCHANGED <<slaves, process, th, obuf, err, rbuf, out, in, up, answered, returned, calls>>
    BY DEF vars
  <1>2. Inside' = Inside /\ Drained' = Drained
    BY <1>1 DEF Inside, Drained
  <1>3. TypeOK'
    BY <1>1, TypeParts, TypePartsPrime DEF IInv, ControlType, ThreadType, WireType, HistoryType
  <1>4. OneInside' /\ RepliesOwn'
    BY <1>1, <1>2 DEF IInv, OneInside, RepliesOwn, Answers, CmdCount
  <1>5. \A t \in Inside : Pipeline(t) => Pipeline(t)'
    BY <1>1 DEF Pipeline, ReplySide, CommandSide, Progress, Replies, All, CmdCount
  <1>6. Buffers'
    <2>1. Healthy'
      BY <1>1, <1>2, <1>5 DEF IInv, Buffers, Healthy
    <2>2. (~up => out = <<>>)' /\ Starting' /\ Failed'
      BY <1>1, <1>2 DEF IInv, Buffers, Starting, Failed, Running
    <2> QED BY <2>1, <2>2 DEF Buffers
  <1> QED BY <1>3, <1>4, <1>6 DEF IInv

LEMMA NextInvariant ==
  ASSUME IInv, [Next]_vars
  PROVE  IInv'
  <1>1. CASE Construct
    BY <1>1, ConstructStep
  <1>2. CASE Answer
    BY <1>2, AnswerStep
  <1>3. CASE ServerCloses
    BY <1>3, ServerClosesStep
  <1>4. ASSUME NEW t \in Threads,
               \/ Read(t) \/ (\E kind \in Writes : Command(t, kind))
               \/ CommandRefused(t) \/ CommandUndefined(t) \/ Scan(t) \/ Race(t)
               \/ GetReply(t)
        PROVE  IInv'
    <2>1. CASE Read(t)
      BY <2>1, ReadStep
    <2>2. CASE \E kind \in Writes : Command(t, kind)
      BY <2>2, CommandStep
    <2>3. CASE CommandRefused(t)
      BY <2>3, CommandRefusedStep
    <2>4. CASE CommandUndefined(t) \/ Race(t)
      BY <2>4, EndSteps
    <2>5. CASE Scan(t)
      BY <2>5, ScanStep
    <2>6. CASE GetReply(t)
      <3>1. CASE FromReader(t)
        BY <3>1, DeliverStep, NoReplyStep
      <3>2. CASE WriteFails(t)
        BY <3>2, WriteFailsStep
      <3>3. CASE ReadFails(t)
        BY <3>3, ReadFailsStep
      <3>4. CASE \E n \in 0 .. Len(obuf) : Write(t, n)
        BY <3>4, WriteStep
      <3>5. CASE \E n \in 1 .. Len(in) : BufferRead(t, n)
        BY <3>5, BufferReadStep
      <3> QED BY <2>6, <3>1, <3>2, <3>3, <3>4, <3>5 DEF GetReply
    <2> QED BY <1>4, <2>1, <2>2, <2>3, <2>4, <2>5, <2>6
  <1>5. CASE Destroy
    <2>1. process' \in Processes \ {"starting", "running"}
      BY <1>5 DEF Destroy, Processes
    <2>2. UNCHANGED <<slaves, th, obuf, network, returned, calls>> /\ err' = err /\ rbuf' = rbuf
      BY <1>5 DEF Destroy, context
    <2>3. err' \in BOOLEAN /\ rbuf' \in Seq(Wire)
      BY <2>2, TypeParts DEF IInv, ControlType, WireType
    <2> QED BY <2>1, <2>2, <2>3, Ends
  <1>6. CASE UNCHANGED vars
    BY <1>6, StutterStep
  <1> QED BY <1>1, <1>2, <1>3, <1>4, <1>5, <1>6 DEF Next

LEMMA Invariant == Spec => []IInv
  <1>1. Init => IInv
    BY InitInvariant
  <1>2. IInv /\ [Next]_vars => IInv'
    BY NextInvariant
  <1> QED BY <1>1, <1>2, PTL DEF Spec

(* The variables of the client, of the connection and of the server keep   *)
(* their types: in particular every byte in a buffer or in flight is of a  *)
(* command that some call sent.                                            *)
THEOREM TypeCorrect == Spec => []TypeOK
  <1>1. IInv => TypeOK
    BY DEF IInv
  <1> QED BY <1>1, Invariant, PTL

(* The commands of a call, one by one. *)
LEMMA CommandsOf ==
  ASSUME NEW n, NEW kind
  PROVE  /\ Len(Commands(n, kind)) = CmdCount(kind)
         /\ \A i \in 1 .. CmdCount(kind) : Commands(n, kind)[i] = Cmd(n, i = 2)
  <1>1. CASE kind \in Writes /\ slaves
    <2>1. Commands(n, kind) = <<Cmd(n, FALSE), Cmd(n, TRUE)>> /\ CmdCount(kind) = 2
      BY <1>1 DEF Commands, CmdCount
    <2>2. \A i \in 1 .. 2 : i = 1 \/ i = 2
      OBVIOUS
    <2>3. (1 = 2) = FALSE /\ (2 = 2) = TRUE
      OBVIOUS
    <2>4. Cmd(n, 1 = 2) = Cmd(n, FALSE) /\ Cmd(n, 2 = 2) = Cmd(n, TRUE)
      BY <2>3, Zenon
    <2>5. <<Cmd(n, FALSE), Cmd(n, TRUE)>>[1] = Cmd(n, FALSE)
          /\ <<Cmd(n, FALSE), Cmd(n, TRUE)>>[2] = Cmd(n, TRUE)
          /\ Len(<<Cmd(n, FALSE), Cmd(n, TRUE)>>) = 2
      BY DEF Cmd
    <2>6. \A i \in 1 .. 2 : <<Cmd(n, FALSE), Cmd(n, TRUE)>>[i] = Cmd(n, i = 2)
      BY <2>2, <2>4, <2>5, Zenon
    <2> QED BY <2>1, <2>5, <2>6, Zenon
  <1>2. CASE ~(kind \in Writes /\ slaves)
    <2>1. Commands(n, kind) = <<Cmd(n, FALSE)>> /\ CmdCount(kind) = 1
      BY <1>2 DEF Commands, CmdCount
    <2>2. \A i \in 1 .. 1 : i = 1
      OBVIOUS
    <2>3. (1 = 2) = FALSE
      OBVIOUS
    <2>4. Cmd(n, 1 = 2) = Cmd(n, FALSE)
      BY <2>3, Zenon
    <2>5. <<Cmd(n, FALSE)>>[1] = Cmd(n, FALSE) /\ Len(<<Cmd(n, FALSE)>>) = 1
      BY DEF Cmd
    <2>6. \A i \in 1 .. 1 : <<Cmd(n, FALSE)>>[i] = Cmd(n, i = 2)
      BY <2>2, <2>4, <2>5, Zenon
    <2> QED BY <2>1, <2>5, <2>6, Zenon
  <1> QED BY <1>1, <1>2

LEMMA OwnFromAnswers ==
  ASSUME NEW n \in 1 .. MaxCalls, NEW kind, NEW got \in Seq(Cmds), Answers(got, n),
         Len(got) <= CmdCount(kind)
  PROVE  got = SubSeq(Commands(n, kind), 1, Len(got))
  <1> DEFINE cs == Commands(n, kind)
             front == SubSeq(cs, 1, Len(got))
  <1>1. cs \in Seq(Cmds)
    <2>1. Cmd(n, FALSE) \in Cmds /\ Cmd(n, TRUE) \in Cmds
      BY DEF Cmd, Cmds
    <2>2. \A a \in Cmds, b \in Cmds : <<a, b>> \in Seq(Cmds) /\ <<a>> \in Seq(Cmds)
      OBVIOUS
    <2> QED BY <2>1, <2>2, Zenon DEF Commands
  <1>2. Len(cs) = CmdCount(kind) /\ (\A i \in 1 .. CmdCount(kind) : cs[i] = Cmd(n, i = 2))
    BY CommandsOf
  <1>3. CmdCount(kind) \in {1, 2} /\ Len(got) \in Nat
    BY CmdCountType, LenProperties
  <1> HIDE DEF cs
  <1>4. Len(got) \in 0 .. Len(cs)
    BY <1>2, <1>3
  <1>5. /\ front \in Seq(Cmds) /\ Len(front) = Len(got)
        /\ \A i \in 1 .. Len(got) : front[i] = cs[i]
    BY <1>1, <1>4, Cut
  <1> HIDE DEF front
  <1>6. \A i \in 1 .. Len(got) : got[i] = front[i]
    <2>1. \A i \in 1 .. Len(got) : i \in 1 .. CmdCount(kind)
      BY <1>3
    <2> QED BY <1>2, <1>5, <2>1 DEF Answers
  <1>7. got = front
    BY <1>5, <1>6, SeqEqual
  <1> QED BY <1>7 DEF front, cs

(* For any number of threads and calls: a reply carries no identifier, and *)
(* still every reply that a call has read answers that call's commands, in *)
(* their order, whichever connections, writes and formats failed before.   *)
THEOREM RepliesAreOwn == Spec => []OwnReply
  <1>1. IInv => OwnReply
    <2> SUFFICES ASSUME IInv PROVE OwnReply
      OBVIOUS
    <2>1. ASSUME NEW r \in returned
          PROVE  r.got = SubSeq(Commands(r.call, r.kind), 1, Len(r.got))
      <3>1. r.call \in 1 .. MaxCalls /\ r.got \in Seq(Cmds)
        BY TypeParts DEF IInv, HistoryType
      <3>2. Answers(r.got, r.call) /\ Len(r.got) <= CmdCount(r.kind)
        BY DEF IInv, RepliesOwn
      <3> QED BY <3>1, <3>2, OwnFromAnswers
    <2>2. ASSUME NEW t \in Inside
          PROVE  th[t].got = SubSeq(Commands(th[t].call, th[t].kind), 1, Len(th[t].got))
      <3>1. th[t].call \in 1 .. MaxCalls /\ Len(th[t].got) < CmdCount(th[t].kind)
        BY DEF IInv, OneInside
      <3>2. t \in Threads /\ th[t].got \in Seq(Cmds) /\ Len(th[t].got) \in Nat
        BY Lengths DEF Inside
      <3>3. Len(th[t].got) <= CmdCount(th[t].kind)
        BY <3>1, <3>2, CmdCountType
      <3>4. Answers(th[t].got, th[t].call)
        BY DEF IInv, RepliesOwn
      <3> QED BY <3>1, <3>2, <3>3, <3>4, OwnFromAnswers
    <2> QED BY <2>1, <2>2 DEF OwnReply
  <1> QED BY <1>1, Invariant, PTL

(* An update, insert or delete that returned kOK was carried out and       *)
(* answered by the server, and so was the WAIT that follows it.            *)
THEOREM UpdatesAreAnswered == Spec => []UpdatesAnswered
  <1>1. IInv => UpdatesAnswered
    <2> SUFFICES ASSUME IInv, NEW r \in returned, r.kind \in Writes,
                        NEW i \in 1 .. Len(Commands(r.call, r.kind))
                 PROVE  Commands(r.call, r.kind)[i] \in answered
      BY DEF UpdatesAnswered
    <2>1. /\ Len(Commands(r.call, r.kind)) = CmdCount(r.kind)
          /\ \A j \in 1 .. CmdCount(r.kind) : Commands(r.call, r.kind)[j] = Cmd(r.call, j = 2)
      BY CommandsOf
    <2>2. Answers(r.got, r.call) /\ Len(r.got) = CmdCount(r.kind)
      BY DEF IInv, RepliesOwn
    <2> QED BY <2>1, <2>2 DEF Answers
  <1> QED BY <1>1, Invariant, PTL
=============================================================================
