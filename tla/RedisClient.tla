---------------------------- MODULE RedisClient -----------------------------
(***************************************************************************)
(* YCSB-C's Redis database: RedisDB over RedisClient over one blocking     *)
(* hiredis context that every client thread uses without a lock.  A        *)
(* command is appended to the output buffer; redisGetReply() writes the    *)
(* buffer until it is empty and reads until there is a reply.  Commands    *)
(* and replies are two bytes long, so that each of them can be cut, and    *)
(* carry no identifier that the client looks at.                           *)
(*                                                                         *)
(* Two threads inside the context at once race on its buffers: what        *)
(* happens then is undefined, and the model ends there.  A read or write   *)
(* that is interrupted is repeated (a stuttering step).  The texts of the  *)
(* commands are left out, except for what redisvFormatCommand() makes of   *)
(* them; the reader's own errors are HiredisReader's.                      *)
(***************************************************************************)
EXTENDS Integers, Sequences

CONSTANTS
  Threads,      \* client threads, those of the load phase included
  MaxCalls      \* bound on the calls of the database

ASSUME MaxCallsAssumption == MaxCalls \in Nat

VARIABLES
  slaves,       \* slaves_ is not zero: a WAIT follows every command
  process,      \* "starting", "running", or how it ended
  th,           \* each thread: where it is, its call, the replies it has read
  obuf, err,    \* c->obuf and c->err
  rbuf,         \* the reader's buffer
  out, in,      \* bytes on their way to the server and back
  up,           \* the server has not closed the connection
  answered,     \* history: commands the server carried out and answered
  returned,     \* history: the calls that returned kOK, with their replies
  calls         \* calls so far; a call is known by its number

vars == <<slaves, process, th, obuf, err, rbuf, out, in, up, answered, returned, calls>>
context == <<obuf, err, rbuf>>
network == <<out, in, up, answered>>

Cmd(n, wait) == [call |-> n, wait |-> wait]
Bytes(c, type) == <<[cmd |-> c, type |-> type, half |-> 1], [cmd |-> c, type |-> type, half |-> 2]>>
(* A whole command or reply is at the front. *)
Whole(s) == Len(s) >= 2

Writes == {"update", "delete"}
(* The commands of a call, in order. *)
Commands(n, kind) ==
  IF kind \in Writes /\ slaves THEN <<Cmd(n, FALSE), Cmd(n, TRUE)>> ELSE <<Cmd(n, FALSE)>>

Idle == [at |-> "idle", kind |-> "none", call |-> 0, got |-> <<>>]
Running == process = "running"
Inside == {t \in Threads : th[t].at \in {"get", "write", "read", "parse"}}

Init ==
  /\ slaves \in BOOLEAN /\ process = "starting" /\ th = [t \in Threads |-> Idle]
  /\ obuf = <<>> /\ err = FALSE /\ rbuf = <<>>
  /\ out = <<>> /\ in = <<>> /\ up = TRUE
  /\ answered = {} /\ returned = {} /\ calls = 0

(* RedisClient's constructor, and its destructor between two calls. *)
Construct ==
  /\ process = "starting" /\ process' \in {"running", "exit1"}
  /\ UNCHANGED <<slaves, th, context, network, returned, calls>>
Destroy ==
  /\ Running /\ \A t \in Threads : th[t] = Idle
  /\ process' = "freed"
  /\ UNCHANGED <<slaves, th, context, network, returned, calls>>

-----------------------------------------------------------------------------
(* The calls.  Each appends its commands and goes on to redisGetReply().   *)

Begin(t, kind) ==
  /\ Running /\ th[t] = Idle /\ Inside = {} /\ calls < MaxCalls
  /\ calls' = calls + 1
  /\ th' = [th EXCEPT ![t] = [at |-> "get", kind |-> kind, call |-> calls', got |-> <<>>]]
  /\ UNCHANGED <<slaves, process, rbuf, network, returned>>

(* __redisAppendCommand() and the functions around it: a formatted command *)
(* goes to the end of the output buffer, error or not.                     *)
AppendCommand(buf, cmd, type) == buf \o Bytes(cmd, type)

(* RedisDB::Read: redisCommandArgv() or redisCommand(). *)
Read(t) ==
  /\ Begin(t, "read")
  /\ obuf' = AppendCommand(obuf, Cmd(calls', FALSE), "array") /\ UNCHANGED err

(* redisAppendCommand() of "WAIT %d %d", whether or not there is an error. *)
AppendWait(buf) ==
  IF slaves THEN AppendCommand(buf, Cmd(calls', TRUE), "integer") ELSE buf

(* RedisDB::Update, Insert and Delete: RedisClient::Command(). *)
Command(t, kind) ==
  /\ Begin(t, kind)
  /\ obuf' = AppendWait(AppendCommand(obuf, Cmd(calls', FALSE), "status"))
  /\ UNCHANGED err

(* Mutant: an invalid format is not put in c->err. *)
CommandRefusedSilently(t) ==
  Begin(t, "update") /\ obuf' = AppendWait(obuf) /\ UNCHANGED err
(* The text is the format: with a "%" in a value it may be an invalid one, *)
(* and nothing but the WAIT is appended.  Command() does not look.         *)
CommandRefused(t) ==
  Begin(t, "update") /\ obuf' = AppendWait(obuf) /\ err' = TRUE

(* A conversion in the text takes an argument that was not passed. *)
CommandUndefined(t) ==
  /\ Running /\ th[t] = Idle /\ calls < MaxCalls
  /\ process' = "undefined"
  /\ UNCHANGED <<slaves, th, context, network, returned, calls>>

(* RedisDB::Scan throws; the exception waits in the thread's future. *)
Scan(t) ==
  /\ Running /\ th[t] = Idle
  /\ th' = [th EXCEPT ![t].at = "threw"]
  /\ UNCHANGED <<slaves, process, context, network, returned, calls>>

(* A second thread comes in: a data race. *)
Race(t) ==
  /\ Running /\ th[t] = Idle /\ Inside # {} /\ calls < MaxCalls
  /\ process' = "undefined"
  /\ UNCHANGED <<slaves, th, context, network, returned, calls>>

-----------------------------------------------------------------------------
(* redisGetReply(). *)

At(t, place) == Running /\ th[t].at = place
Goto(t, place) == th' = [th EXCEPT ![t].at = place]

(* The call returns kOK. *)
ReturnOK(t, got) ==
  /\ th' = [th EXCEPT ![t] = Idle]
  /\ returned' = returned \cup {[call |-> th[t].call, kind |-> th[t].kind, got |-> got]}

(* Mutant: a failed write is treated as a failed read is. *)
GetReplyFailsQuietly(t) == ReturnOK(t, th[t].got) /\ UNCHANGED process
(* It returned REDIS_ERR: Read() returns kOK with no result; Command()     *)
(* frees a reply pointer that was never set, and exits.                    *)
GetReplyFails(t) ==
  \/ th[t].kind = "read" /\ ReturnOK(t, th[t].got) /\ UNCHANGED process
  \/ /\ th[t].kind \in Writes /\ process' \in {"exit2", "undefined"}
     /\ UNCHANGED <<th, returned>>

(* Mutant: the reply to WAIT is left unread. *)
RepliesDueOne(t) == 1
(* Replies that a call reads. *)
RepliesDue(t) == Len(Commands(th[t].call, th[t].kind))

(* It returned a reply.  Read() asserts its type; Command() looks at none. *)
Deliver(t, reply) ==
  LET got == Append(th[t].got, reply.cmd)
  IN \/ /\ th[t].kind = "read" /\ reply.type # "array"
        /\ process' = "aborted" /\ UNCHANGED <<th, returned>>
     \/ /\ th[t].kind = "read" => reply.type = "array"
        /\ IF Len(got) < RepliesDue(t)
             THEN th' = [th EXCEPT ![t].at = "get", ![t].got = got] /\ UNCHANGED returned
             ELSE ReturnOK(t, got)
        /\ UNCHANGED process

(* redisGetReplyFromReader(), before the write and after each read. *)
FromReader(t) ==
  /\ At(t, "get") \/ At(t, "parse")
  /\ \/ Whole(rbuf) /\ Deliver(t, rbuf[2]) /\ rbuf' = SubSeq(rbuf, 3, Len(rbuf))
     \/ /\ ~Whole(rbuf) /\ Goto(t, IF th[t].at = "get" THEN "write" ELSE "read")
        /\ UNCHANGED <<process, returned, rbuf>>
  /\ UNCHANGED <<slaves, obuf, err, network, calls>>

(* redisBufferWrite() of n bytes, until the buffer is empty.  Bytes sent   *)
(* to a server that closed the connection go nowhere.                      *)
Write(t, n) ==
  /\ At(t, "write") /\ ~err /\ (n > 0 \/ obuf = <<>>)
  /\ out' = (IF up THEN out \o SubSeq(obuf, 1, n) ELSE out)
  /\ obuf' = SubSeq(obuf, n + 1, Len(obuf))
  /\ Goto(t, IF obuf' = <<>> THEN "read" ELSE "write")
  /\ UNCHANGED <<slaves, process, err, rbuf, in, up, answered, returned, calls>>

(* c->err was set before, or write() fails; SIGPIPE ends the process.      *)
WriteFails(t) ==
  /\ At(t, "write") /\ (err \/ (~up /\ obuf # <<>>))
  /\ err' = TRUE
  /\ \/ GetReplyFails(t)
     \/ ~err /\ process' = "killed" /\ UNCHANGED <<th, returned>>
  /\ UNCHANGED <<slaves, obuf, rbuf, network, calls>>

(* redisBufferRead() of n bytes. *)
BufferRead(t, n) ==
  /\ At(t, "read") /\ ~err
  /\ rbuf' = rbuf \o SubSeq(in, 1, n) /\ in' = SubSeq(in, n + 1, Len(in))
  /\ Goto(t, "parse")
  /\ UNCHANGED <<slaves, process, obuf, err, out, up, answered, returned, calls>>

(* End of file, or the connection was reset. *)
ReadFails(t) ==
  /\ At(t, "read") /\ ~up /\ in = <<>>
  /\ err' = TRUE /\ GetReplyFails(t)
  /\ UNCHANGED <<slaves, obuf, rbuf, network, calls>>

-----------------------------------------------------------------------------
(* The server answers commands in order, with their kind of reply or an    *)
(* error, and may close the connection; replies in flight can be lost.     *)
Answer ==
  /\ up /\ Whole(out)
  /\ \E type \in {out[2].type, "error"} : in' = in \o Bytes(out[2].cmd, type)
  /\ out' = SubSeq(out, 3, Len(out)) /\ answered' = answered \cup {out[2].cmd}
  /\ UNCHANGED <<slaves, process, th, context, up, returned, calls>>

ServerCloses ==
  /\ up /\ up' = FALSE /\ out' = <<>>
  /\ \E n \in 0 .. Len(in) : in' = SubSeq(in, 1, n)
  /\ UNCHANGED <<slaves, process, th, context, answered, returned, calls>>

GetReply(t) ==
  \/ FromReader(t) \/ WriteFails(t) \/ ReadFails(t)
  \/ \E n \in 0 .. Len(obuf) : Write(t, n)
  \/ \E n \in 1 .. Len(in) : BufferRead(t, n)

Next ==
  \/ Construct \/ Destroy
  \/ \E t \in Threads :
       \/ Read(t) \/ \E kind \in Writes : Command(t, kind)
       \/ CommandRefused(t) \/ CommandUndefined(t) \/ Scan(t) \/ Race(t)
       \/ GetReply(t)
  \/ Answer \/ ServerCloses

Spec == Init /\ [][Next]_vars
(* Threads inside a call keep running, and the server answers what it      *)
(* received; nobody need make another call, nor the server go away.        *)
FairSpec == Spec /\ WF_vars(Answer) /\ \A t \in Threads : WF_vars(GetReply(t))

-----------------------------------------------------------------------------
(* The variables have their types: what is in a buffer or in flight is     *)
(* bytes of commands or replies that a call asked for.                     *)
Cmds == [call : 1 .. MaxCalls, wait : BOOLEAN]
Wire == [cmd : Cmds, type : {"array", "status", "integer", "error"}, half : {1, 2}]
TypeOK ==
  /\ slaves \in BOOLEAN /\ err \in BOOLEAN /\ up \in BOOLEAN
  /\ process \in {"starting", "running", "freed", "exit1", "exit2", "aborted", "killed", "undefined"}
  /\ th \in [Threads -> [at : {"idle", "get", "write", "read", "parse", "threw"},
                         kind : Writes \cup {"read", "none"}, call : 0 .. MaxCalls, got : Seq(Cmds)]]
  /\ obuf \in Seq(Wire) /\ rbuf \in Seq(Wire) /\ out \in Seq(Wire) /\ in \in Seq(Wire)
  /\ answered \subseteq Cmds /\ calls \in 0 .. MaxCalls
  /\ returned \subseteq [call : 1 .. MaxCalls, kind : Writes \cup {"read"}, got : Seq(Cmds)]

(* A reply carries no identifier, and still every reply that a call has    *)
(* read, returned or not, answers its own commands in their order: no call *)
(* leaves a reply, or a command, behind for the next one.                  *)
OwnReply ==
  LET Own(got, n, kind) == got = SubSeq(Commands(n, kind), 1, Len(got))
  IN /\ \A r \in returned : Own(r.got, r.call, r.kind)
     /\ \A t \in Inside : Own(th[t].got, th[t].call, th[t].kind)

(* An update, insert or delete that returned kOK was answered by the       *)
(* server, and so was its WAIT; a lost connection or a command that could  *)
(* not be formatted never goes by unnoticed.                               *)
UpdatesAnswered ==
  \A r \in returned : r.kind \in Writes =>
    \A i \in 1 .. Len(Commands(r.call, r.kind)) : Commands(r.call, r.kind)[i] \in answered

(* Every call returns, or the process ends: no thread waits in             *)
(* redisGetReply() for a reply that will not come.                         *)
CallsReturn == \A t \in Threads : t \in Inside ~> t \notin Inside \/ ~Running
=============================================================================
