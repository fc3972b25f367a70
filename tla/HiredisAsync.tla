---------------------------- MODULE HiredisAsync ----------------------------
(***************************************************************************)
(* The asynchronous client of hiredis (async.c): one redisAsyncContext     *)
(* driven by an event loop, the application that issues commands from the  *)
(* loop or from inside a reply callback, and a Redis server at the other   *)
(* end of a connection that may break.                                     *)
(*                                                                         *)
(* Everything runs on one thread.  `at' says where it is: in the event     *)
(* loop, in a handler, in redisProcessCallbacks(), in __redisAsyncFree(),  *)
(* or in an application callback called from one of the last two.  The     *)
(* callbacks onConnect and onDisconnect get a const context and change     *)
(* nothing.  Memory allocation is taken to succeed.                        *)
(*                                                                         *)
(* The server, the socket and the event libraries are modelled from how    *)
(* async.c and the adapters use them.                                      *)
(***************************************************************************)
EXTENDS Integers, Sequences, FiniteSets

CONSTANTS
  Kinds,            \* the commands the application issues
  Topics,           \* channels and patterns to subscribe to
  Fns,              \* whether a command may have a callback (TRUE), a NULL one
  MaxCommands,      \* bound on commands issued
  MaxPushes,        \* bound on messages and monitor lines the server pushes
  MaxQueue,         \* bound on replies, which partial reads lengthen in monitor mode
  CanBreak,         \* whether the server may close or break the connection
  Adapters          \* event libraries

ASSUME AdaptersAssumption == Adapters \subseteq {"ae", "ivykis", "libevent", "libuv", "glib"}
ASSUME KindsAssumption ==
  Kinds \subseteq {"get", "subscribe", "unsubscribe", "monitor"}
ASSUME BoundsAssumption == MaxCommands \in Nat /\ MaxPushes \in Nat /\ MaxQueue \in Nat
ASSUME BoolsAssumption == Fns \subseteq BOOLEAN /\ CanBreak \in BOOLEAN

NoTopic == "none"
Ids == 1 .. MaxCommands

(* Command number id; kind "get" stands for every regular command. *)
Command ==
  {c \in [id : Ids, kind : Kinds, topic : Topics \cup {NoTopic}] :
     c.kind \in {"subscribe", "unsubscribe"} => c.topic \in Topics}

(* What is remembered of a command: whether it was given a callback, whether *)
(* no UNSUBSCRIBE was waiting for its reply, and whether the topic to        *)
(* unsubscribe from was known.                                               *)
Issued == [kind : Kinds, topic : Topics \cup {NoTopic}, fn : BOOLEAN,
           waited : BOOLEAN, known : BOOLEAN]

(* redisCallback: privdata is the number of the command, fn may be NULL. *)
NoCallback == [id |-> 0, fn |-> FALSE]
Callback == [id : Ids, fn : BOOLEAN]

(***************************************************************************)
(* A reply: its type, what it is (an answer to command `of', or a pub/sub  *)
(* message about a topic, or a line of monitor output, or unsolicited) and *)
(* the number of subscriptions left that pub/sub replies carry.            *)
(***************************************************************************)
Reply == [type : {"string", "status", "error", "array", "garbage"},
          what : {"answer", "subscribe", "unsubscribe", "message", "line",
                  "unsolicited"},
          of : Ids \cup {0}, topic : Topics \cup {NoTopic}, left : Nat]
NullReply == [type |-> "null", what |-> "answer", of |-> 0,
              topic |-> NoTopic, left |-> 0]
Plain(type, what, id) == [NullReply EXCEPT !.type = type, !.what = what, !.of = id]
PubSub(what, topic, id, n) ==
  [type |-> "array", what |-> what, of |-> id, topic |-> topic, left |-> n]

VARIABLES
  at,               \* where the client's thread is
  flags,            \* c->flags
  err,              \* c->err # 0
  obuf,             \* c->obuf: commands not yet written
  inbuf,            \* replies fed to c->reader and not yet taken
  replies,          \* ac->replies
  invalid,          \* ac->sub.invalid
  channels,         \* ac->sub.channels and ac->sub.patterns
  cb,               \* the local variable of redisProcessCallbacks()
  ev,               \* events registered with the event library
  loop,             \* the adapter, the handler it still has to call in this
                    \* callback of the library, and whether polling stopped
  toServer, toClient, broken,   \* the connection
  subscribed, monitoring,       \* the server's state for this client
  pushes,           \* messages and lines the server has pushed
  issued,           \* history: the commands accepted, in order
  closedBy,         \* history: what made __redisAsyncFree() run
  calls,            \* history: replies each command's callback was given
  onDisconnect      \* history: statuses onDisconnect was called with

server == <<subscribed, monitoring, pushes>>
socket == <<toServer, toClient, broken>>
queues == <<replies, invalid, channels>>
vars == <<at, flags, err, obuf, inbuf, queues, cb, ev, socket, server, issued,
          closedBy, calls, onDisconnect, loop>>

(* What the adapter's attach function registers by itself. *)
Attached(adapter) == IF adapter = "ivykis" THEN {"read", "write"} ELSE {}

(* redisAsyncConnect(), attach and redisAsyncSetConnectCallback(). *)
Init ==
  /\ at = "idle" /\ flags = {} /\ err = FALSE
  /\ obuf = <<>> /\ inbuf = <<>> /\ cb = NoCallback
  /\ replies = <<>> /\ invalid = <<>> /\ channels = [t \in {} |-> NoCallback]
  /\ \E a \in Adapters :
       /\ ev = Attached(a) \cup {"write"}
       /\ loop = [adapter |-> a, firing |-> "none", stopped |-> FALSE]
  /\ toServer = <<>> /\ toClient = <<>> /\ broken = FALSE
  /\ subscribed = {} /\ monitoring = FALSE /\ pushes = 0
  /\ issued = <<>> /\ closedBy = "nobody"
  /\ calls = [i \in Ids |-> <<>>] /\ onDisconnect = <<>>

-----------------------------------------------------------------------------
(* The functions an adapter gives the context to register events with. *)

(* uv_poll_start() polls for all of them again, stopped or not. *)
AddEvents(es) == ev' = ev \cup es /\ loop' = [loop EXCEPT !.stopped = FALSE]
DelWriteAddRead == ev' = (ev \ {"write"}) \cup {"read"} /\ UNCHANGED loop
Cleanup == ev' = {} /\ UNCHANGED loop

-----------------------------------------------------------------------------
(* The application: in the event loop, or inside one of its callbacks. *)

AppRuns == at \in {"callback", "freeCallback"} \/ (at = "idle" /\ loop.firing = "none")

(***************************************************************************)
(* __redisAsyncCommand().  A refused command returns REDIS_ERR and leaves  *)
(* everything alone.                                                       *)
(***************************************************************************)
Accepted(kind) ==
  /\ flags \cap {"DISCONNECTING", "FREEING"} = {}
  /\ kind = "unsubscribe" => "SUBSCRIBED" \in flags

(* dictReplace() and __redisPushCallback(). *)
Replace(dict, topic, c) ==
  [t \in DOMAIN dict \cup {topic} |-> IF t = topic THEN c ELSE dict[t]]

(* An UNSUBSCRIBE whose reply has not been taken yet. *)
Unsubscribing ==
  \/ \E i \in DOMAIN obuf : obuf[i].kind = "unsubscribe"
  \/ \E i \in DOMAIN toServer : toServer[i].kind = "unsubscribe"
  \/ \E i \in DOMAIN toClient : toClient[i].what = "unsubscribe"
  \/ \E i \in DOMAIN inbuf : inbuf[i].what = "unsubscribe"

AsyncCommand(kind, topic, fn) ==
  LET id == Len(issued) + 1
      c == [id |-> id, fn |-> fn]
  IN
  /\ AppRuns /\ id \in Ids /\ Accepted(kind)
  /\ issued' = Append(issued, [kind |-> kind, topic |-> topic, fn |-> fn,
                               waited |-> ~Unsubscribing,
                               known |-> kind = "unsubscribe" => topic \in DOMAIN channels])
  /\ flags' = flags \cup (CASE kind = "subscribe" -> {"SUBSCRIBED"}
                            [] kind = "monitor" -> {"MONITORING"}
                            [] OTHER -> {})
  /\ channels' = IF kind = "subscribe" THEN Replace(channels, topic, c) ELSE channels
  /\ invalid' = IF kind = "get" /\ "SUBSCRIBED" \in flags
                  THEN Append(invalid, c) ELSE invalid
  /\ replies' = IF kind = "monitor" \/ (kind = "get" /\ "SUBSCRIBED" \notin flags)
                  THEN Append(replies, c) ELSE replies
  /\ obuf' = Append(obuf, [id |-> id, kind |-> kind, topic |-> topic])
  /\ AddEvents({"write"})
  /\ UNCHANGED <<at, err, inbuf, cb, socket, server, closedBy, calls, onDisconnect>>

(* A topic is given to the pub/sub commands, a callback to all but one. *)
IssueCommand ==
  \E kind \in Kinds :
    \E topic \in IF kind \in {"subscribe", "unsubscribe"} THEN Topics ELSE {NoTopic} :
      \E fn \in IF kind = "unsubscribe" THEN {FALSE} ELSE Fns :
        AsyncCommand(kind, topic, fn)

(* __redisAsyncDisconnect() up to its call of __redisAsyncFree(). *)
CloseWith(e, fs, queue, who) ==
  /\ err' = e
  /\ at' = IF ~e /\ queue # <<>> THEN "assertionFailed" ELSE "free"
  /\ flags' = IF e THEN fs \cup {"DISCONNECTING"} ELSE fs
  /\ closedBy' = who

(* Mutant: pending callbacks are not waited for. *)
AsyncDisconnectAtOnce ==
  LET fs == flags \cup {"DISCONNECTING"} IN
  /\ AppRuns
  /\ IF "IN_CALLBACK" \notin flags
       THEN CloseWith(err, fs, replies, "user")
       ELSE flags' = fs /\ UNCHANGED <<at, err, closedBy>>
  /\ UNCHANGED <<obuf, inbuf, queues, cb, ev, socket, server, issued, calls, onDisconnect, loop>>

(* redisAsyncDisconnect(). *)
AsyncDisconnect ==
  LET fs == flags \cup {"DISCONNECTING"} IN
  /\ AppRuns
  /\ IF "IN_CALLBACK" \notin flags /\ replies = <<>>
       THEN CloseWith(err, fs, replies, "user")
       ELSE flags' = fs /\ UNCHANGED <<at, err, closedBy>>
  /\ UNCHANGED <<obuf, inbuf, queues, cb, ev, socket, server, issued, calls, onDisconnect, loop>>

(* redisAsyncFree(). *)
AsyncFree ==
  /\ AppRuns
  /\ flags' = flags \cup {"FREEING"}
  /\ IF "IN_CALLBACK" \in flags
       THEN UNCHANGED <<at, closedBy>>
       ELSE at' = "free" /\ closedBy' = "user"
  /\ UNCHANGED <<err, obuf, inbuf, queues, cb, ev, socket, server, issued, calls,
                 onDisconnect, loop>>

-----------------------------------------------------------------------------
(* Event handlers: redisAsyncHandleRead() and redisAsyncHandleWrite(). *)

Ready(e) == e = "write" \/ toClient # <<>> \/ broken

(* ae, and ivykis: one handler, and the event stays registered. *)
AeFires(e) == loop.adapter \in {"ae", "ivykis"} /\ UNCHANGED <<ev, loop>>

(* libevent: the events are not EV_PERSIST, so one that fires is gone      *)
(* until the handler adds it again.                                        *)
LibeventFires(e) == loop.adapter = "libevent" /\ ev' = ev \ {e} /\ UNCHANGED loop

(* One callback of the library reports one event, or both of them. *)
Reports(e, first) ==
  /\ UNCHANGED ev
  /\ \/ UNCHANGED loop
     \/ /\ e = first
        /\ \E f \in ev \ {e} : Ready(f) /\ loop' = [loop EXCEPT !.firing = f]

(* redisLibuvPoll() calls the read handler first, *)
LibuvPoll(e) == loop.adapter = "libuv" /\ Reports(e, "read")
(* redis_source_dispatch() the write handler. *)
GlibDispatch(e) == loop.adapter = "glib" /\ Reports(e, "write")

(* The event loop calls the handler of e, or an adapter calls its second.  *)
Fires(e) ==
  \/ /\ loop.firing = "none" /\ ~loop.stopped /\ e \in ev /\ Ready(e)
     /\ AeFires(e) \/ LibeventFires(e) \/ LibuvPoll(e) \/ GlibDispatch(e)
  \/ /\ loop.firing = e
     /\ loop' = [loop EXCEPT !.firing = "none"] /\ UNCHANGED ev

(***************************************************************************)
(* An event fires.  The first one finds out whether connect(2) succeeded   *)
(* (__redisAsyncHandleConnect); a socket does not report EINPROGRESS here. *)
(***************************************************************************)
HandleEvent(e) ==
  /\ at = "idle" /\ Fires(e)
  /\ \/ at' = e /\ flags' = flags \cup {"CONNECTED"} /\ UNCHANGED <<err, closedBy>>
     \/ /\ "CONNECTED" \notin flags /\ CanBreak
        /\ CloseWith(TRUE, flags, replies, "error")
  /\ UNCHANGED <<obuf, inbuf, queues, cb, socket, server, issued, calls, onDisconnect>>

(* libuv stops polling a socket in error and reports that; redisLibuvPoll() *)
(* returns, and no handler learns of it.                                    *)
LibuvPollError ==
  /\ loop.adapter = "libuv" /\ at = "idle" /\ loop.firing = "none" /\ ~loop.stopped
  /\ ev # {} /\ CanBreak /\ (broken \/ "CONNECTED" \notin flags)
  /\ loop' = [loop EXCEPT !.stopped = TRUE]
  /\ UNCHANGED <<at, flags, err, obuf, inbuf, queues, cb, ev, socket, server, issued,
                 closedBy, calls, onDisconnect>>

(* The first handler freed the context, and the adapter calls the second   *)
(* with it.                                                                *)
SecondHandlerUsesFreed ==
  /\ at = "freed" /\ loop.firing # "none" /\ at' = "useAfterFree"
  /\ UNCHANGED <<flags, err, obuf, inbuf, queues, cb, ev, socket, server, issued,
                 closedBy, calls, onDisconnect, loop>>

(* redisBufferRead() or redisBufferWrite() fails. *)
BufferError ==
  /\ at \in {"read", "write"} /\ broken
  /\ CloseWith(TRUE, flags, replies, "error")
  /\ UNCHANGED <<obuf, inbuf, queues, cb, ev, socket, server, issued, calls, onDisconnect, loop>>

(* Mutant: reads are not scheduled again. *)
BufferReadOnce ==
  /\ at = "read"
  /\ broken => toClient # <<>>
  /\ \E n \in 0 .. Len(toClient) :
       /\ n = 0 => Len(replies) < MaxQueue
       /\ inbuf' = inbuf \o SubSeq(toClient, 1, n)
       /\ toClient' = SubSeq(toClient, n + 1, Len(toClient))
  /\ at' = "process" /\ cb' = NoCallback
  /\ UNCHANGED <<flags, err, obuf, queues, ev, toServer, broken, server, issued,
                 closedBy, calls, onDisconnect, loop>>

(* n replies are complete after this read; none when part of one was read. *)
BufferRead ==
  /\ at = "read"
  /\ broken => toClient # <<>>
  /\ \E n \in 0 .. Len(toClient) :
       /\ n = 0 => Len(replies) < MaxQueue
       /\ inbuf' = inbuf \o SubSeq(toClient, 1, n)
       /\ toClient' = SubSeq(toClient, n + 1, Len(toClient))
  /\ AddEvents({"read"})
  /\ at' = "process" /\ cb' = NoCallback
  /\ UNCHANGED <<flags, err, obuf, queues, toServer, broken, server, issued,
                 closedBy, calls, onDisconnect>>

(* Mutant: the buffer is emptied after a partial write. *)
BufferWriteDropsRest ==
  /\ at = "write"
  /\ \E n \in 0 .. Len(obuf) :
       /\ toServer' = toServer \o SubSeq(obuf, 1, n)
       /\ obuf' = IF n = 0 THEN obuf ELSE <<>>
       /\ IF obuf' = <<>> THEN DelWriteAddRead ELSE AddEvents({"read", "write"})
  /\ at' = "idle"
  /\ UNCHANGED <<flags, err, inbuf, queues, cb, toClient, broken, server, issued,
                 closedBy, calls, onDisconnect>>

(* The first n commands of the output buffer are written. *)
BufferWrite ==
  /\ at = "write"
  /\ \E n \in 0 .. Len(obuf) :
       /\ toServer' = toServer \o SubSeq(obuf, 1, n)
       /\ obuf' = SubSeq(obuf, n + 1, Len(obuf))
       /\ IF n = Len(obuf) THEN DelWriteAddRead ELSE AddEvents({"read", "write"})
  /\ at' = "idle"
  /\ UNCHANGED <<flags, err, inbuf, queues, cb, toClient, broken, server, issued,
                 closedBy, calls, onDisconnect>>

-----------------------------------------------------------------------------
(* redisProcessCallbacks(), one turn of its loop at a time. *)

(* Mutant: a requested disconnect is never carried out. *)
NoMoreRepliesStays ==
  /\ at = "process" /\ inbuf = <<>>
  /\ replies' = IF "MONITORING" \in flags THEN Append(replies, cb) ELSE replies
  /\ at' = "idle"
  /\ UNCHANGED <<flags, err, obuf, inbuf, invalid, channels, cb, ev, socket, server,
                 issued, closedBy, calls, onDisconnect, loop>>

(* redisGetReply() gives NULL: disconnect now, or wait for the next event. *)
NoMoreReplies ==
  /\ at = "process" /\ inbuf = <<>>
  /\ IF "DISCONNECTING" \in flags /\ obuf = <<>> /\ replies = <<>>
       THEN /\ CloseWith(err, flags, replies, "user")
            /\ UNCHANGED replies
       ELSE /\ replies' = IF "MONITORING" \in flags THEN Append(replies, cb) ELSE replies
            /\ at' = "idle"
            /\ UNCHANGED <<flags, err, closedBy>>
  /\ UNCHANGED <<obuf, inbuf, invalid, channels, cb, ev, socket, server, issued,
                 calls, onDisconnect, loop>>

(* redisGetReply() fails on what the server sent. *)
ProtocolError ==
  /\ at = "process" /\ inbuf # <<>> /\ Head(inbuf).type = "garbage"
  /\ CloseWith(TRUE, flags, replies, "error")
  /\ UNCHANGED <<obuf, inbuf, queues, cb, ev, socket, server, issued, calls, onDisconnect, loop>>

(* A reply when no regular callback is pending, and it is an error. *)
SpontaneousError ==
  /\ at = "process" /\ inbuf # <<>> /\ replies = <<>> /\ Head(inbuf).type = "error"
  /\ inbuf' = Tail(inbuf)
  /\ CloseWith(TRUE, flags, replies, "error")
  /\ UNCHANGED <<obuf, queues, cb, ev, socket, server, issued, calls, onDisconnect, loop>>

(* __redisRunCallback(), and what follows a callback that is NULL. *)
RunCallback(c, reply, fs, inside, skip) ==
  /\ at' = IF c.fn THEN inside ELSE skip
  /\ flags' = IF c.fn THEN fs \cup {"IN_CALLBACK"} ELSE fs
  /\ calls' = IF c.fn THEN [calls EXCEPT ![c.id] = Append(@, reply)] ELSE calls

TakeReply ==
  /\ at = "process" /\ inbuf # <<>> /\ Head(inbuf).type # "garbage"
  /\ inbuf' = Tail(inbuf)

(* Mutant: the callback stays in the list. *)
RegularReplyPeeks ==
  /\ TakeReply /\ replies # <<>>
  /\ cb' = Head(replies) /\ replies' = replies
  /\ RunCallback(Head(replies), Head(inbuf), flags, "callback", "process")
  /\ UNCHANGED <<err, obuf, invalid, channels, ev, socket, server, issued, closedBy,
                 onDisconnect, loop>>

(* Regular callbacks get the replies in the order they were pushed. *)
RegularReply ==
  /\ TakeReply /\ replies # <<>>
  /\ cb' = Head(replies) /\ replies' = Tail(replies)
  /\ RunCallback(Head(replies), Head(inbuf), flags, "callback", "process")
  /\ UNCHANGED <<err, obuf, invalid, channels, ev, socket, server, issued, closedBy,
                 onDisconnect, loop>>

(* The assert: without regular callbacks the context must be subscribed... *)
UnexpectedReply ==
  /\ TakeReply /\ replies = <<>> /\ Head(inbuf).type # "error"
  /\ flags \cap {"SUBSCRIBED", "MONITORING"} = {}
  /\ at' = "assertionFailed"
  /\ UNCHANGED <<flags, err, obuf, queues, cb, ev, socket, server, issued, closedBy,
                 calls, onDisconnect, loop>>

(***************************************************************************)
(* __redisGetSubscribeCallback().  When it finds no callback, cb keeps the *)
(* value of the previous turn of the loop.                                 *)
(***************************************************************************)
SubscribedReply ==
  LET reply == Head(inbuf)
      known == reply.type = "array" /\ reply.topic \in DOMAIN channels
      gone == known /\ reply.what = "unsubscribe"
      shift == reply.type # "array" /\ invalid # <<>>
  IN
  /\ TakeReply /\ replies = <<>> /\ reply.type # "error" /\ "SUBSCRIBED" \in flags
  /\ cb' = IF known THEN channels[reply.topic]
           ELSE IF shift THEN Head(invalid) ELSE cb
  /\ channels' = IF gone THEN [t \in DOMAIN channels \ {reply.topic} |-> channels[t]]
                 ELSE channels
  /\ invalid' = IF shift THEN Tail(invalid) ELSE invalid
  /\ RunCallback(cb', reply,
                 IF gone /\ reply.left = 0 THEN flags \ {"SUBSCRIBED"} ELSE flags,
                 "callback", "process")
  /\ UNCHANGED <<err, obuf, replies, ev, socket, server, issued, closedBy, onDisconnect, loop>>

(* ...or monitoring, and then the previous callback gets the line too. *)
MonitorReply ==
  /\ TakeReply /\ replies = <<>> /\ Head(inbuf).type # "error"
  /\ "SUBSCRIBED" \notin flags /\ "MONITORING" \in flags
  /\ RunCallback(cb, Head(inbuf), flags, "callback", "process")
  /\ UNCHANGED <<err, obuf, queues, cb, ev, socket, server, issued, closedBy,
                 onDisconnect, loop>>

(* Mutant: a disconnect asked for in a callback does not wait either. *)
CallbackReturnsDisconnects ==
  /\ at = "callback"
  /\ flags' = flags \ {"IN_CALLBACK"}
  /\ IF flags \cap {"FREEING", "DISCONNECTING"} # {}
       THEN at' = "free" /\ closedBy' = "user"
       ELSE at' = "process" /\ UNCHANGED closedBy
  /\ UNCHANGED <<err, obuf, inbuf, queues, cb, ev, socket, server, issued, calls,
                 onDisconnect, loop>>

(* The callback returns; the context is freed now if it asked for that. *)
CallbackReturns ==
  /\ at = "callback"
  /\ flags' = flags \ {"IN_CALLBACK"}
  /\ IF "FREEING" \in flags
       THEN at' = "free" /\ closedBy' = "user"
       ELSE at' = "process" /\ UNCHANGED closedBy
  /\ UNCHANGED <<err, obuf, inbuf, queues, cb, ev, socket, server, issued, calls,
                 onDisconnect, loop>>

ProcessCallbacks ==
  \/ NoMoreReplies \/ ProtocolError \/ SpontaneousError \/ RegularReply
  \/ UnexpectedReply \/ SubscribedReply \/ MonitorReply \/ CallbackReturns

-----------------------------------------------------------------------------
(* __redisAsyncFree(): pending callbacks get a NULL reply. *)

(* Mutant: pending callbacks are thrown away. *)
FreeRegularSilently ==
  /\ at = "free" /\ replies # <<>>
  /\ replies' = Tail(replies)
  /\ UNCHANGED <<at, flags, calls>>
  /\ UNCHANGED <<err, obuf, inbuf, invalid, channels, cb, ev, socket, server, issued,
                 closedBy, onDisconnect, loop>>

FreeRegular ==
  /\ at = "free" /\ replies # <<>>
  /\ replies' = Tail(replies)
  /\ RunCallback(Head(replies), NullReply, flags, "freeCallback", "free")
  /\ UNCHANGED <<err, obuf, inbuf, invalid, channels, cb, ev, socket, server, issued,
                 closedBy, onDisconnect, loop>>

FreeInvalid ==
  /\ at = "free" /\ replies = <<>> /\ invalid # <<>>
  /\ invalid' = Tail(invalid)
  /\ RunCallback(Head(invalid), NullReply, flags, "freeCallback", "free")
  /\ UNCHANGED <<err, obuf, inbuf, replies, channels, cb, ev, socket, server, issued,
                 closedBy, onDisconnect, loop>>

(* Mutant: subscribers are not told. *)
FreeChannelSilently(t) ==
  /\ at = "free" /\ replies = <<>> /\ invalid = <<>> /\ t \in DOMAIN channels
  /\ channels' = [u \in DOMAIN channels \ {t} |-> channels[u]]
  /\ UNCHANGED <<at, flags, calls>>
  /\ UNCHANGED <<err, obuf, inbuf, replies, invalid, cb, ev, socket, server, issued,
                 closedBy, onDisconnect, loop>>

FreeChannel(t) ==
  /\ at = "free" /\ replies = <<>> /\ invalid = <<>> /\ t \in DOMAIN channels
  /\ channels' = [u \in DOMAIN channels \ {t} |-> channels[u]]
  /\ RunCallback(channels[t], NullReply, flags, "freeCallback", "free")
  /\ UNCHANGED <<err, obuf, inbuf, replies, invalid, cb, ev, socket, server, issued,
                 closedBy, onDisconnect, loop>>

FreeCallbackReturns ==
  /\ at = "freeCallback"
  /\ flags' = flags \ {"IN_CALLBACK"} /\ at' = "free"
  /\ UNCHANGED <<err, obuf, inbuf, queues, cb, ev, socket, server, issued, closedBy,
                 calls, onDisconnect, loop>>

(* Mutant: onDisconnect is called for a connection that never was. *)
FreeContextAlwaysCalls ==
  /\ at = "free" /\ replies = <<>> /\ invalid = <<>> /\ DOMAIN channels = {}
  /\ Cleanup
  /\ onDisconnect' = Append(onDisconnect,
                                 IF "FREEING" \in flags \/ ~err THEN "OK" ELSE "ERR")
  /\ at' = "freed"
  /\ UNCHANGED <<flags, err, obuf, inbuf, queues, cb, socket, server, issued, closedBy,
                 calls>>

(* The event library lets go, onDisconnect is called, the memory is freed. *)
FreeContext ==
  /\ at = "free" /\ replies = <<>> /\ invalid = <<>> /\ DOMAIN channels = {}
  /\ Cleanup
  /\ onDisconnect' = IF "CONNECTED" \notin flags THEN onDisconnect
                     ELSE Append(onDisconnect,
                                 IF "FREEING" \in flags \/ ~err THEN "OK" ELSE "ERR")
  /\ at' = "freed"
  /\ UNCHANGED <<flags, err, obuf, inbuf, queues, cb, socket, server, issued, closedBy,
                 calls>>

Free ==
  \/ FreeRegular \/ FreeInvalid \/ (\E t \in Topics : FreeChannel(t))
  \/ FreeCallbackReturns \/ FreeContext

-----------------------------------------------------------------------------
(* The server and the network. *)

ServerAnswer(c) ==
  CASE c.kind = "subscribe" ->
         PubSub("subscribe", c.topic, c.id, Cardinality(subscribed \cup {c.topic}))
    [] c.kind = "unsubscribe" ->
         PubSub("unsubscribe", c.topic, c.id, Cardinality(subscribed \ {c.topic}))
    [] OTHER ->
         Plain(IF subscribed # {} THEN "error"
               ELSE IF c.kind = "monitor" THEN "status" ELSE "string", "answer", c.id)

ServerExecutes ==
  LET c == Head(toServer) IN
  /\ toServer # <<>> /\ ~broken
  /\ toServer' = Tail(toServer)
  /\ toClient' = Append(toClient, ServerAnswer(c))
  /\ subscribed' = CASE c.kind = "subscribe" -> subscribed \cup {c.topic}
                     [] c.kind = "unsubscribe" -> subscribed \ {c.topic}
                     [] OTHER -> subscribed
  /\ monitoring' = (monitoring \/ (c.kind = "monitor" /\ subscribed = {}))
  /\ UNCHANGED <<at, flags, err, obuf, inbuf, queues, cb, ev, broken, pushes, issued,
                 closedBy, calls, onDisconnect, loop>>

ServerPushes ==
  /\ ~broken /\ pushes < MaxPushes /\ pushes' = pushes + 1
  /\ \/ \E t \in subscribed : toClient' = Append(toClient, PubSub("message", t, 0, 0))
     \/ monitoring /\ toClient' = Append(toClient, Plain("status", "line", 0))
  /\ UNCHANGED <<at, flags, err, obuf, inbuf, queues, cb, ev, toServer, broken,
                 subscribed, monitoring, issued, closedBy, calls, onDisconnect, loop>>

(* The server closes the connection, perhaps after a last word. *)
ConnectionBreaks ==
  /\ CanBreak /\ ~broken /\ broken' = TRUE
  /\ toClient' \in {toClient} \cup
       {Append(toClient, Plain(type, "unsolicited", 0)) : type \in {"error", "garbage"}}
  /\ UNCHANGED <<at, flags, err, obuf, inbuf, queues, cb, ev, toServer, server, issued,
                 closedBy, calls, onDisconnect, loop>>

Server == ServerExecutes \/ ServerPushes \/ ConnectionBreaks

-----------------------------------------------------------------------------
Application == IssueCommand \/ AsyncDisconnect \/ AsyncFree
Handlers ==
  (\E e \in {"read", "write"} : HandleEvent(e)) \/ LibuvPollError
  \/ SecondHandlerUsesFreed \/ BufferError \/ BufferRead \/ BufferWrite
Client == Handlers \/ ProcessCallbacks \/ Free

Next == Application \/ Client \/ Server

Spec == Init /\ [][Next]_vars

(***************************************************************************)
(* The event loop serves every event that stays ready, a partial read or   *)
(* write is completed sooner or later, callbacks return and the server     *)
(* executes what it is sent.  Nothing makes the application act.           *)
(***************************************************************************)
Fairness ==
  /\ WF_vars(BufferError \/ BufferRead \/ BufferWrite)
  /\ WF_vars(ProcessCallbacks) /\ WF_vars(Free) /\ WF_vars(ServerExecutes)
  /\ \A e \in {"read", "write"} : SF_vars(HandleEvent(e))
  /\ SF_vars(BufferRead /\ inbuf' # inbuf)
  /\ SF_vars(BufferWrite /\ obuf' # obuf)

FairSpec == Spec /\ Fairness

-----------------------------------------------------------------------------
(* The variables have their types, and REDIS_IN_CALLBACK is set exactly    *)
(* while an application callback runs.                                     *)
TypeOK ==
  /\ at \in {"idle", "read", "write", "process", "callback", "free",
             "freeCallback", "freed", "useAfterFree", "assertionFailed"}
  /\ flags \subseteq {"CONNECTED", "DISCONNECTING", "FREEING", "IN_CALLBACK",
                      "SUBSCRIBED", "MONITORING"}
  /\ ("IN_CALLBACK" \in flags) <=> (at \in {"callback", "freeCallback"})
  /\ err \in BOOLEAN /\ broken \in BOOLEAN /\ monitoring \in BOOLEAN
  /\ obuf \in Seq(Command) /\ toServer \in Seq(Command)
  /\ inbuf \in Seq(Reply) /\ toClient \in Seq(Reply)
  /\ replies \in Seq(Callback \cup {NoCallback}) /\ invalid \in Seq(Callback)
  /\ cb \in Callback \cup {NoCallback}
  /\ DOMAIN channels \subseteq Topics
  /\ \A t \in DOMAIN channels : channels[t] \in Callback
  /\ loop \in [adapter : Adapters, firing : {"none", "read", "write"}, stopped : BOOLEAN]
  /\ ev \subseteq {"read", "write"}
  /\ subscribed \subseteq Topics /\ IsFiniteSet(subscribed)
  /\ pushes \in 0 .. MaxPushes
  /\ issued \in Seq(Issued) /\ Len(issued) <= MaxCommands
  /\ closedBy \in {"nobody", "user", "error"}
  /\ calls \in [Ids -> Seq(Reply \cup {NullReply})]
  /\ onDisconnect \in Seq({"OK", "ERR"})

Open == at \in {"idle", "read", "write", "process", "callback"}
Freed == at \in {"freed", "useAfterFree"}
AnswerIds(s) == [i \in DOMAIN s |-> s[i].of]
CommandIds(s) == [i \in DOMAIN s |-> s[i].id]

(* The kinds of command issued so far, and the case of regular ones only. *)
Used == {issued[i].kind : i \in DOMAIN issued}
RegularOnly == Used \subseteq {"get"}

(* No command was issued while an UNSUBSCRIBE was under way, and none to   *)
(* unsubscribe from a topic that has no callback.                          *)
Waited == \A i \in DOMAIN issued : issued[i].waited
Known == \A i \in DOMAIN issued : issued[i].known

(***************************************************************************)
(* Pipelining: the callbacks that wait are those of the commands whose     *)
(* replies are still to be taken, in the same order, wherever between the  *)
(* output buffer and the reader the command or its reply is.               *)
(***************************************************************************)
PipelineInOrder ==
  RegularOnly /\ Open /\ ~broken =>
    CommandIds(replies) = AnswerIds(inbuf) \o AnswerIds(toClient)
                            \o CommandIds(toServer) \o CommandIds(obuf)

(***************************************************************************)
(* The callback of a regular command runs at most once, and exactly once   *)
(* by the time the context is freed, whichever way that came about.        *)
(***************************************************************************)
CalledOnce ==
  RegularOnly => \A i \in DOMAIN issued :
    /\ Len(calls[i]) <= 1
    /\ Freed /\ issued[i].fn => calls[i] # <<>>

(***************************************************************************)
(* The asserts of __redisAsyncDisconnect() and redisProcessCallbacks():    *)
(* a clean disconnect finds no pending callback, and a reply without one   *)
(* comes only when the context is subscribed or monitoring.                *)
(***************************************************************************)
AssertsHold == at # "assertionFailed"

(***************************************************************************)
(* The same asserts, as long as the application waits for the reply to an  *)
(* UNSUBSCRIBE before it issues its next command: regular commands before  *)
(* and after a SUBSCRIBE or MONITOR, disconnecting inside callbacks and    *)
(* broken connections never make one of them fail.                         *)
(***************************************************************************)
AssertsHoldIfWaited == Waited => AssertsHold

(***************************************************************************)
(* onDisconnect is called once, at the very end and only for a connection  *)
(* that was made, and with REDIS_OK when the user asked for the end.       *)
(***************************************************************************)
DisconnectReported ==
  /\ Len(onDisconnect) = IF Freed /\ "CONNECTED" \in flags THEN 1 ELSE 0
  /\ onDisconnect # <<>> /\ closedBy = "user" => onDisconnect[1] = "OK"

(***************************************************************************)
(* The README on redisAsyncDisconnect(): the connection ends only when all *)
(* pending commands have been written, and their replies given to their    *)
(* callbacks, as long as the server does not break the connection.  (The   *)
(* code keeps this promise for regular commands.)                          *)
(***************************************************************************)
CleanDisconnect ==
  RegularOnly /\ Freed /\ closedBy = "user" /\ "FREEING" \notin flags /\ ~broken =>
    /\ obuf = <<>>
    /\ \A i \in DOMAIN issued : \A k \in DOMAIN calls[i] : calls[i][k] # NullReply

(***************************************************************************)
(* A callback is only given what it was registered for: the answer to its  *)
(* command, messages about its topic, or a NULL reply.  (An unsolicited    *)
(* error counts as the answer to the oldest command.)  Three uses are left *)
(* out, in which the code does mix them up: commands issued while an       *)
(* UNSUBSCRIBE is under way, which may be executed in another mode than    *)
(* they were queued for; an UNSUBSCRIBE from a topic without a callback,   *)
(* whose reply goes to whichever callback ran last; and monitor mode,      *)
(* where lines go there too.                                               *)
(***************************************************************************)
RepliesMatch ==
  Waited /\ Known /\ "monitor" \notin Used =>
    \A i \in DOMAIN issued : \A k \in DOMAIN calls[i] :
    LET reply == calls[i][k] IN
    \/ reply = NullReply
    \/ reply.what = "unsolicited"
    \/ reply.what = "answer" /\ reply.of = i
    \/ reply.type = "array" /\ issued[i].kind = "subscribe"
         /\ issued[i].topic = reply.topic

(* The later commands about a subscriber's topic, and what they do to it:  *)
(* each is another SUBSCRIBE or an UNSUBSCRIBE.                            *)
About(i) == {j \in DOMAIN issued : j > i /\ issued[j].topic = issued[i].topic}
Replaced(i) == \E j \in About(i) : issued[j].kind # "unsubscribe"
Unsubscribed(i) == \E j \in About(i) : issued[j].kind = "unsubscribe"

(***************************************************************************)
(* Every subscriber learns that it will get no more messages: by the time  *)
(* the context is freed, the last thing its callback was given is an       *)
(* unsubscribe message or a NULL reply.  Three uses are left out, in which *)
(* the code does not keep this: an application that issues commands while  *)
(* an UNSUBSCRIBE is under way (Waited); a subscriber whose callback a     *)
(* later SUBSCRIBE to the topic replaced; and an unsubscribed one when     *)
(* MONITOR is used as well, as redisProcessCallbacks() then pushes the     *)
(* callback that ran last, which may be the subscriber's, among the        *)
(* regular ones again (async.c:429) and runs it with a line of output.     *)
(***************************************************************************)
SubscribersToldTheEnd ==
  Waited /\ Freed =>
    \A i \in DOMAIN issued :
      /\ issued[i].kind = "subscribe" /\ issued[i].fn
      /\ ~Replaced(i)
      /\ ~(Unsubscribed(i) /\ "monitor" \in Used)
      => /\ calls[i] # <<>>
         /\ LET last == calls[i][Len(calls[i])] IN
              last = NullReply \/ last.what = "unsubscribe"

(* Every callback given with an accepted command runs eventually, with     *)
(* every adapter: whichever events it keeps, drops or reports together,    *)
(* the handlers register what they still need.  The exception is an error  *)
(* that libuv reported and its adapter dropped.                            *)
EveryCallbackRuns ==
  \A i \in Ids : (i \in DOMAIN issued /\ issued[i].fn) ~> (calls[i] # <<>> \/ loop.stopped)

(* A disconnect that was asked for comes about, and the context is freed,  *)
(* with the same exception.                                                *)
DisconnectCompletes == ("DISCONNECTING" \in flags) ~> (Freed \/ loop.stopped)

=============================================================================
