------------------------- MODULE HiredisAsyncProofs -------------------------
(***************************************************************************)
(* Proofs about HiredisAsync, for any number of commands, topics, pushed   *)
(* messages and adapters.                                                  *)
(*                                                                         *)
(* A connection is two streams: Incoming, the replies between the server   *)
(* and redisGetReply(), and Outgoing, the commands between the output      *)
(* buffer and the server.  Reads and writes move the boundary inside a     *)
(* stream and leave the stream as it is.  The inductive invariant FlowInv  *)
(* says how the queues of callbacks relate to the two streams; Once,       *)
(* Clean, Matched and Informed say what the callbacks have been given so   *)
(* far, and are inductive relative to it.                                  *)
(***************************************************************************)
EXTENDS HiredisAsync, SequenceTheorems, FiniteSetTheorems, TLAPS

-----------------------------------------------------------------------------
(* What is on its way: replies to the client, commands to the server. *)
Incoming == inbuf \o toClient
Outgoing == toServer \o obuf

Monitored == "monitor" \in Used

(***************************************************************************)
(* The ways the context ends: an error is only set by what closes the      *)
(* context, and once it is being freed it takes no more commands.          *)
(***************************************************************************)
Control ==
  /\ Open => ~err /\ closedBy = "nobody"
  /\ err => closedBy = "error"
  /\ at \in {"free", "freeCallback"} => flags \cap {"DISCONNECTING", "FREEING"} # {}
  /\ ~Freed => onDisconnect = <<>>
  /\ Freed => replies = <<>> /\ invalid = <<>> /\ DOMAIN channels = {}

(* What flags, queues, the streams and the server's state say of the       *)
(* commands issued.                                                        *)
UsesFlags ==
  /\ "SUBSCRIBED" \in flags => "subscribe" \in Used
  /\ "MONITORING" \in flags <=> "monitor" \in Used
  /\ invalid # <<>> => "subscribe" \in Used
UsesServer ==
  /\ subscribed # {} => "subscribe" \in Used
  /\ monitoring => "monitor" \in Used
UsesStreams ==
  /\ \A k \in 1 .. Len(Outgoing) : Outgoing[k].kind \in Used
  /\ \A k \in 1 .. Len(Incoming) :
       Incoming[k].what \in {"subscribe", "unsubscribe"} => Incoming[k].what \in Used
Uses == UsesFlags /\ UsesServer /\ UsesStreams

(* A callback is that of the command whose number it has. *)
Of(h, c, kind) ==
  c.id \in DOMAIN h /\ h[c.id].kind = kind /\ h[c.id].fn = c.fn

Registered ==
  /\ cb.id <= Len(issued)
  /\ \A k \in 1 .. Len(replies) : replies[k].id <= Len(issued)
  /\ ~Monitored => \A k \in 1 .. Len(replies) : Of(issued, replies[k], "get")
  /\ \A k \in 1 .. Len(invalid) : Of(issued, invalid[k], "get")
  /\ \A t \in DOMAIN channels :
       Of(issued, channels[t], "subscribe") /\ issued[channels[t].id].topic = t
NotYetCalled == \A i \in Ids : i > Len(issued) => calls[i] = <<>>

(* The last word of a connection that breaks. *)
Unsolicited(r) == r.what = "unsolicited" /\ r.type \in {"error", "garbage"}
LastWords ==
  \A k \in 1 .. Len(Incoming) :
    /\ Incoming[k].what = "unsolicited" \/ Incoming[k].type = "garbage" =>
         Unsolicited(Incoming[k]) /\ broken /\ k = Len(Incoming)

(* An UNSUBSCRIBE under way is the last command issued. *)
UnsubscribeLast ==
  /\ \A k \in 1 .. Len(Outgoing) : Outgoing[k].kind = "unsubscribe" =>
       /\ k = Len(Outgoing) /\ Outgoing[k].id = Len(issued)
       /\ issued[Len(issued)].kind = "unsubscribe"
       /\ issued[Len(issued)].topic = Outgoing[k].topic
  /\ \A k \in 1 .. Len(Incoming) : Incoming[k].what = "unsubscribe" =>
       /\ Outgoing = <<>> /\ Incoming[k].of = Len(issued)
       /\ issued[Len(issued)].kind = "unsubscribe"
       /\ issued[Len(issued)].topic = Incoming[k].topic

(* The replies due to regular callbacks come first, in their order. *)
RegularFirst ==
  /\ \A k \in 1 .. Len(Incoming) : k <= Len(replies) =>
       \/ Unsolicited(Incoming[k])
       \/ Incoming[k].what = "answer" /\ Incoming[k].of = replies[k].id
  /\ ~broken =>
       /\ Len(replies) <= Len(Incoming) + Len(Outgoing)
       /\ \A k \in 1 .. Len(Outgoing) : k + Len(Incoming) <= Len(replies) =>
            Outgoing[k].kind = "get" /\ Outgoing[k].id = replies[k + Len(Incoming)].id
       /\ subscribed # {} => Len(replies) <= Len(Incoming)

(* What else comes in: pub/sub messages for a callback, and errors. *)
Expected(r) ==
  \/ Unsolicited(r)
  \/ r.type = "error"
  \/ /\ r.type = "array" /\ r.what \in {"subscribe", "unsubscribe", "message"}
     /\ r.what = "unsubscribe" \/ r.topic \in DOMAIN channels
     /\ Known => r.topic \in DOMAIN channels

SubscribeBefore(k) ==
  subscribed # {} \/ \E j \in 1 .. Len(Outgoing) : j < k /\ Outgoing[j].kind = "subscribe"

ThenPubSub ==
  /\ \A k \in 1 .. Len(Incoming) : k > Len(replies) => Expected(Incoming[k])
  /\ \A k \in 1 .. Len(Outgoing) :
       /\ Outgoing[k].kind = "subscribe" => Outgoing[k].topic \in DOMAIN channels
       /\ Known /\ Outgoing[k].kind = "unsubscribe" => Outgoing[k].topic \in DOMAIN channels
       /\ ~broken /\ Outgoing[k].kind = "get" /\ k + Len(Incoming) > Len(replies)
            => SubscribeBefore(k)
  /\ subscribed \subseteq DOMAIN channels

(* Outside subscribed mode there is nothing but regular replies. *)
OnlyRegular ==
  "SUBSCRIBED" \notin flags =>
    /\ \A k \in 1 .. Len(Incoming) : k > Len(replies) => Unsolicited(Incoming[k])
    /\ ~broken => Len(replies) = Len(Incoming) + Len(Outgoing) /\ subscribed = {}

(* In it, the server has a subscription, or a command in flight matters. *)
SubscribedMode ==
  "SUBSCRIBED" \in flags /\ ~broken =>
    \/ SubscribeBefore(Len(Outgoing) + 1)
    \/ \E k \in 1 .. Len(Incoming) : Incoming[k].what = "unsubscribe"

(* The reply to an UNSUBSCRIBE is true until it is taken. *)
UnsubscribeTrue ==
  \A k \in 1 .. Len(Incoming) : Incoming[k].what = "unsubscribe" =>
    /\ Incoming[k].topic \notin subscribed
    /\ Incoming[k].left = Cardinality(subscribed)
    /\ Incoming[k].left = 0 => Incoming[k].topic \in DOMAIN channels
    /\ \A j \in 1 .. Len(Incoming) : j > k =>
         \/ Unsolicited(Incoming[j])
         \/ Incoming[j].what = "message" /\ Incoming[j].topic \in subscribed

InStep == RegularFirst /\ ThenPubSub /\ OnlyRegular /\ SubscribedMode /\ UnsubscribeTrue

Pipeline == Open /\ Waited /\ ~Monitored => InStep

InFlight == LastWords /\ (Waited => UnsubscribeLast) /\ Pipeline

-----------------------------------------------------------------------------
(* Regular commands only: a callback waits in the queue or has run.        *)
Pending(i) == \E k \in 1 .. Len(replies) : replies[k].id = i
Ascending == \A k, l \in 1 .. Len(replies) : k < l => replies[k].id < replies[l].id
PendingNotCalled == \A k \in 1 .. Len(replies) : calls[replies[k].id] = <<>>
PendingOrCalled ==
  \A i \in DOMAIN issued :
    Len(calls[i]) <= 1 /\ (issued[i].fn => Pending(i) \/ calls[i] # <<>>)
Once == RegularOnly => Ascending /\ PendingNotCalled /\ PendingOrCalled

(* Only __redisAsyncFree() gives NULL replies, and it finds nothing pending *)
(* after a clean disconnect.                                                *)
NoNulls == \A i \in Ids : \A k \in DOMAIN calls[i] : calls[i][k] # NullReply
CleanlyClosed == closedBy = "user" /\ "FREEING" \notin flags /\ ~broken
Clean ==
  RegularOnly =>
    /\ Open => NoNulls
    /\ CleanlyClosed => replies = <<>> /\ obuf = <<>> /\ NoNulls

(* The replies the callback of command i is for. *)
Fits(i, reply) ==
    \/ reply = NullReply
    \/ reply.what = "unsolicited"
    \/ reply.what = "answer" /\ reply.of = i
    \/ reply.type = "array" /\ issued[i].kind = "subscribe"
         /\ issued[i].topic = reply.topic
Matched ==
  Waited /\ Known /\ ~Monitored =>
    \A i \in DOMAIN issued : \A k \in DOMAIN calls[i] : Fits(i, calls[i][k])

(* A subscriber that no later command replaces, or only UNSUBSCRIBEs       *)
(* follow, is registered or has been told the end.                         *)
Final(i) ==
  /\ issued[i].kind = "subscribe" /\ issued[i].fn
  /\ \A j \in DOMAIN issued : j > i /\ issued[j].topic = issued[i].topic
       => issued[j].kind = "unsubscribe" /\ ~Monitored
Holds(i) ==
  /\ issued[i].topic \in DOMAIN channels
  /\ channels[issued[i].topic].id = i /\ channels[issued[i].topic].fn
TheEnd(r) == r = NullReply \/ r.what = "unsubscribe"
Told(i) == calls[i] # <<>> /\ TheEnd(calls[i][Len(calls[i])])
Dismissed(i) == \E j \in DOMAIN issued : j > i /\ issued[j].topic = issued[i].topic
InformedOf(i) == Final(i) => Holds(i) \/ (Told(i) /\ (Open => Dismissed(i)))
Informed == Waited => \A i \in DOMAIN issued : InformedOf(i)

-----------------------------------------------------------------------------
(* The type invariant, in parts. *)
TControl ==
  /\ at \in {"idle", "read", "write", "process", "callback", "free",
             "freeCallback", "freed", "useAfterFree", "assertionFailed"}
  /\ flags \subseteq {"CONNECTED", "DISCONNECTING", "FREEING", "IN_CALLBACK",
                      "SUBSCRIBED", "MONITORING"}
  /\ ("IN_CALLBACK" \in flags) <=> (at \in {"callback", "freeCallback"})
  /\ closedBy \in {"nobody", "user", "error"}
TEvents ==
  /\ loop \in [adapter : Adapters, firing : {"none", "read", "write"}, stopped : BOOLEAN]
  /\ ev \subseteq {"read", "write"}
TBooleans == err \in BOOLEAN /\ broken \in BOOLEAN /\ monitoring \in BOOLEAN
TServer ==
  /\ subscribed \subseteq Topics /\ IsFiniteSet(subscribed) /\ pushes \in 0 .. MaxPushes
TBuffers ==
  /\ obuf \in Seq(Command) /\ toServer \in Seq(Command)
  /\ inbuf \in Seq(Reply) /\ toClient \in Seq(Reply)
TQueues ==
  /\ replies \in Seq(Callback \cup {NoCallback}) /\ invalid \in Seq(Callback)
  /\ cb \in Callback \cup {NoCallback}
  /\ DOMAIN channels \subseteq Topics
  /\ \A t \in DOMAIN channels : channels[t] \in Callback
THistory ==
  /\ issued \in Seq(Issued) /\ Len(issued) <= MaxCommands
  /\ calls \in [Ids -> Seq(Reply \cup {NullReply})]
  /\ onDisconnect \in Seq({"OK", "ERR"})

LEMMA TypeParts ==
  TypeOK <=> /\ TControl /\ TEvents /\ TBooleans /\ TServer /\ TBuffers
             /\ TQueues /\ THistory
BY DEF TypeOK, TControl, TEvents, TBooleans, TServer, TBuffers, TQueues, THistory

LEMMA ControlTyped == TControl /\ Next => TControl'
<1>0. SUFFICES ASSUME TControl, Next PROVE TControl'  OBVIOUS
<1>1. ASSUME NEW kind \in Kinds, NEW topic \in Topics \cup {NoTopic}, NEW fn \in BOOLEAN,
             kind \in {"subscribe", "unsubscribe"} => topic \in Topics,
             AsyncCommand(kind, topic, fn)
      PROVE  TControl'
  BY <1>0, <1>1 DEF AsyncCommand, TControl
<1>2. CASE AsyncDisconnect
  <2>1. PICK fs : fs = flags \cup {"DISCONNECTING"}  OBVIOUS
  <2>2. CASE "IN_CALLBACK" \notin flags /\ replies = <<>>
    <3>1. at' \in {"free", "assertionFailed"} /\ closedBy' = "user"
      BY <2>2, <1>2 DEF AsyncDisconnect, CloseWith
    <3>2. flags' = fs
      BY <2>1, <2>2, <1>2 DEF AsyncDisconnect, CloseWith
    <3>3. QED  BY <1>0, <2>1, <2>2, <3>1, <3>2 DEF TControl
  <2>3. CASE ~("IN_CALLBACK" \notin flags /\ replies = <<>>)
    <3>1. flags' = fs /\ at' = at /\ closedBy' = closedBy
      BY <2>1, <2>3, <1>2 DEF AsyncDisconnect
    <3>2. QED  BY <1>0, <2>1, <3>1 DEF TControl
  <2>4. QED  BY <2>2, <2>3
<1>3. CASE AsyncFree
  BY <1>0, <1>3 DEF AsyncFree, TControl
<1>4. ASSUME NEW e \in {"read", "write"}, HandleEvent(e)
      PROVE  TControl'
  BY <1>0, <1>4 DEF HandleEvent, CloseWith, TControl
<1>5. CASE LibuvPollError
  BY <1>0, <1>5 DEF LibuvPollError, TControl
<1>6. CASE SecondHandlerUsesFreed
  BY <1>0, <1>6 DEF SecondHandlerUsesFreed, TControl
<1>7. CASE BufferError
  BY <1>0, <1>7 DEF BufferError, CloseWith, TControl
<1>8. CASE BufferRead
  BY <1>0, <1>8 DEF BufferRead, TControl
<1>9. CASE BufferWrite
  BY <1>0, <1>9 DEF BufferWrite, TControl
<1>10. CASE NoMoreReplies
  BY <1>0, <1>10 DEF NoMoreReplies, CloseWith, TControl
<1>11. CASE ProtocolError
  BY <1>0, <1>11 DEF ProtocolError, CloseWith, TControl
<1>12. CASE SpontaneousError
  BY <1>0, <1>12 DEF SpontaneousError, CloseWith, TControl
<1>13. CASE RegularReply
  BY <1>0, <1>13 DEF RegularReply, TakeReply, RunCallback, TControl
<1>14. CASE UnexpectedReply
  BY <1>0, <1>14 DEF UnexpectedReply, TakeReply, TControl
<1>15. CASE SubscribedReply
  BY <1>0, <1>15 DEF SubscribedReply, TakeReply, RunCallback, TControl
<1>16. CASE MonitorReply
  BY <1>0, <1>16 DEF MonitorReply, TakeReply, RunCallback, TControl
<1>17. CASE CallbackReturns
  BY <1>0, <1>17 DEF CallbackReturns, TControl
<1>18. CASE FreeRegular
  BY <1>0, <1>18 DEF FreeRegular, RunCallback, TControl
<1>19. CASE FreeInvalid
  BY <1>0, <1>19 DEF FreeInvalid, RunCallback, TControl
<1>20. ASSUME NEW t \in Topics, FreeChannel(t)
      PROVE  TControl'
  BY <1>0, <1>20 DEF FreeChannel, RunCallback, TControl
<1>21. CASE FreeCallbackReturns
  BY <1>0, <1>21 DEF FreeCallbackReturns, TControl
<1>22. CASE FreeContext
  BY <1>0, <1>22 DEF FreeContext, TControl
<1>23. CASE ServerExecutes
  BY <1>0, <1>23 DEF ServerExecutes, TControl
<1>24. CASE ServerPushes
  BY <1>0, <1>24 DEF ServerPushes, TControl
<1>25. CASE ConnectionBreaks
  BY <1>0, <1>25 DEF ConnectionBreaks, TControl
<1>26. QED
  BY <1>1, <1>2, <1>3, <1>4, <1>5, <1>6, <1>7, <1>8, <1>9, <1>10, <1>11, <1>12, <1>13,
     <1>14, <1>15, <1>16, <1>17, <1>18, <1>19, <1>20, <1>21, <1>22, <1>23, <1>24, <1>25, <1>0, BoolsAssumption
  DEF Next, Application, IssueCommand, Client, Handlers, ProcessCallbacks, Free, Server

LEMMA EventsTyped == TEvents /\ Next => TEvents'
<1>0. SUFFICES ASSUME TEvents, Next PROVE TEvents'  OBVIOUS
<1>1. ASSUME NEW kind \in Kinds, NEW topic \in Topics \cup {NoTopic}, NEW fn \in BOOLEAN,
             kind \in {"subscribe", "unsubscribe"} => topic \in Topics,
             AsyncCommand(kind, topic, fn)
      PROVE  TEvents'
  BY <1>0, <1>1 DEF AsyncCommand, AddEvents, TEvents
<1>2. CASE AsyncDisconnect
  BY <1>0, <1>2 DEF AsyncDisconnect, TEvents
<1>3. CASE AsyncFree
  BY <1>0, <1>3 DEF AsyncFree, TEvents
<1>4. ASSUME NEW e \in {"read", "write"}, HandleEvent(e)
      PROVE  TEvents'
  BY <1>0, <1>4 DEF HandleEvent, Fires, AeFires, LibeventFires, LibuvPoll, GlibDispatch, Reports,
     TEvents
<1>5. CASE LibuvPollError
  BY <1>0, <1>5 DEF LibuvPollError, TEvents
<1>6. CASE SecondHandlerUsesFreed
  BY <1>0, <1>6 DEF SecondHandlerUsesFreed, TEvents
<1>7. CASE BufferError
  BY <1>0, <1>7 DEF BufferError, TEvents
<1>8. CASE BufferRead
  BY <1>0, <1>8 DEF BufferRead, AddEvents, TEvents
<1>9. CASE BufferWrite
  BY <1>0, <1>9 DEF BufferWrite, AddEvents, DelWriteAddRead, TEvents
<1>10. CASE NoMoreReplies
  BY <1>0, <1>10 DEF NoMoreReplies, TEvents
<1>11. CASE ProtocolError
  BY <1>0, <1>11 DEF ProtocolError, TEvents
<1>12. CASE SpontaneousError
  BY <1>0, <1>12 DEF SpontaneousError, TEvents
<1>13. CASE RegularReply
  BY <1>0, <1>13 DEF RegularReply, TakeReply, TEvents
<1>14. CASE UnexpectedReply
  BY <1>0, <1>14 DEF UnexpectedReply, TakeReply, TEvents
<1>15. CASE SubscribedReply
  BY <1>0, <1>15 DEF SubscribedReply, TakeReply, TEvents
<1>16. CASE MonitorReply
  BY <1>0, <1>16 DEF MonitorReply, TakeReply, TEvents
<1>17. CASE CallbackReturns
  BY <1>0, <1>17 DEF CallbackReturns, TEvents
<1>18. CASE FreeRegular
  BY <1>0, <1>18 DEF FreeRegular, TEvents
<1>19. CASE FreeInvalid
  BY <1>0, <1>19 DEF FreeInvalid, TEvents
<1>20. ASSUME NEW t \in Topics, FreeChannel(t)
      PROVE  TEvents'
  BY <1>0, <1>20 DEF FreeChannel, TEvents
<1>21. CASE FreeCallbackReturns
  BY <1>0, <1>21 DEF FreeCallbackReturns, TEvents
<1>22. CASE FreeContext
  BY <1>0, <1>22 DEF FreeContext, Cleanup, TEvents
<1>23. CASE ServerExecutes
  BY <1>0, <1>23 DEF ServerExecutes, TEvents
<1>24. CASE ServerPushes
  BY <1>0, <1>24 DEF ServerPushes, TEvents
<1>25. CASE ConnectionBreaks
  BY <1>0, <1>25 DEF ConnectionBreaks, TEvents
<1>26. QED
  BY <1>1, <1>2, <1>3, <1>4, <1>5, <1>6, <1>7, <1>8, <1>9, <1>10, <1>11, <1>12, <1>13,
     <1>14, <1>15, <1>16, <1>17, <1>18, <1>19, <1>20, <1>21, <1>22, <1>23, <1>24, <1>25, <1>0, BoolsAssumption
  DEF Next, Application, IssueCommand, Client, Handlers, ProcessCallbacks, Free, Server

LEMMA BooleansTyped == TBooleans /\ Next => TBooleans'
<1>0. SUFFICES ASSUME TBooleans, Next PROVE TBooleans'  OBVIOUS
<1>1. ASSUME NEW kind \in Kinds, NEW topic \in Topics \cup {NoTopic}, NEW fn \in BOOLEAN,
             kind \in {"subscribe", "unsubscribe"} => topic \in Topics,
             AsyncCommand(kind, topic, fn)
      PROVE  TBooleans'
  BY <1>0, <1>1 DEF AsyncCommand, TBooleans, socket, server
<1>2. CASE AsyncDisconnect
  BY <1>0, <1>2 DEF AsyncDisconnect, CloseWith, TBooleans, socket, server
<1>3. CASE AsyncFree
  BY <1>0, <1>3 DEF AsyncFree, TBooleans, socket, server
<1>4. ASSUME NEW e \in {"read", "write"}, HandleEvent(e)
      PROVE  TBooleans'
  BY <1>0, <1>4 DEF HandleEvent, CloseWith, TBooleans, socket, server
<1>5. CASE LibuvPollError
  BY <1>0, <1>5 DEF LibuvPollError, TBooleans, socket, server
<1>6. CASE SecondHandlerUsesFreed
  BY <1>0, <1>6 DEF SecondHandlerUsesFreed, TBooleans, socket, server
<1>7. CASE BufferError
  BY <1>0, <1>7 DEF BufferError, CloseWith, TBooleans, socket, server
<1>8. CASE BufferRead
  BY <1>0, <1>8 DEF BufferRead, TBooleans, socket, server
<1>9. CASE BufferWrite
  BY <1>0, <1>9 DEF BufferWrite, TBooleans, socket, server
<1>10. CASE NoMoreReplies
  BY <1>0, <1>10 DEF NoMoreReplies, CloseWith, TBooleans, socket, server
<1>11. CASE ProtocolError
  BY <1>0, <1>11 DEF ProtocolError, CloseWith, TBooleans, socket, server
<1>12. CASE SpontaneousError
  BY <1>0, <1>12 DEF SpontaneousError, CloseWith, TBooleans, socket, server
<1>13. CASE RegularReply
  BY <1>0, <1>13 DEF RegularReply, TakeReply, TBooleans, socket, server
<1>14. CASE UnexpectedReply
  BY <1>0, <1>14 DEF UnexpectedReply, TakeReply, TBooleans, socket, server
<1>15. CASE SubscribedReply
  BY <1>0, <1>15 DEF SubscribedReply, TakeReply, TBooleans, socket, server
<1>16. CASE MonitorReply
  BY <1>0, <1>16 DEF MonitorReply, TakeReply, TBooleans, socket, server
<1>17. CASE CallbackReturns
  BY <1>0, <1>17 DEF CallbackReturns, TBooleans, socket, server
<1>18. CASE FreeRegular
  BY <1>0, <1>18 DEF FreeRegular, TBooleans, socket, server
<1>19. CASE FreeInvalid
  BY <1>0, <1>19 DEF FreeInvalid, TBooleans, socket, server
<1>20. ASSUME NEW t \in Topics, FreeChannel(t)
      PROVE  TBooleans'
  BY <1>0, <1>20 DEF FreeChannel, TBooleans, socket, server
<1>21. CASE FreeCallbackReturns
  BY <1>0, <1>21 DEF FreeCallbackReturns, TBooleans, socket, server
<1>22. CASE FreeContext
  BY <1>0, <1>22 DEF FreeContext, TBooleans, socket, server
<1>23. CASE ServerExecutes
  <2>1. monitoring' \in BOOLEAN /\ err' = err /\ broken' = broken
    BY <1>23 DEF ServerExecutes
  <2>2. QED  BY <1>0, <2>1 DEF TBooleans
<1>24. CASE ServerPushes
  BY <1>0, <1>24 DEF ServerPushes, TBooleans, socket, server
<1>25. CASE ConnectionBreaks
  BY <1>0, <1>25 DEF ConnectionBreaks, TBooleans, socket, server
<1>26. QED
  BY <1>1, <1>2, <1>3, <1>4, <1>5, <1>6, <1>7, <1>8, <1>9, <1>10, <1>11, <1>12, <1>13,
     <1>14, <1>15, <1>16, <1>17, <1>18, <1>19, <1>20, <1>21, <1>22, <1>23, <1>24, <1>25, <1>0, BoolsAssumption
  DEF Next, Application, IssueCommand, Client, Handlers, ProcessCallbacks, Free, Server

LEMMA ServerTyped == TServer /\ TBuffers /\ Next => TServer'
<1>0. SUFFICES ASSUME TServer, TBuffers, Next PROVE TServer'  OBVIOUS
<1>1. ASSUME NEW kind \in Kinds, NEW topic \in Topics \cup {NoTopic}, NEW fn \in BOOLEAN,
             kind \in {"subscribe", "unsubscribe"} => topic \in Topics,
             AsyncCommand(kind, topic, fn)
      PROVE  TServer'
  BY <1>0, <1>1 DEF AsyncCommand, TServer, server
<1>2. CASE AsyncDisconnect
  BY <1>0, <1>2 DEF AsyncDisconnect, TServer, server
<1>3. CASE AsyncFree
  BY <1>0, <1>3 DEF AsyncFree, TServer, server
<1>4. ASSUME NEW e \in {"read", "write"}, HandleEvent(e)
      PROVE  TServer'
  BY <1>0, <1>4 DEF HandleEvent, TServer, server
<1>5. CASE LibuvPollError
  BY <1>0, <1>5 DEF LibuvPollError, TServer, server
<1>6. CASE SecondHandlerUsesFreed
  BY <1>0, <1>6 DEF SecondHandlerUsesFreed, TServer, server
<1>7. CASE BufferError
  BY <1>0, <1>7 DEF BufferError, TServer, server
<1>8. CASE BufferRead
  BY <1>0, <1>8 DEF BufferRead, TServer, server
<1>9. CASE BufferWrite
  BY <1>0, <1>9 DEF BufferWrite, TServer, server
<1>10. CASE NoMoreReplies
  BY <1>0, <1>10 DEF NoMoreReplies, TServer, server
<1>11. CASE ProtocolError
  BY <1>0, <1>11 DEF ProtocolError, TServer, server
<1>12. CASE SpontaneousError
  BY <1>0, <1>12 DEF SpontaneousError, TServer, server
<1>13. CASE RegularReply
  BY <1>0, <1>13 DEF RegularReply, TakeReply, TServer, server
<1>14. CASE UnexpectedReply
  BY <1>0, <1>14 DEF UnexpectedReply, TakeReply, TServer, server
<1>15. CASE SubscribedReply
  BY <1>0, <1>15 DEF SubscribedReply, TakeReply, TServer, server
<1>16. CASE MonitorReply
  BY <1>0, <1>16 DEF MonitorReply, TakeReply, TServer, server
<1>17. CASE CallbackReturns
  BY <1>0, <1>17 DEF CallbackReturns, TServer, server
<1>18. CASE FreeRegular
  BY <1>0, <1>18 DEF FreeRegular, TServer, server
<1>19. CASE FreeInvalid
  BY <1>0, <1>19 DEF FreeInvalid, TServer, server
<1>20. ASSUME NEW t \in Topics, FreeChannel(t)
      PROVE  TServer'
  BY <1>0, <1>20 DEF FreeChannel, TServer, server
<1>21. CASE FreeCallbackReturns
  BY <1>0, <1>21 DEF FreeCallbackReturns, TServer, server
<1>22. CASE FreeContext
  BY <1>0, <1>22 DEF FreeContext, TServer, server
<1>23. CASE ServerExecutes
  <2>1. PICK c \in Command : c = Head(toServer)
    BY <1>0, <1>23 DEF ServerExecutes, TBuffers
  <2>2. /\ pushes' = pushes
        /\ subscribed' = CASE c.kind = "subscribe" -> subscribed \cup {c.topic}
                           [] c.kind = "unsubscribe" -> subscribed \ {c.topic}
                           [] OTHER -> subscribed
    BY <2>1, <1>23 DEF ServerExecutes
  <2>3. IsFiniteSet(subscribed \cup {c.topic}) /\ IsFiniteSet(subscribed \ {c.topic})
    BY <1>0, FS_AddElement, FS_RemoveElement DEF TServer
  <2>4. c.kind = "subscribe" => c.topic \in Topics
    BY <2>1 DEF Command
  <2>5. QED  BY <1>0, <2>2, <2>3, <2>4 DEF TServer
<1>24. CASE ServerPushes
  BY <1>0, <1>24, BoundsAssumption DEF ServerPushes, TServer
<1>25. CASE ConnectionBreaks
  BY <1>0, <1>25 DEF ConnectionBreaks, TServer, server
<1>26. QED
  BY <1>1, <1>2, <1>3, <1>4, <1>5, <1>6, <1>7, <1>8, <1>9, <1>10, <1>11, <1>12, <1>13,
     <1>14, <1>15, <1>16, <1>17, <1>18, <1>19, <1>20, <1>21, <1>22, <1>23, <1>24, <1>25, <1>0, BoolsAssumption
  DEF Next, Application, IssueCommand, Client, Handlers, ProcessCallbacks, Free, Server

LEMMA AnswerTyped ==
  ASSUME TServer, NEW c \in Command
  PROVE  ServerAnswer(c) \in Reply
<1>1. /\ Cardinality(subscribed \cup {c.topic}) \in Nat
      /\ Cardinality(subscribed \ {c.topic}) \in Nat
  BY FS_AddElement, FS_RemoveElement, FS_CardinalityType DEF TServer
<1>2. c.id \in Ids /\ c.topic \in Topics \cup {NoTopic}
  BY DEF Command
<1>3. QED  BY <1>1, <1>2 DEF ServerAnswer, PubSub, Plain, NullReply, Reply

LEMMA BuffersTyped == TBuffers /\ TServer /\ Next => TBuffers'
<1>0. SUFFICES ASSUME TBuffers, TServer, Next PROVE TBuffers'  OBVIOUS
<1>1. ASSUME NEW kind \in Kinds, NEW topic \in Topics \cup {NoTopic}, NEW fn \in BOOLEAN,
             kind \in {"subscribe", "unsubscribe"} => topic \in Topics,
             AsyncCommand(kind, topic, fn)
      PROVE  TBuffers'
  <2>1. Len(issued) + 1 \in Ids
    BY <1>1 DEF AsyncCommand
  <2>2. [id |-> Len(issued) + 1, kind |-> kind, topic |-> topic] \in Command
    BY <1>1, <2>1 DEF Command
  <2>3. QED  BY <1>0, <1>1, <2>2 DEF AsyncCommand, TBuffers, socket
<1>2. CASE AsyncDisconnect
  BY <1>0, <1>2 DEF AsyncDisconnect, TBuffers, socket
<1>3. CASE AsyncFree
  BY <1>0, <1>3 DEF AsyncFree, TBuffers, socket
<1>4. ASSUME NEW e \in {"read", "write"}, HandleEvent(e)
      PROVE  TBuffers'
  BY <1>0, <1>4 DEF HandleEvent, TBuffers, socket
<1>5. CASE LibuvPollError
  BY <1>0, <1>5 DEF LibuvPollError, TBuffers, socket
<1>6. CASE SecondHandlerUsesFreed
  BY <1>0, <1>6 DEF SecondHandlerUsesFreed, TBuffers, socket
<1>7. CASE BufferError
  BY <1>0, <1>7 DEF BufferError, TBuffers, socket
<1>8. CASE BufferRead
  <2>1. PICK n \in 0 .. Len(toClient) :
          /\ inbuf' = inbuf \o SubSeq(toClient, 1, n)
          /\ toClient' = SubSeq(toClient, n + 1, Len(toClient))
    BY <1>8 DEF BufferRead
  <2>2. obuf' = obuf /\ toServer' = toServer
    BY <1>8 DEF BufferRead
  <2>3. SubSeq(toClient, 1, n) \in Seq(Reply) /\ toClient' \in Seq(Reply)
    BY <1>0, <2>1 DEF TBuffers
  <2>4. QED  BY <1>0, <2>1, <2>2, <2>3 DEF TBuffers
<1>9. CASE BufferWrite
  <2>1. PICK n \in 0 .. Len(obuf) :
          /\ toServer' = toServer \o SubSeq(obuf, 1, n)
          /\ obuf' = SubSeq(obuf, n + 1, Len(obuf))
    BY <1>9 DEF BufferWrite
  <2>2. inbuf' = inbuf /\ toClient' = toClient
    BY <1>9 DEF BufferWrite
  <2>3. SubSeq(obuf, 1, n) \in Seq(Command) /\ obuf' \in Seq(Command)
    BY <1>0, <2>1 DEF TBuffers
  <2>4. QED  BY <1>0, <2>1, <2>2, <2>3 DEF TBuffers
<1>10. CASE NoMoreReplies
  BY <1>0, <1>10 DEF NoMoreReplies, TBuffers, socket
<1>11. CASE ProtocolError
  BY <1>0, <1>11 DEF ProtocolError, TBuffers, socket
<1>12. CASE SpontaneousError
  BY <1>0, <1>12 DEF SpontaneousError, TBuffers, socket
<1>13. CASE RegularReply
  BY <1>0, <1>13 DEF RegularReply, TakeReply, TBuffers, socket
<1>14. CASE UnexpectedReply
  BY <1>0, <1>14 DEF UnexpectedReply, TakeReply, TBuffers, socket
<1>15. CASE SubscribedReply
  BY <1>0, <1>15 DEF SubscribedReply, TakeReply, TBuffers, socket
<1>16. CASE MonitorReply
  BY <1>0, <1>16 DEF MonitorReply, TakeReply, TBuffers, socket
<1>17. CASE CallbackReturns
  BY <1>0, <1>17 DEF CallbackReturns, TBuffers, socket
<1>18. CASE FreeRegular
  BY <1>0, <1>18 DEF FreeRegular, TBuffers, socket
<1>19. CASE FreeInvalid
  BY <1>0, <1>19 DEF FreeInvalid, TBuffers, socket
<1>20. ASSUME NEW t \in Topics, FreeChannel(t)
      PROVE  TBuffers'
  BY <1>0, <1>20 DEF FreeChannel, TBuffers, socket
<1>21. CASE FreeCallbackReturns
  BY <1>0, <1>21 DEF FreeCallbackReturns, TBuffers, socket
<1>22. CASE FreeContext
  BY <1>0, <1>22 DEF FreeContext, TBuffers, socket
<1>23. CASE ServerExecutes
  <2>1. PICK c \in Command : c = Head(toServer)
    BY <1>0, <1>23 DEF ServerExecutes, TBuffers
  <2>2. /\ toServer' = Tail(toServer) /\ toServer # <<>>
        /\ toClient' = Append(toClient, ServerAnswer(c))
        /\ obuf' = obuf /\ inbuf' = inbuf
    BY <2>1, <1>23 DEF ServerExecutes
  <2>3. ServerAnswer(c) \in Reply
    BY <1>0, AnswerTyped
  <2>4. QED  BY <1>0, <2>2, <2>3 DEF TBuffers
<1>24. CASE ServerPushes
  <2>1. PICK r : r \in Reply /\ toClient' = Append(toClient, r)
    BY <1>0, <1>24 DEF ServerPushes, PubSub, Plain, NullReply, Reply, TServer
  <2>2. QED  BY <1>0, <1>24, <2>1 DEF ServerPushes, TBuffers
<1>25. CASE ConnectionBreaks
  <2>1. \A type \in {"error", "garbage"} : Plain(type, "unsolicited", 0) \in Reply
    BY DEF Plain, NullReply, Reply
  <2>2. toClient' = toClient \/ \E r \in Reply : toClient' = Append(toClient, r)
    BY <1>25, <2>1 DEF ConnectionBreaks
  <2>5. toClient' \in Seq(Reply)
    <3>1. CASE toClient' = toClient
      BY <1>0, <3>1 DEF TBuffers
    <3>2. CASE \E r \in Reply : toClient' = Append(toClient, r)
      BY <1>0, <3>2, AppendProperties DEF TBuffers
    <3>3. QED  BY <2>2, <3>1, <3>2
  <2>6. QED  BY <1>0, <1>25, <2>5 DEF ConnectionBreaks, TBuffers
<1>26. QED
  BY <1>1, <1>2, <1>3, <1>4, <1>5, <1>6, <1>7, <1>8, <1>9, <1>10, <1>11, <1>12, <1>13,
     <1>14, <1>15, <1>16, <1>17, <1>18, <1>19, <1>20, <1>21, <1>22, <1>23, <1>24, <1>25, <1>0, BoolsAssumption
  DEF Next, Application, IssueCommand, Client, Handlers, ProcessCallbacks, Free, Server

LEMMA QueuesTyped == TQueues /\ TBuffers /\ Next => TQueues'
<1>0. SUFFICES ASSUME TQueues, TBuffers, Next PROVE TQueues'  OBVIOUS
<1>1. ASSUME NEW kind \in Kinds, NEW topic \in Topics \cup {NoTopic}, NEW fn \in BOOLEAN,
             kind \in {"subscribe", "unsubscribe"} => topic \in Topics,
             AsyncCommand(kind, topic, fn)
      PROVE  TQueues'
  <2>1. PICK c \in Callback : c = [id |-> Len(issued) + 1, fn |-> fn]
    BY <1>1 DEF AsyncCommand, Callback
  <2>2. /\ channels' = IF kind = "subscribe" THEN Replace(channels, topic, c) ELSE channels
        /\ invalid' \in {invalid, Append(invalid, c)}
        /\ replies' \in {replies, Append(replies, c)}
        /\ cb' = cb
    BY <2>1, <1>1 DEF AsyncCommand
  <2>3. DOMAIN channels' \subseteq Topics /\ \A t \in DOMAIN channels' : channels'[t] \in Callback
    BY <1>0, <1>1, <2>2 DEF Replace, TQueues
  <2>4. /\ replies \in Seq(Callback \cup {NoCallback}) /\ invalid \in Seq(Callback)
        /\ c \in Callback \cup {NoCallback}
    BY <1>0, <2>1 DEF TQueues
  <2>5. invalid' \in Seq(Callback)
    BY <2>2, <2>4, AppendProperties
  <2>6. replies' \in Seq(Callback \cup {NoCallback})
    BY <2>2, <2>4, AppendProperties
  <2>7. QED  BY <1>0, <2>2, <2>3, <2>5, <2>6 DEF TQueues
<1>2. CASE AsyncDisconnect
  BY <1>0, <1>2 DEF AsyncDisconnect, TQueues, queues
<1>3. CASE AsyncFree
  BY <1>0, <1>3 DEF AsyncFree, TQueues, queues
<1>4. ASSUME NEW e \in {"read", "write"}, HandleEvent(e)
      PROVE  TQueues'
  BY <1>0, <1>4 DEF HandleEvent, TQueues, queues
<1>5. CASE LibuvPollError
  BY <1>0, <1>5 DEF LibuvPollError, TQueues, queues
<1>6. CASE SecondHandlerUsesFreed
  BY <1>0, <1>6 DEF SecondHandlerUsesFreed, TQueues, queues
<1>7. CASE BufferError
  BY <1>0, <1>7 DEF BufferError, TQueues, queues
<1>8. CASE BufferRead
  BY <1>0, <1>8 DEF BufferRead, TQueues, queues, NoCallback
<1>9. CASE BufferWrite
  BY <1>0, <1>9 DEF BufferWrite, TQueues, queues
<1>10. CASE NoMoreReplies
  BY <1>0, <1>10 DEF NoMoreReplies, TQueues, queues
<1>11. CASE ProtocolError
  BY <1>0, <1>11 DEF ProtocolError, TQueues, queues
<1>12. CASE SpontaneousError
  BY <1>0, <1>12 DEF SpontaneousError, TQueues, queues
<1>13. CASE RegularReply
  BY <1>0, <1>13 DEF RegularReply, TakeReply, TQueues, queues
<1>14. CASE UnexpectedReply
  BY <1>0, <1>14 DEF UnexpectedReply, TakeReply, TQueues, queues
<1>15. CASE SubscribedReply
  <2>1. PICK r : r = Head(inbuf)  OBVIOUS
  <2>2. cb' = cb \/ (r.topic \in DOMAIN channels /\ cb' = channels[r.topic])
            \/ (invalid # <<>> /\ cb' = Head(invalid))
    BY <2>1, <1>15 DEF SubscribedReply
  <2>3. channels' = channels \/ channels' = [u \in DOMAIN channels \ {r.topic} |-> channels[u]]
    BY <2>1, <1>15 DEF SubscribedReply
  <2>4. replies' = replies /\ (invalid' = invalid \/ (invalid # <<>> /\ invalid' = Tail(invalid)))
    BY <2>1, <1>15 DEF SubscribedReply
  <2>5. cb' \in Callback \cup {NoCallback}
    BY <1>0, <2>2 DEF TQueues
  <2>6. DOMAIN channels' \subseteq Topics /\ \A u \in DOMAIN channels' : channels'[u] \in Callback
    BY <1>0, <2>3 DEF TQueues
  <2>7. QED  BY <1>0, <2>4, <2>5, <2>6 DEF TQueues
<1>16. CASE MonitorReply
  BY <1>0, <1>16 DEF MonitorReply, TakeReply, TQueues, queues
<1>17. CASE CallbackReturns
  BY <1>0, <1>17 DEF CallbackReturns, TQueues, queues
<1>18. CASE FreeRegular
  BY <1>0, <1>18 DEF FreeRegular, TQueues, queues
<1>19. CASE FreeInvalid
  BY <1>0, <1>19 DEF FreeInvalid, TQueues, queues
<1>20. ASSUME NEW t \in Topics, FreeChannel(t)
      PROVE  TQueues'
  BY <1>0, <1>20 DEF FreeChannel, TQueues
<1>21. CASE FreeCallbackReturns
  BY <1>0, <1>21 DEF FreeCallbackReturns, TQueues, queues
<1>22. CASE FreeContext
  BY <1>0, <1>22 DEF FreeContext, TQueues, queues
<1>23. CASE ServerExecutes
  BY <1>0, <1>23 DEF ServerExecutes, TQueues, queues
<1>24. CASE ServerPushes
  BY <1>0, <1>24 DEF ServerPushes, TQueues, queues
<1>25. CASE ConnectionBreaks
  BY <1>0, <1>25 DEF ConnectionBreaks, TQueues, queues
<1>26. QED
  BY <1>1, <1>2, <1>3, <1>4, <1>5, <1>6, <1>7, <1>8, <1>9, <1>10, <1>11, <1>12, <1>13,
     <1>14, <1>15, <1>16, <1>17, <1>18, <1>19, <1>20, <1>21, <1>22, <1>23, <1>24, <1>25, <1>0, BoolsAssumption
  DEF Next, Application, IssueCommand, Client, Handlers, ProcessCallbacks, Free, Server

(* A callback that runs is that of a command, and is given a reply. *)
LEMMA CallsTyped ==
  ASSUME calls \in [Ids -> Seq(Reply \cup {NullReply})],
         NEW c \in Callback \cup {NoCallback}, NEW r \in Reply \cup {NullReply},
         NEW fs, NEW inside, NEW skip, RunCallback(c, r, fs, inside, skip)
  PROVE  calls' \in [Ids -> Seq(Reply \cup {NullReply})]
<1>1. CASE c.fn
  <2>1. c.id \in Ids
    BY <1>1 DEF Callback, NoCallback
  <2>2. calls' = [calls EXCEPT ![c.id] = Append(@, r)]
    BY <1>1 DEF RunCallback
  <2>3. Append(calls[c.id], r) \in Seq(Reply \cup {NullReply})
    BY <2>1, AppendProperties
  <2>4. QED  BY <2>1, <2>2, <2>3
<1>2. CASE ~c.fn
  BY <1>2 DEF RunCallback
<1>3. QED  BY <1>1, <1>2

LEMMA HistoryTyped == THistory /\ TQueues /\ TBuffers /\ Next => THistory'
<1>0. SUFFICES ASSUME THistory, TQueues, TBuffers, Next PROVE THistory'  OBVIOUS
<1>a. TQueues'
  BY <1>0, QueuesTyped
<1>b. \A r \in Reply : r \in Reply \cup {NullReply}
  OBVIOUS
<1>1. ASSUME NEW kind \in Kinds, NEW topic \in Topics \cup {NoTopic}, NEW fn \in BOOLEAN,
             kind \in {"subscribe", "unsubscribe"} => topic \in Topics,
             AsyncCommand(kind, topic, fn)
      PROVE  THistory'
  <2>1. PICK c \in Issued : issued' = Append(issued, c) /\ Len(issued) + 1 \in Ids
    <3>1. PICK w \in BOOLEAN : w = ~Unsubscribing  BY Zenon
    <3>2. PICK k \in BOOLEAN : k = (kind = "unsubscribe" => topic \in DOMAIN channels)  BY Zenon
    <3>3. [kind |-> kind, topic |-> topic, fn |-> fn, waited |-> w, known |-> k] \in Issued
      BY <1>1 DEF Issued
    <3>4. issued' = Append(issued, [kind |-> kind, topic |-> topic, fn |-> fn, waited |-> w,
                                    known |-> k])
      BY <1>1, <3>1, <3>2, Zenon DEF AsyncCommand
    <3>5. Len(issued) + 1 \in Ids
      BY <1>1 DEF AsyncCommand
    <3>6. QED  BY <3>3, <3>4, <3>5
  <2>2. issued' \in Seq(Issued) /\ Len(issued') <= MaxCommands
    BY <1>0, <2>1, BoundsAssumption, AppendProperties DEF THistory, Ids
  <2>3. QED  BY <1>0, <1>1, <2>2 DEF AsyncCommand, THistory
<1>2. CASE AsyncDisconnect
  BY <1>0, <1>2 DEF AsyncDisconnect, THistory
<1>3. CASE AsyncFree
  BY <1>0, <1>3 DEF AsyncFree, THistory
<1>4. ASSUME NEW e \in {"read", "write"}, HandleEvent(e)
      PROVE  THistory'
  BY <1>0, <1>4 DEF HandleEvent, THistory
<1>5. CASE LibuvPollError
  BY <1>0, <1>5 DEF LibuvPollError, THistory
<1>6. CASE SecondHandlerUsesFreed
  BY <1>0, <1>6 DEF SecondHandlerUsesFreed, THistory
<1>7. CASE BufferError
  BY <1>0, <1>7 DEF BufferError, THistory
<1>8. CASE BufferRead
  BY <1>0, <1>8 DEF BufferRead, THistory
<1>9. CASE BufferWrite
  BY <1>0, <1>9 DEF BufferWrite, THistory
<1>10. CASE NoMoreReplies
  BY <1>0, <1>10 DEF NoMoreReplies, THistory
<1>11. CASE ProtocolError
  BY <1>0, <1>11 DEF ProtocolError, THistory
<1>12. CASE SpontaneousError
  BY <1>0, <1>12 DEF SpontaneousError, THistory
<1>13. CASE RegularReply
  <2>1. Head(inbuf) \in Reply \cup {NullReply} /\ Head(replies) \in Callback \cup {NoCallback}
    BY <1>0, <1>13 DEF RegularReply, TakeReply, TBuffers, TQueues
  <2>2. calls' \in [Ids -> Seq(Reply \cup {NullReply})]
    BY <1>0, <2>1, <1>13, CallsTyped DEF RegularReply, THistory
  <2>3. QED  BY <1>0, <1>13, <2>2 DEF RegularReply, THistory
<1>14. CASE UnexpectedReply
  BY <1>0, <1>14 DEF UnexpectedReply, TakeReply, THistory
<1>15. CASE SubscribedReply
  <2>1. PICK r \in Reply : r = Head(inbuf)
    BY <1>0, <1>15 DEF SubscribedReply, TakeReply, TBuffers
  <2>2. PICK c \in Callback \cup {NoCallback} : c = cb'
    BY <1>a DEF TQueues
  <2>3. \E fs : RunCallback(c, r, fs, "callback", "process")
    BY <2>1, <2>2, <1>15 DEF SubscribedReply
  <2>4. calls' \in [Ids -> Seq(Reply \cup {NullReply})]
    BY <1>0, <1>b, <2>1, <2>3, CallsTyped DEF THistory
  <2>5. QED  BY <1>0, <1>15, <2>4 DEF SubscribedReply, THistory
<1>16. CASE MonitorReply
  <2>1. Head(inbuf) \in Reply \cup {NullReply} /\ cb \in Callback \cup {NoCallback}
    BY <1>0, <1>16 DEF MonitorReply, TakeReply, TBuffers, TQueues
  <2>2. calls' \in [Ids -> Seq(Reply \cup {NullReply})]
    BY <1>0, <2>1, <1>16, CallsTyped DEF MonitorReply, THistory
  <2>3. QED  BY <1>0, <1>16, <2>2 DEF MonitorReply, THistory
<1>17. CASE CallbackReturns
  BY <1>0, <1>17 DEF CallbackReturns, THistory
<1>18. CASE FreeRegular
  <2>1. NullReply \in Reply \cup {NullReply} /\ Head(replies) \in Callback \cup {NoCallback}
    BY <1>0, <1>18 DEF FreeRegular, TQueues
  <2>2. calls' \in [Ids -> Seq(Reply \cup {NullReply})]
    BY <1>0, <2>1, <1>18, CallsTyped DEF FreeRegular, THistory
  <2>3. QED  BY <1>0, <1>18, <2>2 DEF FreeRegular, THistory
<1>19. CASE FreeInvalid
  <2>1. NullReply \in Reply \cup {NullReply} /\ Head(invalid) \in Callback \cup {NoCallback}
    BY <1>0, <1>19 DEF FreeInvalid, TQueues
  <2>2. calls' \in [Ids -> Seq(Reply \cup {NullReply})]
    BY <1>0, <2>1, <1>19, CallsTyped DEF FreeInvalid, THistory
  <2>3. QED  BY <1>0, <1>19, <2>2 DEF FreeInvalid, THistory
<1>20. ASSUME NEW t \in Topics, FreeChannel(t)
      PROVE  THistory'
  <2>1. NullReply \in Reply \cup {NullReply} /\ channels[t] \in Callback \cup {NoCallback}
    BY <1>0, <1>20 DEF FreeChannel, TQueues
  <2>2. calls' \in [Ids -> Seq(Reply \cup {NullReply})]
    BY <1>0, <2>1, <1>20, CallsTyped DEF FreeChannel, THistory
  <2>3. QED  BY <1>0, <1>20, <2>2 DEF FreeChannel, THistory
<1>21. CASE FreeCallbackReturns
  BY <1>0, <1>21 DEF FreeCallbackReturns, THistory
<1>22. CASE FreeContext
  <2>1. onDisconnect' \in {onDisconnect, Append(onDisconnect, "OK"), Append(onDisconnect, "ERR")}
    BY <1>22 DEF FreeContext
  <2>2. QED  BY <1>0, <1>22, <2>1 DEF FreeContext, THistory
<1>23. CASE ServerExecutes
  BY <1>0, <1>23 DEF ServerExecutes, THistory
<1>24. CASE ServerPushes
  BY <1>0, <1>24 DEF ServerPushes, THistory
<1>25. CASE ConnectionBreaks
  BY <1>0, <1>25 DEF ConnectionBreaks, THistory
<1>26. QED
  BY <1>1, <1>2, <1>3, <1>4, <1>5, <1>6, <1>7, <1>8, <1>9, <1>10, <1>11, <1>12, <1>13,
     <1>14, <1>15, <1>16, <1>17, <1>18, <1>19, <1>20, <1>21, <1>22, <1>23, <1>24, <1>25, <1>0, BoolsAssumption
  DEF Next, Application, IssueCommand, Client, Handlers, ProcessCallbacks, Free, Server

LEMMA TypeStep == TypeOK /\ [Next]_vars => TypeOK'
<1>0. SUFFICES ASSUME TypeOK, [Next]_vars PROVE TypeOK'  OBVIOUS
<1>1. CASE Next
  <2>1. TControl /\ TEvents /\ TBooleans /\ TServer /\ TBuffers /\ TQueues /\ THistory
    BY <1>0, TypeParts
  <2>2. TControl' /\ TEvents' /\ TBooleans' /\ TServer' /\ TBuffers' /\ TQueues' /\ THistory'
    BY <1>1, <2>1, ControlTyped, EventsTyped, BooleansTyped, ServerTyped, BuffersTyped,
       QueuesTyped, HistoryTyped
  <2>3. QED  BY <2>2, TypeParts, PTL
<1>2. CASE UNCHANGED vars
  BY <1>0, <1>2 DEF vars, queues, socket, server, TypeOK
<1>3. QED  BY <1>0, <1>1, <1>2

LEMMA TypeInit == Init => TypeOK
<1>0. SUFFICES ASSUME Init PROVE TypeOK  OBVIOUS
<1>1. TControl
  BY <1>0 DEF Init, TControl
<1>2. TEvents
  BY <1>0, AdaptersAssumption DEF Init, Attached, TEvents
<1>3. TBooleans
  BY <1>0, Zenon DEF Init, TBooleans
<1>8. TBuffers
  BY <1>0 DEF Init, TBuffers
<1>4. TServer
  BY <1>0, BoundsAssumption, FS_EmptySet DEF Init, TServer
<1>5. TQueues
  BY <1>0 DEF Init, TQueues
<1>6. THistory
  BY <1>0, BoundsAssumption DEF Init, THistory
<1>7. QED  BY <1>1, <1>2, <1>3, <1>4, <1>5, <1>6, <1>8, TypeParts

(***************************************************************************)
(* The state of the asynchronous context, the connection and the server    *)
(* keeps its types, and REDIS_IN_CALLBACK is set exactly while one of the  *)
(* application's callbacks runs.                                           *)
(***************************************************************************)
THEOREM TypeCorrect == Spec => []TypeOK
BY TypeInit, TypeStep, PTL DEF Spec

-----------------------------------------------------------------------------
(* How the context ends. *)

LEMMA ControlStep == TControl /\ TBooleans /\ Control /\ Next => Control'
<1>0. SUFFICES ASSUME TControl, TBooleans, Control, Next PROVE Control'  OBVIOUS
<1>a. /\ Open <=> at \in {"idle", "read", "write", "process", "callback"}
      /\ Freed <=> at \in {"freed", "useAfterFree"}
  BY DEF Open, Freed
<1>b. /\ Open' <=> at' \in {"idle", "read", "write", "process", "callback"}
      /\ Freed' <=> at' \in {"freed", "useAfterFree"}
  BY DEF Open, Freed
<1>1. ASSUME NEW kind \in Kinds, NEW topic \in Topics \cup {NoTopic}, NEW fn \in BOOLEAN,
             kind \in {"subscribe", "unsubscribe"} => topic \in Topics,
             AsyncCommand(kind, topic, fn)
      PROVE  Control'
  BY <1>0, <1>a, <1>b, <1>1 DEF AsyncCommand, AppRuns, Accepted, Control, TControl
<1>2. CASE AsyncDisconnect
  <2>1. at \in {"idle", "callback", "freeCallback"}
    BY <1>2 DEF AsyncDisconnect, AppRuns
  <2>2. CASE "IN_CALLBACK" \notin flags /\ replies = <<>>
    <3>1. /\ err' = err /\ closedBy' = "user" /\ onDisconnect' = onDisconnect
          /\ at' = IF ~err /\ replies # <<>> THEN "assertionFailed" ELSE "free"
          /\ "DISCONNECTING" \in flags'
      BY <2>2, <1>2 DEF AsyncDisconnect, CloseWith
    <3>2. at = "idle"
      BY <1>0, <2>1, <2>2 DEF TControl
    <3>3. QED  BY <1>0, <1>a, <1>b, <3>1, <3>2 DEF Control
  <2>3. CASE ~("IN_CALLBACK" \notin flags /\ replies = <<>>)
    <3>1. /\ at' = at /\ closedBy' = closedBy /\ err' = err /\ onDisconnect' = onDisconnect
          /\ flags \subseteq flags'
      BY <2>3, <1>2 DEF AsyncDisconnect
    <3>2. QED  BY <1>0, <1>a, <1>b, <2>1, <3>1 DEF Control
  <2>4. QED  BY <2>2, <2>3
<1>3. CASE AsyncFree
  BY <1>0, <1>a, <1>b, <1>3 DEF AsyncFree, AppRuns, Control, TControl
<1>4. ASSUME NEW e \in {"read", "write"}, HandleEvent(e)
      PROVE  Control'
  BY <1>0, <1>a, <1>b, <1>4 DEF HandleEvent, CloseWith, Control, TControl, TBooleans, queues
<1>5. CASE LibuvPollError
  BY <1>0, <1>a, <1>b, <1>5 DEF LibuvPollError, Control, TControl, queues
<1>6. CASE SecondHandlerUsesFreed
  BY <1>0, <1>a, <1>b, <1>6 DEF SecondHandlerUsesFreed, Control, TControl, queues
<1>7. CASE BufferError
  BY <1>0, <1>a, <1>b, <1>7 DEF BufferError, CloseWith, Control, TControl, TBooleans, queues
<1>8. CASE BufferRead
  BY <1>0, <1>a, <1>b, <1>8 DEF BufferRead, Control, TControl, queues
<1>9. CASE BufferWrite
  BY <1>0, <1>a, <1>b, <1>9 DEF BufferWrite, Control, TControl, queues
<1>10. CASE NoMoreReplies
  BY <1>0, <1>a, <1>b, <1>10 DEF NoMoreReplies, CloseWith, Control, TControl, TBooleans, queues
<1>11. CASE ProtocolError
  BY <1>0, <1>a, <1>b, <1>11 DEF ProtocolError, CloseWith, Control, TControl, TBooleans, queues
<1>12. CASE SpontaneousError
  BY <1>0, <1>a, <1>b, <1>12 DEF SpontaneousError, CloseWith, Control, TControl, TBooleans, queues
<1>13. CASE RegularReply
  BY <1>0, <1>a, <1>b, <1>13 DEF RegularReply, TakeReply, RunCallback, Control, TControl
<1>14. CASE UnexpectedReply
  BY <1>0, <1>a, <1>b, <1>14 DEF UnexpectedReply, TakeReply, Control, TControl, queues
<1>15. CASE SubscribedReply
  BY <1>0, <1>a, <1>b, <1>15 DEF SubscribedReply, TakeReply, RunCallback, Control, TControl
<1>16. CASE MonitorReply
  BY <1>0, <1>a, <1>b, <1>16 DEF MonitorReply, TakeReply, RunCallback, Control, TControl
<1>17. CASE CallbackReturns
  BY <1>0, <1>a, <1>b, <1>17 DEF CallbackReturns, Control, TControl, queues
<1>18. CASE FreeRegular
  BY <1>0, <1>a, <1>b, <1>18 DEF FreeRegular, RunCallback, Control, TControl
<1>19. CASE FreeInvalid
  BY <1>0, <1>a, <1>b, <1>19 DEF FreeInvalid, RunCallback, Control, TControl
<1>20. ASSUME NEW t \in Topics, FreeChannel(t)
      PROVE  Control'
  BY <1>0, <1>a, <1>b, <1>20 DEF FreeChannel, RunCallback, Control, TControl
<1>21. CASE FreeCallbackReturns
  BY <1>0, <1>a, <1>b, <1>21 DEF FreeCallbackReturns, Control, TControl, queues
<1>22. CASE FreeContext
  BY <1>0, <1>a, <1>b, <1>22 DEF FreeContext, Control, TControl, queues
<1>23. CASE ServerExecutes
  BY <1>0, <1>a, <1>b, <1>23 DEF ServerExecutes, Control, TControl, queues
<1>24. CASE ServerPushes
  BY <1>0, <1>a, <1>b, <1>24 DEF ServerPushes, Control, TControl, queues
<1>25. CASE ConnectionBreaks
  BY <1>0, <1>a, <1>b, <1>25 DEF ConnectionBreaks, Control, TControl, queues
<1>26. QED
  BY <1>1, <1>2, <1>3, <1>4, <1>5, <1>6, <1>7, <1>8, <1>9, <1>10, <1>11, <1>12, <1>13,
     <1>14, <1>15, <1>16, <1>17, <1>18, <1>19, <1>20, <1>21, <1>22, <1>23, <1>24, <1>25, <1>0, BoolsAssumption
  DEF Next, Application, IssueCommand, Client, Handlers, ProcessCallbacks, Free, Server

LEMMA ReportStep ==
  TControl /\ TBooleans /\ THistory /\ Control /\ DisconnectReported /\ Next
    => DisconnectReported'
<1>0. SUFFICES ASSUME TControl, TBooleans, THistory, Control, DisconnectReported, Next
               PROVE  DisconnectReported'
  OBVIOUS
<1>a. /\ Open <=> at \in {"idle", "read", "write", "process", "callback"}
      /\ Freed <=> at \in {"freed", "useAfterFree"}
      /\ Freed' <=> at' \in {"freed", "useAfterFree"}
  BY DEF Open, Freed
<1>b. ASSUME ~Freed', onDisconnect' = onDisconnect, ~Freed PROVE DisconnectReported'
  BY <1>0, <1>b DEF Control, DisconnectReported
<1>1. ASSUME NEW kind \in Kinds, NEW topic \in Topics \cup {NoTopic}, NEW fn \in BOOLEAN,
             kind \in {"subscribe", "unsubscribe"} => topic \in Topics,
             AsyncCommand(kind, topic, fn)
      PROVE  DisconnectReported'
  BY <1>a, <1>b, <1>1 DEF AsyncCommand, AppRuns
<1>2. CASE AsyncDisconnect
  BY <1>a, <1>b, <1>2 DEF AsyncDisconnect, CloseWith, AppRuns
<1>3. CASE AsyncFree
  BY <1>a, <1>b, <1>3 DEF AsyncFree, AppRuns
<1>4. ASSUME NEW e \in {"read", "write"}, HandleEvent(e)
      PROVE  DisconnectReported'
  BY <1>a, <1>b, <1>4 DEF HandleEvent, CloseWith, AppRuns
<1>5. CASE LibuvPollError
  BY <1>0, <1>a, <1>5 DEF LibuvPollError, DisconnectReported
<1>6. CASE SecondHandlerUsesFreed
  BY <1>0, <1>a, <1>6 DEF SecondHandlerUsesFreed, DisconnectReported
<1>7. CASE BufferError
  BY <1>a, <1>b, <1>7 DEF BufferError, CloseWith, AppRuns
<1>8. CASE BufferRead
  BY <1>a, <1>b, <1>8 DEF BufferRead
<1>9. CASE BufferWrite
  BY <1>a, <1>b, <1>9 DEF BufferWrite
<1>10. CASE NoMoreReplies
  BY <1>a, <1>b, <1>10 DEF NoMoreReplies, CloseWith, AppRuns
<1>11. CASE ProtocolError
  BY <1>a, <1>b, <1>11 DEF ProtocolError, CloseWith, AppRuns
<1>12. CASE SpontaneousError
  BY <1>a, <1>b, <1>12 DEF SpontaneousError, CloseWith, AppRuns
<1>13. CASE RegularReply
  BY <1>a, <1>b, <1>13 DEF RegularReply, TakeReply, RunCallback
<1>14. CASE UnexpectedReply
  BY <1>a, <1>b, <1>14 DEF UnexpectedReply, TakeReply
<1>15. CASE SubscribedReply
  BY <1>a, <1>b, <1>15 DEF SubscribedReply, TakeReply, RunCallback
<1>16. CASE MonitorReply
  BY <1>a, <1>b, <1>16 DEF MonitorReply, TakeReply, RunCallback
<1>17. CASE CallbackReturns
  BY <1>a, <1>b, <1>17 DEF CallbackReturns
<1>18. CASE FreeRegular
  BY <1>a, <1>b, <1>18 DEF FreeRegular, RunCallback
<1>19. CASE FreeInvalid
  BY <1>a, <1>b, <1>19 DEF FreeInvalid, RunCallback
<1>20. ASSUME NEW t \in Topics, FreeChannel(t)
      PROVE  DisconnectReported'
  BY <1>a, <1>b, <1>20 DEF FreeChannel, RunCallback
<1>21. CASE FreeCallbackReturns
  BY <1>a, <1>b, <1>21 DEF FreeCallbackReturns
<1>22. CASE FreeContext
  <2>1. onDisconnect = <<>> /\ Freed' /\ flags' = flags /\ closedBy' = closedBy
    BY <1>0, <1>a, <1>22 DEF FreeContext, Control
  <2>2. CASE "CONNECTED" \notin flags
    BY <2>1, <2>2, <1>22 DEF FreeContext, DisconnectReported
  <2>3. CASE "CONNECTED" \in flags
    <3>1. PICK r : onDisconnect' = Append(<<>>, r) /\ r = IF "FREEING" \in flags \/ ~err THEN "OK" ELSE "ERR"
      BY <2>1, <2>3, <1>22 DEF FreeContext
    <3>2. Len(onDisconnect') = 1 /\ onDisconnect'[1] = r
      BY <3>1
    <3>3. closedBy = "user" => r = "OK"
      BY <1>0, <3>1 DEF Control
    <3>4. QED  BY <2>1, <2>3, <3>2, <3>3 DEF DisconnectReported
  <2>4. QED  BY <2>2, <2>3
<1>23. CASE ServerExecutes
  BY <1>0, <1>a, <1>23 DEF ServerExecutes, DisconnectReported
<1>24. CASE ServerPushes
  BY <1>0, <1>a, <1>24 DEF ServerPushes, DisconnectReported
<1>25. CASE ConnectionBreaks
  BY <1>0, <1>a, <1>25 DEF ConnectionBreaks, DisconnectReported
<1>26. QED
  BY <1>1, <1>2, <1>3, <1>4, <1>5, <1>6, <1>7, <1>8, <1>9, <1>10, <1>11, <1>12, <1>13,
     <1>14, <1>15, <1>16, <1>17, <1>18, <1>19, <1>20, <1>21, <1>22, <1>23, <1>24, <1>25, <1>0, BoolsAssumption
  DEF Next, Application, IssueCommand, Client, Handlers, ProcessCallbacks, Free, Server

LEMMA ReportInvariant == Spec => [](TypeOK /\ Control /\ DisconnectReported)
<1>1. Init => TypeOK /\ Control /\ DisconnectReported
  <2>1. Init => Control /\ DisconnectReported
    BY DEF Init, Control, DisconnectReported, Open, Freed
  <2>2. QED  BY <2>1, TypeInit
<1>2. ASSUME TypeOK, Control, DisconnectReported, [Next]_vars
      PROVE  TypeOK' /\ Control' /\ DisconnectReported'
  <2>1. TypeOK'
    BY <1>2, TypeStep
  <2>2. CASE Next
    <3>1. TControl /\ TBooleans /\ THistory
      BY <1>2, TypeParts
    <3>2. QED  BY <1>2, <2>1, <2>2, <3>1, ControlStep, ReportStep
  <2>3. CASE UNCHANGED vars
    BY <1>2, <2>1, <2>3 DEF vars, queues, Control, DisconnectReported, Open, Freed
  <2>4. QED  BY <1>2, <2>2, <2>3
<1>3. QED  BY <1>1, <1>2, PTL DEF Spec

(***************************************************************************)
(* onDisconnect runs once, when the context is freed and only if there was *)
(* a connection, and reports REDIS_OK whenever the application ended it,   *)
(* however commands, callbacks, events and errors were interleaved.        *)
(***************************************************************************)
THEOREM DisconnectIsReported == Spec => []DisconnectReported
BY ReportInvariant, PTL

-----------------------------------------------------------------------------
(* How the two streams move. *)

Shifted(s, t) ==
  Len(s) >= 1 /\ Len(t) = Len(s) - 1 /\ \A k \in 1 .. Len(t) : t[k] = s[k + 1]
Extended(s, t, x) ==
  Len(t) = Len(s) + 1 /\ t[Len(s) + 1] = x /\ \A k \in 1 .. Len(s) : t[k] = s[k]

LEMMA MovePart ==
  ASSUME NEW S, NEW s \in Seq(S), NEW t \in Seq(S), NEW n \in 0 .. Len(t)
  PROVE  (s \o SubSeq(t, 1, n)) \o SubSeq(t, n + 1, Len(t)) = s \o t
<1>1. SubSeq(t, 1, n) \in Seq(S) /\ SubSeq(t, n + 1, Len(t)) \in Seq(S)
  BY SubSeqProperties
<1>2. SubSeq(t, 1, n) \o SubSeq(t, n + 1, Len(t)) = SubSeq(t, 1, Len(t))
  <2>1. /\ 1 \in 1 .. Len(t) + 1 /\ n \in 1 - 1 .. Len(t) /\ Len(t) \in n .. Len(t)
    OBVIOUS
  <2>2. QED  BY <2>1, ConcatAdjacentSubSeq
<1>3. SubSeq(t, 1, Len(t)) = t
  BY SubSeqFull
<1>4. PICK a \in Seq(S), b \in Seq(S) :
        a = SubSeq(t, 1, n) /\ b = SubSeq(t, n + 1, Len(t))
  BY <1>1
<1>5. (s \o a) \o b = s \o (a \o b)
  BY ConcatAssociative
<1>6. a \o b = t
  BY <1>2, <1>3, <1>4
<1>7. (s \o a) \o b = s \o t
  BY <1>5, <1>6
<1>8. QED  BY <1>4, <1>7

LEMMA ShiftOf ==
  ASSUME NEW S, NEW s \in Seq(S), NEW t \in Seq(S), s # <<>>
  PROVE  Shifted(s \o t, Tail(s) \o t) /\ (s \o t)[1] = Head(s)
<1>1. Len(s) >= 1 /\ Tail(s) \in Seq(S) /\ Len(Tail(s)) = Len(s) - 1
      /\ (\A i \in 1 .. Len(s) - 1 : Tail(s)[i] = s[i + 1]) /\ Head(s) = s[1]
  BY HeadTailProperties, EmptySeq
<1>2. QED  BY <1>1, ConcatProperties DEF Shifted

LEMMA ExtensionOf ==
  ASSUME NEW S, NEW s \in Seq(S), NEW t \in Seq(S), NEW x \in S
  PROVE  Extended(s \o t, s \o Append(t, x), x)
BY AppendProperties, ConcatProperties DEF Extended

LEMMA ShiftTail ==
  ASSUME NEW S, NEW s \in Seq(S), s # <<>>
  PROVE  Shifted(s, Tail(s)) /\ s[1] = Head(s)
BY HeadTailProperties, EmptySeq DEF Shifted

LEMMA ExtendAppend ==
  ASSUME NEW S, NEW s \in Seq(S), NEW x \in S
  PROVE  Extended(s, Append(s, x), x)
BY AppendProperties DEF Extended

LEMMA StreamsTyped ==
  ASSUME TBuffers
  PROVE  Incoming \in Seq(Reply) /\ Outgoing \in Seq(Command)
BY DEF TBuffers, Incoming, Outgoing

(* A command number id, as it is sent. *)
Sent(id, kind, topic) == [id |-> id, kind |-> kind, topic |-> topic]

LEMMA FlowIssue ==
  ASSUME TBuffers, NEW kind, NEW topic, NEW fn, AsyncCommand(kind, topic, fn),
         Sent(Len(issued) + 1, kind, topic) \in Command
  PROVE  /\ Incoming' = Incoming
         /\ Extended(Outgoing, Outgoing', Sent(Len(issued) + 1, kind, topic))
<1>1. /\ obuf' = Append(obuf, Sent(Len(issued) + 1, kind, topic))
      /\ toServer' = toServer /\ inbuf' = inbuf /\ toClient' = toClient
  BY DEF AsyncCommand, Sent, socket
<1>2. QED  BY <1>1, ExtensionOf DEF TBuffers, Incoming, Outgoing

LEMMA FlowBuffers ==
  ASSUME TBuffers, BufferRead \/ BufferWrite
  PROVE  Incoming' = Incoming /\ Outgoing' = Outgoing
<1>1. CASE BufferRead
  <2>1. PICK n \in 0 .. Len(toClient) :
          /\ inbuf' = inbuf \o SubSeq(toClient, 1, n)
          /\ toClient' = SubSeq(toClient, n + 1, Len(toClient))
    BY <1>1 DEF BufferRead
  <2>2. obuf' = obuf /\ toServer' = toServer
    BY <1>1 DEF BufferRead
  <2>3. QED  BY <2>1, <2>2, MovePart DEF TBuffers, Incoming, Outgoing
<1>2. CASE BufferWrite
  <2>1. PICK n \in 0 .. Len(obuf) :
          /\ toServer' = toServer \o SubSeq(obuf, 1, n)
          /\ obuf' = SubSeq(obuf, n + 1, Len(obuf))
    BY <1>2 DEF BufferWrite
  <2>2. inbuf' = inbuf /\ toClient' = toClient
    BY <1>2 DEF BufferWrite
  <2>3. QED  BY <2>1, <2>2, MovePart DEF TBuffers, Incoming, Outgoing
<1>3. QED  BY <1>1, <1>2

LEMMA FlowTake ==
  ASSUME TBuffers, inbuf # <<>>, inbuf' = Tail(inbuf), UNCHANGED <<toClient, toServer, obuf>>
  PROVE  /\ Shifted(Incoming, Incoming') /\ Incoming[1] = Head(inbuf)
         /\ Outgoing' = Outgoing
BY ShiftOf DEF TBuffers, Incoming, Outgoing

LEMMA FlowServer ==
  ASSUME TBuffers, TServer, ServerExecutes
  PROVE  \E c \in Command :
           /\ Shifted(Outgoing, Outgoing') /\ Outgoing[1] = c
           /\ Extended(Incoming, Incoming', ServerAnswer(c))
           /\ subscribed' = CASE c.kind = "subscribe" -> subscribed \cup {c.topic}
                              [] c.kind = "unsubscribe" -> subscribed \ {c.topic}
                              [] OTHER -> subscribed
           /\ monitoring' = (monitoring \/ (c.kind = "monitor" /\ subscribed = {}))
<1>1. PICK c \in Command : c = Head(toServer)
  BY DEF ServerExecutes, TBuffers
<1>2. /\ toServer' = Tail(toServer) /\ toServer # <<>>
      /\ toClient' = Append(toClient, ServerAnswer(c))
      /\ obuf' = obuf /\ inbuf' = inbuf
      /\ subscribed' = CASE c.kind = "subscribe" -> subscribed \cup {c.topic}
                         [] c.kind = "unsubscribe" -> subscribed \ {c.topic}
                         [] OTHER -> subscribed
      /\ monitoring' = (monitoring \/ (c.kind = "monitor" /\ subscribed = {}))
  BY <1>1, Zenon DEF ServerExecutes
<1>3. ServerAnswer(c) \in Reply
  BY AnswerTyped
<1>4. Shifted(Outgoing, Outgoing') /\ Outgoing[1] = c
  BY <1>1, <1>2, ShiftOf DEF TBuffers, Outgoing
<1>5. Extended(Incoming, Incoming', ServerAnswer(c))
  BY <1>2, <1>3, ExtensionOf DEF TBuffers, Incoming
<1>6. QED  BY <1>1, <1>2, <1>4, <1>5

Message(t) == PubSub("message", t, 0, 0)
Line == Plain("status", "line", 0)

LEMMA FlowPush ==
  ASSUME TBuffers, TServer, ServerPushes
  PROVE  /\ Outgoing' = Outgoing
         /\ \/ \E t \in subscribed : Extended(Incoming, Incoming', Message(t))
            \/ monitoring /\ Extended(Incoming, Incoming', Line)
<1>1. obuf' = obuf /\ inbuf' = inbuf /\ toServer' = toServer
  BY DEF ServerPushes
<1>2. \/ \E t \in subscribed : toClient' = Append(toClient, Message(t))
      \/ monitoring /\ toClient' = Append(toClient, Line)
  BY DEF ServerPushes, Message, Line
<1>3. Line \in Reply /\ \A t \in subscribed : Message(t) \in Reply
  BY DEF TServer, Message, Line, PubSub, Plain, NullReply, Reply
<1>4. QED  BY <1>1, <1>2, <1>3, ExtensionOf DEF TBuffers, Incoming, Outgoing

LEMMA FlowPushed ==
  ASSUME TBuffers, TServer, ServerPushes
  PROVE  \E r : /\ Extended(Incoming, Incoming', r)
               /\ r.what \in {"message", "line"} /\ r.type # "garbage"
<1>1. /\ Line.what = "line" /\ Line.type = "status"
      /\ \A t : Message(t).what = "message" /\ Message(t).type = "array"
  BY DEF Message, Line, PubSub, Plain, NullReply
<1>2. CASE Extended(Incoming, Incoming', Line)
  BY <1>1, <1>2
<1>3. ASSUME NEW t, Extended(Incoming, Incoming', Message(t))
      PROVE  \E r : /\ Extended(Incoming, Incoming', r)
                   /\ r.what \in {"message", "line"} /\ r.type # "garbage"
  BY <1>1, <1>3
<1>4. QED  BY <1>2, <1>3, FlowPush

LEMMA FlowBreak ==
  ASSUME TBuffers, ConnectionBreaks
  PROVE  /\ Outgoing' = Outgoing /\ ~broken /\ broken'
         /\ \/ Incoming' = Incoming
            \/ \E r : Unsolicited(r) /\ Extended(Incoming, Incoming', r)
<1>1. obuf' = obuf /\ inbuf' = inbuf /\ toServer' = toServer /\ ~broken /\ broken'
  BY DEF ConnectionBreaks
<1>2. \A type \in {"error", "garbage"} :
        Plain(type, "unsolicited", 0) \in Reply /\ Unsolicited(Plain(type, "unsolicited", 0))
  BY DEF Plain, NullReply, Reply, Unsolicited
<1>3. toClient' = toClient \/ \E r \in Reply : toClient' = Append(toClient, r) /\ Unsolicited(r)
  BY <1>2 DEF ConnectionBreaks
<1>4. CASE toClient' = toClient
  BY <1>1, <1>4 DEF Incoming, Outgoing
<1>5. CASE \E r \in Reply : toClient' = Append(toClient, r) /\ Unsolicited(r)
  BY <1>1, <1>5, ExtensionOf DEF TBuffers, Incoming, Outgoing
<1>6. QED  BY <1>3, <1>4, <1>5

-----------------------------------------------------------------------------
(* What a command adds to the history. *)

LEMMA IssuedStep ==
  ASSUME THistory, NEW kind, NEW topic, NEW fn, AsyncCommand(kind, topic, fn)
  PROVE  /\ DOMAIN issued = 1 .. Len(issued) /\ DOMAIN issued' = 1 .. Len(issued) + 1
         /\ Len(issued') = Len(issued) + 1 /\ Len(issued) \in Nat
         /\ Len(issued) + 1 \in Ids
         /\ \A i \in DOMAIN issued : issued'[i] = issued[i]
         /\ issued'[Len(issued) + 1].kind = kind
         /\ issued'[Len(issued) + 1].topic = topic
         /\ issued'[Len(issued) + 1].fn = fn
         /\ issued'[Len(issued) + 1].waited = ~Unsubscribing
         /\ issued'[Len(issued) + 1].known = (kind = "unsubscribe" => topic \in DOMAIN channels)
<1>1. PICK w : w = ~Unsubscribing
  OBVIOUS
<1>2. PICK x : x = (kind = "unsubscribe" => topic \in DOMAIN channels)
  OBVIOUS
<1>3. PICK r : r = [kind |-> kind, topic |-> topic, fn |-> fn, waited |-> w, known |-> x]
  OBVIOUS
<1>4. issued' = Append(issued, r) /\ Len(issued) + 1 \in Ids
  BY <1>1, <1>2, <1>3, Zenon DEF AsyncCommand
<1>5. issued \in Seq(Issued)
  BY DEF THistory
<1>6. /\ DOMAIN issued = 1 .. Len(issued) /\ DOMAIN issued' = 1 .. Len(issued) + 1
      /\ Len(issued') = Len(issued) + 1 /\ Len(issued) \in Nat
      /\ \A i \in DOMAIN issued : issued'[i] = issued[i]
      /\ issued'[Len(issued) + 1] = r
  BY <1>4, <1>5
<1>7. r.kind = kind /\ r.topic = topic /\ r.fn = fn /\ r.waited = w /\ r.known = x
  BY <1>3
<1>8. QED  BY <1>1, <1>2, <1>4, <1>6, <1>7, Zenon

LEMMA UsedStep ==
  ASSUME THistory, NEW kind, NEW topic, NEW fn, AsyncCommand(kind, topic, fn)
  PROVE  Used' = Used \cup {kind}
<1>1. PICK n \in Nat : n = Len(issued)
  BY IssuedStep
<1>2. /\ DOMAIN issued = 1 .. n /\ DOMAIN issued' = 1 .. n + 1
      /\ \A i \in 1 .. n : issued'[i] = issued[i]
      /\ issued'[n + 1].kind = kind
  BY <1>1, IssuedStep
<1>3. Used' = {issued'[i].kind : i \in 1 .. n + 1}
  BY <1>2 DEF Used
<1>4. Used = {issued[i].kind : i \in 1 .. n}
  BY <1>2 DEF Used
<1>5. 1 .. n + 1 = 1 .. n \cup {n + 1}
  BY <1>1
<1>6. QED  BY <1>2, <1>3, <1>4, <1>5

LEMMA UnsubscribingFlow ==
  ASSUME TBuffers
  PROVE  Unsubscribing <=>
           \/ \E k \in 1 .. Len(Outgoing) : Outgoing[k].kind = "unsubscribe"
           \/ \E k \in 1 .. Len(Incoming) : Incoming[k].what = "unsubscribe"
<1>1. /\ DOMAIN obuf = 1 .. Len(obuf) /\ DOMAIN toServer = 1 .. Len(toServer)
      /\ DOMAIN inbuf = 1 .. Len(inbuf) /\ DOMAIN toClient = 1 .. Len(toClient)
  BY DEF TBuffers
<1>2. (\E k \in 1 .. Len(Outgoing) : Outgoing[k].kind = "unsubscribe")
        <=> \/ \E i \in DOMAIN obuf : obuf[i].kind = "unsubscribe"
            \/ \E i \in DOMAIN toServer : toServer[i].kind = "unsubscribe"
  <2>1. ASSUME NEW k \in 1 .. Len(Outgoing)
        PROVE  \/ \E i \in DOMAIN obuf : Outgoing[k] = obuf[i]
               \/ \E i \in DOMAIN toServer : Outgoing[k] = toServer[i]
    <3>1. CASE k <= Len(toServer)
      BY <1>1, <3>1, ConcatProperties DEF TBuffers, Outgoing
    <3>2. CASE k > Len(toServer)
      <4>1. k - Len(toServer) \in DOMAIN obuf /\ Outgoing[k] = obuf[k - Len(toServer)]
        BY <1>1, <3>2, ConcatProperties DEF TBuffers, Outgoing
      <4>2. QED  BY <4>1
    <3>3. QED  BY <1>1, <3>1, <3>2, StreamsTyped DEF TBuffers
  <2>2. \A i \in DOMAIN toServer : i \in 1 .. Len(Outgoing) /\ Outgoing[i] = toServer[i]
    BY <1>1, ConcatProperties DEF TBuffers, Outgoing
  <2>3. \A i \in DOMAIN obuf : Len(toServer) + i \in 1 .. Len(Outgoing)
                               /\ Outgoing[Len(toServer) + i] = obuf[i]
    BY <1>1, ConcatProperties DEF TBuffers, Outgoing
  <2>4. QED  BY <2>1, <2>2, <2>3
<1>3. (\E k \in 1 .. Len(Incoming) : Incoming[k].what = "unsubscribe")
        <=> \/ \E i \in DOMAIN toClient : toClient[i].what = "unsubscribe"
            \/ \E i \in DOMAIN inbuf : inbuf[i].what = "unsubscribe"
  <2>1. ASSUME NEW k \in 1 .. Len(Incoming)
        PROVE  \/ \E i \in DOMAIN toClient : Incoming[k] = toClient[i]
               \/ \E i \in DOMAIN inbuf : Incoming[k] = inbuf[i]
    <3>1. CASE k <= Len(inbuf)
      BY <1>1, <3>1, ConcatProperties DEF TBuffers, Incoming
    <3>2. CASE k > Len(inbuf)
      <4>1. k - Len(inbuf) \in DOMAIN toClient /\ Incoming[k] = toClient[k - Len(inbuf)]
        BY <1>1, <3>2, ConcatProperties DEF TBuffers, Incoming
      <4>2. QED  BY <4>1
    <3>3. QED  BY <1>1, <3>1, <3>2, StreamsTyped DEF TBuffers
  <2>2. \A i \in DOMAIN inbuf : i \in 1 .. Len(Incoming) /\ Incoming[i] = inbuf[i]
    BY <1>1, ConcatProperties DEF TBuffers, Incoming
  <2>3. \A i \in DOMAIN toClient : Len(inbuf) + i \in 1 .. Len(Incoming)
                               /\ Incoming[Len(inbuf) + i] = toClient[i]
    BY <1>1, ConcatProperties DEF TBuffers, Incoming
  <2>4. QED  BY <2>1, <2>2, <2>3
<1>4. QED  BY <1>2, <1>3, Zenon DEF Unsubscribing

LEMMA WaitedStep ==
  ASSUME THistory, TBuffers, NEW kind, NEW topic, NEW fn, AsyncCommand(kind, topic, fn), Waited'
  PROVE  /\ Waited
         /\ \A k \in 1 .. Len(Outgoing) : Outgoing[k].kind # "unsubscribe"
         /\ \A k \in 1 .. Len(Incoming) : Incoming[k].what # "unsubscribe"
<1>1. /\ DOMAIN issued \subseteq DOMAIN issued' /\ Len(issued) + 1 \in DOMAIN issued'
      /\ \A i \in DOMAIN issued : issued'[i] = issued[i]
      /\ issued'[Len(issued) + 1].waited = ~Unsubscribing
  BY IssuedStep
<1>2. Waited /\ ~Unsubscribing
  BY <1>1 DEF Waited
<1>3. QED  BY <1>2, UnsubscribingFlow

LEMMA KnownStep ==
  ASSUME THistory, NEW kind, NEW topic, NEW fn, AsyncCommand(kind, topic, fn), Known'
  PROVE  Known /\ (kind = "unsubscribe" => topic \in DOMAIN channels)
<1>1. /\ DOMAIN issued \subseteq DOMAIN issued' /\ Len(issued) + 1 \in DOMAIN issued'
      /\ \A i \in DOMAIN issued : issued'[i] = issued[i]
      /\ issued'[Len(issued) + 1].known = (kind = "unsubscribe" => topic \in DOMAIN channels)
  BY IssuedStep
<1>2. QED  BY <1>1 DEF Known

(* A command in flight was typed when it was issued. *)
LEMMA SentTyped ==
  ASSUME THistory, NEW kind \in Kinds, NEW topic \in Topics \cup {NoTopic}, NEW fn,
         kind \in {"subscribe", "unsubscribe"} => topic \in Topics,
         AsyncCommand(kind, topic, fn)
  PROVE  Sent(Len(issued) + 1, kind, topic) \in Command
BY IssuedStep DEF Sent, Command

-----------------------------------------------------------------------------
(* Nothing happens that no command was issued for. *)

LEMMA UsesFlagsStep == THistory /\ TQueues /\ UsesFlags /\ Next => UsesFlags'
<1>0. SUFFICES ASSUME THistory, TQueues, UsesFlags, Next PROVE UsesFlags'  OBVIOUS
<1>a. ASSUME issued' = issued PROVE Used' = Used
  BY <1>a DEF Used
<1>1. ASSUME NEW kind \in Kinds, NEW topic \in Topics \cup {NoTopic}, NEW fn \in BOOLEAN,
             kind \in {"subscribe", "unsubscribe"} => topic \in Topics,
             AsyncCommand(kind, topic, fn)
      PROVE  UsesFlags'
  <2>1. Used' = Used \cup {kind}
    BY <1>0, <1>1, UsedStep
  <2>2. flags' = flags \cup (CASE kind = "subscribe" -> {"SUBSCRIBED"}
                               [] kind = "monitor" -> {"MONITORING"}
                               [] OTHER -> {})
    BY <1>1 DEF AsyncCommand
  <2>3. "SUBSCRIBED" \in flags' => "SUBSCRIBED" \in flags \/ kind = "subscribe"
    BY <2>2
  <2>4. "MONITORING" \in flags' <=> "MONITORING" \in flags \/ kind = "monitor"
    BY <2>2
  <2>5. invalid' # <<>> => invalid # <<>> \/ "SUBSCRIBED" \in flags
    BY <1>1 DEF AsyncCommand
  <2>6. QED  BY <1>0, <2>1, <2>3, <2>4, <2>5 DEF UsesFlags
<1>2. CASE AsyncDisconnect
  <2>1. ("SUBSCRIBED" \in flags' <=> "SUBSCRIBED" \in flags)
        /\ ("MONITORING" \in flags' <=> "MONITORING" \in flags)
    BY <1>2 DEF AsyncDisconnect, CloseWith
  <2>2. QED  BY <1>0, <1>a, <2>1, <1>2 DEF AsyncDisconnect, UsesFlags, queues
<1>3. CASE AsyncFree
  BY <1>0, <1>a, <1>3 DEF AsyncFree, UsesFlags, queues
<1>4. ASSUME NEW e \in {"read", "write"}, HandleEvent(e)
      PROVE  UsesFlags'
  <2>1. ("SUBSCRIBED" \in flags' <=> "SUBSCRIBED" \in flags)
        /\ ("MONITORING" \in flags' <=> "MONITORING" \in flags)
    BY <1>4 DEF HandleEvent, CloseWith
  <2>2. QED  BY <1>0, <1>a, <2>1, <1>4 DEF HandleEvent, UsesFlags, queues
<1>5. CASE LibuvPollError
  BY <1>0, <1>a, <1>5 DEF LibuvPollError, UsesFlags, queues
<1>6. CASE SecondHandlerUsesFreed
  BY <1>0, <1>a, <1>6 DEF SecondHandlerUsesFreed, UsesFlags, queues
<1>7. CASE BufferError
  <2>1. ("SUBSCRIBED" \in flags' <=> "SUBSCRIBED" \in flags)
        /\ ("MONITORING" \in flags' <=> "MONITORING" \in flags)
    BY <1>7 DEF BufferError, CloseWith
  <2>2. QED  BY <1>0, <1>a, <2>1, <1>7 DEF BufferError, UsesFlags, queues
<1>8. CASE BufferRead
  BY <1>0, <1>a, <1>8 DEF BufferRead, UsesFlags, queues
<1>9. CASE BufferWrite
  BY <1>0, <1>a, <1>9 DEF BufferWrite, UsesFlags, queues
<1>10. CASE NoMoreReplies
  <2>1. ("SUBSCRIBED" \in flags' <=> "SUBSCRIBED" \in flags)
        /\ ("MONITORING" \in flags' <=> "MONITORING" \in flags)
    BY <1>10 DEF NoMoreReplies, CloseWith
  <2>2. QED  BY <1>0, <1>a, <2>1, <1>10 DEF NoMoreReplies, UsesFlags, queues
<1>11. CASE ProtocolError
  <2>1. ("SUBSCRIBED" \in flags' <=> "SUBSCRIBED" \in flags)
        /\ ("MONITORING" \in flags' <=> "MONITORING" \in flags)
    BY <1>11 DEF ProtocolError, CloseWith
  <2>2. QED  BY <1>0, <1>a, <2>1, <1>11 DEF ProtocolError, UsesFlags, queues
<1>12. CASE SpontaneousError
  <2>1. ("SUBSCRIBED" \in flags' <=> "SUBSCRIBED" \in flags)
        /\ ("MONITORING" \in flags' <=> "MONITORING" \in flags)
    BY <1>12 DEF SpontaneousError, CloseWith
  <2>2. QED  BY <1>0, <1>a, <2>1, <1>12 DEF SpontaneousError, UsesFlags, queues
<1>13. CASE RegularReply
  BY <1>0, <1>a, <1>13 DEF RegularReply, TakeReply, RunCallback, UsesFlags, queues
<1>14. CASE UnexpectedReply
  BY <1>0, <1>a, <1>14 DEF UnexpectedReply, TakeReply, UsesFlags, queues
<1>15. CASE SubscribedReply
  <2>1. ("SUBSCRIBED" \in flags' => "SUBSCRIBED" \in flags)
        /\ ("MONITORING" \in flags' <=> "MONITORING" \in flags)
    BY <1>15 DEF SubscribedReply, RunCallback
  <2>2. invalid' # <<>> => invalid # <<>>
    BY <1>15 DEF SubscribedReply
  <2>3. QED  BY <1>0, <1>a, <2>1, <2>2, <1>15 DEF SubscribedReply, UsesFlags
<1>16. CASE MonitorReply
  BY <1>0, <1>a, <1>16 DEF MonitorReply, TakeReply, RunCallback, UsesFlags, queues
<1>17. CASE CallbackReturns
  BY <1>0, <1>a, <1>17 DEF CallbackReturns, UsesFlags, queues
<1>18. CASE FreeRegular
  BY <1>0, <1>a, <1>18 DEF FreeRegular, RunCallback, UsesFlags, queues
<1>19. CASE FreeInvalid
  <2>1. ("SUBSCRIBED" \in flags' <=> "SUBSCRIBED" \in flags)
        /\ ("MONITORING" \in flags' <=> "MONITORING" \in flags)
    BY <1>19 DEF FreeInvalid, RunCallback
  <2>2. QED  BY <1>0, <1>a, <2>1, <1>19 DEF FreeInvalid, UsesFlags
<1>20. ASSUME NEW t \in Topics, FreeChannel(t)
      PROVE  UsesFlags'
  BY <1>0, <1>a, <1>20 DEF FreeChannel, RunCallback, UsesFlags, queues
<1>21. CASE FreeCallbackReturns
  BY <1>0, <1>a, <1>21 DEF FreeCallbackReturns, UsesFlags, queues
<1>22. CASE FreeContext
  BY <1>0, <1>a, <1>22 DEF FreeContext, UsesFlags, queues
<1>23. CASE ServerExecutes
  BY <1>0, <1>a, <1>23 DEF ServerExecutes, UsesFlags, queues
<1>24. CASE ServerPushes
  BY <1>0, <1>a, <1>24 DEF ServerPushes, UsesFlags, queues
<1>25. CASE ConnectionBreaks
  BY <1>0, <1>a, <1>25 DEF ConnectionBreaks, UsesFlags, queues
<1>26. QED
  BY <1>1, <1>2, <1>3, <1>4, <1>5, <1>6, <1>7, <1>8, <1>9, <1>10, <1>11, <1>12, <1>13,
     <1>14, <1>15, <1>16, <1>17, <1>18, <1>19, <1>20, <1>21, <1>22, <1>23, <1>24, <1>25, <1>0, BoolsAssumption
  DEF Next, Application, IssueCommand, Client, Handlers, ProcessCallbacks, Free, Server

LEMMA UsesServerStep ==
  THistory /\ TBuffers /\ TServer /\ UsesServer /\ UsesStreams /\ Next => UsesServer'
<1>0. SUFFICES ASSUME THistory, TBuffers, TServer, UsesServer, UsesStreams, Next
               PROVE  UsesServer'
  OBVIOUS
<1>a. ASSUME issued' = issued PROVE Used' = Used
  BY <1>a DEF Used
<1>1. ASSUME NEW kind \in Kinds, NEW topic \in Topics \cup {NoTopic}, NEW fn \in BOOLEAN,
             kind \in {"subscribe", "unsubscribe"} => topic \in Topics,
             AsyncCommand(kind, topic, fn)
      PROVE  UsesServer'
  <2>1. Used' = Used \cup {kind}
    BY <1>0, <1>1, UsedStep
  <2>2. QED  BY <1>0, <2>1, <1>1 DEF AsyncCommand, UsesServer, server
<1>2. CASE AsyncDisconnect
  BY <1>0, <1>a, <1>2 DEF AsyncDisconnect, UsesServer, server
<1>3. CASE AsyncFree
  BY <1>0, <1>a, <1>3 DEF AsyncFree, UsesServer, server
<1>4. ASSUME NEW e \in {"read", "write"}, HandleEvent(e)
      PROVE  UsesServer'
  BY <1>0, <1>a, <1>4 DEF HandleEvent, UsesServer, server
<1>5. CASE LibuvPollError
  BY <1>0, <1>a, <1>5 DEF LibuvPollError, UsesServer, server
<1>6. CASE SecondHandlerUsesFreed
  BY <1>0, <1>a, <1>6 DEF SecondHandlerUsesFreed, UsesServer, server
<1>7. CASE BufferError
  BY <1>0, <1>a, <1>7 DEF BufferError, UsesServer, server
<1>8. CASE BufferRead
  BY <1>0, <1>a, <1>8 DEF BufferRead, UsesServer, server
<1>9. CASE BufferWrite
  BY <1>0, <1>a, <1>9 DEF BufferWrite, UsesServer, server
<1>10. CASE NoMoreReplies
  BY <1>0, <1>a, <1>10 DEF NoMoreReplies, UsesServer, server
<1>11. CASE ProtocolError
  BY <1>0, <1>a, <1>11 DEF ProtocolError, UsesServer, server
<1>12. CASE SpontaneousError
  BY <1>0, <1>a, <1>12 DEF SpontaneousError, UsesServer, server
<1>13. CASE RegularReply
  BY <1>0, <1>a, <1>13 DEF RegularReply, TakeReply, UsesServer, server
<1>14. CASE UnexpectedReply
  BY <1>0, <1>a, <1>14 DEF UnexpectedReply, TakeReply, UsesServer, server
<1>15. CASE SubscribedReply
  BY <1>0, <1>a, <1>15 DEF SubscribedReply, TakeReply, UsesServer, server
<1>16. CASE MonitorReply
  BY <1>0, <1>a, <1>16 DEF MonitorReply, TakeReply, UsesServer, server
<1>17. CASE CallbackReturns
  BY <1>0, <1>a, <1>17 DEF CallbackReturns, UsesServer, server
<1>18. CASE FreeRegular
  BY <1>0, <1>a, <1>18 DEF FreeRegular, UsesServer, server
<1>19. CASE FreeInvalid
  BY <1>0, <1>a, <1>19 DEF FreeInvalid, UsesServer, server
<1>20. ASSUME NEW t \in Topics, FreeChannel(t)
      PROVE  UsesServer'
  BY <1>0, <1>a, <1>20 DEF FreeChannel, UsesServer, server
<1>21. CASE FreeCallbackReturns
  BY <1>0, <1>a, <1>21 DEF FreeCallbackReturns, UsesServer, server
<1>22. CASE FreeContext
  BY <1>0, <1>a, <1>22 DEF FreeContext, UsesServer, server
<1>23. CASE ServerExecutes
  <2>1. PICK c \in Command :
          /\ Shifted(Outgoing, Outgoing') /\ Outgoing[1] = c
          /\ subscribed' = CASE c.kind = "subscribe" -> subscribed \cup {c.topic}
                             [] c.kind = "unsubscribe" -> subscribed \ {c.topic}
                             [] OTHER -> subscribed
          /\ monitoring' = (monitoring \/ (c.kind = "monitor" /\ subscribed = {}))
    BY <1>0, <1>23, FlowServer
  <2>2. Len(Outgoing) \in Nat
    BY <1>0, StreamsTyped
  <2>3. c.kind \in Used
    BY <1>0, <2>1, <2>2 DEF Shifted, UsesStreams
  <2>4. Used' = Used
    BY <1>a, <1>23 DEF ServerExecutes
  <2>5. subscribed' # {} => subscribed # {} \/ c.kind = "subscribe"
    BY <2>1
  <2>6. monitoring' => monitoring \/ c.kind = "monitor"
    BY <2>1
  <2>7. QED  BY <1>0, <2>3, <2>4, <2>5, <2>6 DEF UsesServer
<1>24. CASE ServerPushes
  BY <1>0, <1>a, <1>24 DEF ServerPushes, UsesServer
<1>25. CASE ConnectionBreaks
  BY <1>0, <1>a, <1>25 DEF ConnectionBreaks, UsesServer, server
<1>26. QED
  BY <1>1, <1>2, <1>3, <1>4, <1>5, <1>6, <1>7, <1>8, <1>9, <1>10, <1>11, <1>12, <1>13,
     <1>14, <1>15, <1>16, <1>17, <1>18, <1>19, <1>20, <1>21, <1>22, <1>23, <1>24, <1>25, <1>0, BoolsAssumption
  DEF Next, Application, IssueCommand, Client, Handlers, ProcessCallbacks, Free, Server

(* What a step may do to the streams. *)
Still == Incoming' = Incoming /\ Outgoing' = Outgoing
Issues(kind, topic, fn) ==
  /\ kind \in {"subscribe", "unsubscribe"} => topic \in Topics
  /\ AsyncCommand(kind, topic, fn)
Issuing == \E kind \in Kinds, topic \in Topics \cup {NoTopic}, fn \in BOOLEAN :
             Issues(kind, topic, fn)
Taking == Shifted(Incoming, Incoming') /\ Incoming[1] = Head(inbuf) /\ Outgoing' = Outgoing
StreamStep ==
  \/ Issuing
  \/ (Still \/ Taking) /\ issued' = issued /\ broken' = broken
  \/ ServerExecutes \/ ServerPushes \/ ConnectionBreaks

LEMMA StreamCases == TBuffers /\ Next => StreamStep
<1>0. SUFFICES ASSUME TBuffers, Next PROVE StreamStep  OBVIOUS
<1>a. ASSUME UNCHANGED <<obuf, toServer, inbuf, toClient>> PROVE Still
  BY <1>a DEF Still, Incoming, Outgoing
<1>b. ASSUME inbuf # <<>>, inbuf' = Tail(inbuf), UNCHANGED <<toClient, toServer, obuf>>
      PROVE  Taking
  BY <1>0, <1>b, FlowTake DEF Taking
<1>1. ASSUME NEW kind \in Kinds, NEW topic \in Topics \cup {NoTopic}, NEW fn \in BOOLEAN,
             kind \in {"subscribe", "unsubscribe"} => topic \in Topics,
             AsyncCommand(kind, topic, fn)
      PROVE  StreamStep
  BY <1>1 DEF StreamStep, Issuing, Issues
<1>2. CASE AsyncDisconnect
  BY <1>a, <1>2 DEF AsyncDisconnect, socket, StreamStep
<1>3. CASE AsyncFree
  BY <1>a, <1>3 DEF AsyncFree, socket, StreamStep
<1>4. ASSUME NEW e \in {"read", "write"}, HandleEvent(e)
      PROVE  StreamStep
  BY <1>a, <1>4 DEF HandleEvent, socket, StreamStep
<1>5. CASE LibuvPollError
  BY <1>a, <1>5 DEF LibuvPollError, socket, StreamStep
<1>6. CASE SecondHandlerUsesFreed
  BY <1>a, <1>6 DEF SecondHandlerUsesFreed, socket, StreamStep
<1>7. CASE BufferError
  BY <1>a, <1>7 DEF BufferError, socket, StreamStep
<1>8. CASE BufferRead
  <2>1. Still
    BY <1>0, <1>8, FlowBuffers DEF Still
  <2>2. QED  BY <2>1, <1>8 DEF BufferRead, StreamStep
<1>9. CASE BufferWrite
  <2>1. Still
    BY <1>0, <1>9, FlowBuffers DEF Still
  <2>2. QED  BY <2>1, <1>9 DEF BufferWrite, StreamStep
<1>10. CASE NoMoreReplies
  BY <1>a, <1>10 DEF NoMoreReplies, socket, StreamStep
<1>11. CASE ProtocolError
  BY <1>a, <1>11 DEF ProtocolError, socket, StreamStep
<1>12. CASE SpontaneousError
  BY <1>b, <1>12 DEF SpontaneousError, socket, StreamStep
<1>13. CASE RegularReply
  BY <1>b, <1>13 DEF RegularReply, TakeReply, socket, StreamStep
<1>14. CASE UnexpectedReply
  BY <1>b, <1>14 DEF UnexpectedReply, TakeReply, socket, StreamStep
<1>15. CASE SubscribedReply
  BY <1>b, <1>15 DEF SubscribedReply, TakeReply, socket, StreamStep
<1>16. CASE MonitorReply
  BY <1>b, <1>16 DEF MonitorReply, TakeReply, socket, StreamStep
<1>17. CASE CallbackReturns
  BY <1>a, <1>17 DEF CallbackReturns, socket, StreamStep
<1>18. CASE FreeRegular
  BY <1>a, <1>18 DEF FreeRegular, socket, StreamStep
<1>19. CASE FreeInvalid
  BY <1>a, <1>19 DEF FreeInvalid, socket, StreamStep
<1>20. ASSUME NEW t \in Topics, FreeChannel(t)
      PROVE  StreamStep
  BY <1>a, <1>20 DEF FreeChannel, socket, StreamStep
<1>21. CASE FreeCallbackReturns
  BY <1>a, <1>21 DEF FreeCallbackReturns, socket, StreamStep
<1>22. CASE FreeContext
  BY <1>a, <1>22 DEF FreeContext, socket, StreamStep
<1>23. CASE ServerExecutes
  BY <1>23 DEF StreamStep
<1>24. CASE ServerPushes
  BY <1>24 DEF StreamStep
<1>25. CASE ConnectionBreaks
  BY <1>25 DEF StreamStep
<1>26. QED
  BY <1>1, <1>2, <1>3, <1>4, <1>5, <1>6, <1>7, <1>8, <1>9, <1>10, <1>11, <1>12, <1>13,
     <1>14, <1>15, <1>16, <1>17, <1>18, <1>19, <1>20, <1>21, <1>22, <1>23, <1>24, <1>25, <1>0, BoolsAssumption
  DEF Next, Application, IssueCommand, Client, Handlers, ProcessCallbacks, Free, Server

LEMMA UsesStreamsStep ==
  THistory /\ TBuffers /\ TServer /\ UsesStreams /\ Next => UsesStreams'
<1>0. SUFFICES ASSUME THistory, TBuffers, TServer, UsesStreams, StreamStep
               PROVE  UsesStreams'
  BY StreamCases
<1>a. Len(Incoming) \in Nat /\ Len(Outgoing) \in Nat
  BY <1>0, StreamsTyped
<1>b. ASSUME issued' = issued PROVE Used' = Used
  BY <1>b DEF Used
<1>1. ASSUME NEW kind \in Kinds, NEW topic \in Topics \cup {NoTopic}, NEW fn \in BOOLEAN,
             Issues(kind, topic, fn)
      PROVE  UsesStreams'
  <2>1. PICK c \in Command : c = Sent(Len(issued) + 1, kind, topic) /\ c.kind = kind
    BY <1>0, <1>1, SentTyped DEF Sent, Issues
  <2>2. Incoming' = Incoming /\ Extended(Outgoing, Outgoing', c)
    BY <1>0, <1>1, <2>1, FlowIssue DEF Issues
  <2>3. Used' = Used \cup {kind}
    BY <1>0, <1>1, UsedStep DEF Issues
  <2>4. QED  BY <1>0, <1>a, <2>1, <2>2, <2>3 DEF UsesStreams, Extended
<1>2. CASE (Still \/ Taking) /\ issued' = issued /\ broken' = broken
  BY <1>0, <1>a, <1>b, <1>2 DEF Still, Taking, Shifted, UsesStreams
<1>3. CASE ServerExecutes
  <2>1. PICK c \in Command :
          /\ Shifted(Outgoing, Outgoing') /\ Outgoing[1] = c
          /\ Extended(Incoming, Incoming', ServerAnswer(c))
    BY <1>0, <1>3, FlowServer
  <2>2. Used' = Used
    BY <1>b, <1>3 DEF ServerExecutes
  <2>3. c.kind \in Used
    BY <1>0, <1>a, <2>1 DEF Shifted, UsesStreams
  <2>4. ServerAnswer(c).what \in {"subscribe", "unsubscribe"} => ServerAnswer(c).what = c.kind
    BY DEF ServerAnswer, PubSub, Plain, NullReply
  <2>5. PICK r : r = ServerAnswer(c)  OBVIOUS
  <2>6. QED  BY <1>0, <1>a, <2>1, <2>2, <2>3, <2>4, <2>5, SMTT(30) DEF UsesStreams, Shifted,
                Extended
<1>4. CASE ServerPushes
  <2>1. PICK r : Extended(Incoming, Incoming', r) /\ r.what \in {"message", "line"}
    BY <1>0, <1>4, FlowPushed
  <2>2. Outgoing' = Outgoing
    BY <1>0, <1>4, FlowPush
  <2>3. QED  BY <1>0, <1>a, <1>b, <1>4, <2>1, <2>2 DEF ServerPushes, UsesStreams, Extended
<1>5. CASE ConnectionBreaks
  <2>1. Incoming' = Incoming \/ \E r : r.what = "unsolicited" /\ Extended(Incoming, Incoming', r)
    BY <1>0, <1>5, FlowBreak DEF Unsolicited
  <2>2. Outgoing' = Outgoing
    BY <1>0, <1>5, FlowBreak
  <2>3. QED  BY <1>0, <1>a, <1>b, <1>5, <2>1, <2>2 DEF ConnectionBreaks, UsesStreams, Extended
<1>6. QED  BY <1>0, <1>1, <1>2, <1>3, <1>4, <1>5 DEF StreamStep, Issuing

LEMMA LastWordsStep ==
  THistory /\ TBuffers /\ TServer /\ LastWords /\ Next => LastWords'
<1>0. SUFFICES ASSUME THistory, TBuffers, TServer, LastWords, StreamStep
               PROVE  LastWords'
  BY StreamCases
<1>a. Len(Incoming) \in Nat
  BY <1>0, StreamsTyped
<1>1. ASSUME NEW kind \in Kinds, NEW topic \in Topics \cup {NoTopic}, NEW fn \in BOOLEAN,
             Issues(kind, topic, fn)
      PROVE  LastWords'
  <2>1. Incoming' = Incoming /\ broken' = broken
    BY <1>0, <1>1, SentTyped, FlowIssue DEF Issues, AsyncCommand, socket
  <2>2. QED  BY <1>0, <2>1 DEF LastWords, Unsolicited
<1>2. CASE Still /\ broken' = broken
  BY <1>0, <1>2 DEF Still, LastWords, Unsolicited
<1>3. CASE Taking /\ broken' = broken
  BY <1>0, <1>a, <1>3 DEF Taking, Shifted, LastWords, Unsolicited
<1>4. ASSUME ~broken, NEW r, r.what # "unsolicited", r.type # "garbage",
             Extended(Incoming, Incoming', r)
      PROVE  LastWords'
  BY <1>0, <1>a, <1>4 DEF LastWords, Unsolicited, Extended
<1>5. CASE ServerExecutes
  <2>1. PICK c \in Command : Extended(Incoming, Incoming', ServerAnswer(c))
    BY <1>0, <1>5, FlowServer
  <2>2. ServerAnswer(c).what # "unsolicited" /\ ServerAnswer(c).type # "garbage"
    BY DEF ServerAnswer, PubSub, Plain, NullReply
  <2>3. QED  BY <1>4, <1>5, <2>1, <2>2 DEF ServerExecutes
<1>6. CASE ServerPushes
  <2>1. PICK r : Extended(Incoming, Incoming', r) /\ r.what \in {"message", "line"}
                 /\ r.type # "garbage"
    BY <1>0, <1>6, FlowPushed
  <2>2. QED  BY <1>4, <1>6, <2>1 DEF ServerPushes
<1>7. CASE ConnectionBreaks
  <2>1. /\ ~broken /\ broken'
        /\ \/ Incoming' = Incoming
           \/ \E r : Unsolicited(r) /\ Extended(Incoming, Incoming', r)
    BY <1>0, <1>7, FlowBreak
  <2>2. QED  BY <1>0, <1>a, <2>1 DEF LastWords, Unsolicited, Extended
<1>8. QED  BY <1>0, <1>1, <1>2, <1>3, <1>5, <1>6, <1>7 DEF StreamStep, Issuing

LEMMA UnsubscribeLastStep ==
  THistory /\ TBuffers /\ TServer /\ (Waited => UnsubscribeLast) /\ Next
    => (Waited' => UnsubscribeLast')
<1>0. SUFFICES ASSUME THistory, TBuffers, TServer, Waited => UnsubscribeLast, StreamStep, Waited'
               PROVE  UnsubscribeLast'
  BY StreamCases
<1>a. Len(Incoming) \in Nat /\ Len(Outgoing) \in Nat /\ Outgoing \in Seq(Command)
  BY <1>0, StreamsTyped
<1>b. ASSUME issued' = issued PROVE Waited
  BY <1>0, <1>b DEF Waited
<1>1. ASSUME NEW kind \in Kinds, NEW topic \in Topics \cup {NoTopic}, NEW fn \in BOOLEAN,
             Issues(kind, topic, fn)
      PROVE  UnsubscribeLast'
  <2>1. PICK c \in Command :
          /\ c = Sent(Len(issued) + 1, kind, topic)
          /\ c.kind = kind /\ c.id = Len(issued) + 1 /\ c.topic = topic
    BY <1>0, <1>1, SentTyped DEF Sent, Issues
  <2>2. Incoming' = Incoming /\ Extended(Outgoing, Outgoing', c)
    BY <1>0, <1>1, <2>1, FlowIssue DEF Issues
  <2>3. /\ \A k \in 1 .. Len(Outgoing) : Outgoing[k].kind # "unsubscribe"
        /\ \A k \in 1 .. Len(Incoming) : Incoming[k].what # "unsubscribe"
    BY <1>0, <1>1, WaitedStep DEF Issues
  <2>4. /\ Len(issued') = Len(issued) + 1
        /\ issued'[Len(issued) + 1].kind = kind /\ issued'[Len(issued) + 1].topic = topic
    BY <1>0, <1>1, IssuedStep DEF Issues
  <2>5. QED  BY <1>a, <2>1, <2>2, <2>3, <2>4 DEF UnsubscribeLast, Extended
<1>2. CASE Still /\ issued' = issued
  BY <1>0, <1>b, <1>2 DEF Still, UnsubscribeLast
<1>3. CASE Taking /\ issued' = issued
  <2>1. UnsubscribeLast /\ Outgoing' = Outgoing /\ issued' = issued
    BY <1>0, <1>b, <1>3 DEF Taking
  <2>2. \A k \in 1 .. Len(Incoming') : k + 1 \in 1 .. Len(Incoming) /\ Incoming'[k] = Incoming[k + 1]
    BY <1>a, <1>3 DEF Taking, Shifted
  <2>3. QED  BY <2>1, <2>2 DEF UnsubscribeLast
<1>4. CASE ServerExecutes
  <2>1. PICK c \in Command :
          /\ Shifted(Outgoing, Outgoing') /\ Outgoing[1] = c
          /\ Extended(Incoming, Incoming', ServerAnswer(c))
    BY <1>0, <1>4, FlowServer
  <2>2. issued' = issued /\ UnsubscribeLast
    BY <1>0, <1>b, <1>4 DEF ServerExecutes
  <2>3. Outgoing # <<>> /\ \A k \in 1 .. Len(Incoming) : Incoming[k].what # "unsubscribe"
    BY <1>a, <2>1, <2>2 DEF Shifted, UnsubscribeLast
  <2>4. PICK r : r = ServerAnswer(c)  OBVIOUS
  <2>5. r.what = "unsubscribe" => c.kind = "unsubscribe" /\ r.of = c.id /\ r.topic = c.topic
    BY <2>4 DEF ServerAnswer, PubSub, Plain, NullReply
  <2>6. c.kind = "unsubscribe" => Len(Outgoing) = 1
    BY <1>a, <2>1, <2>2 DEF Shifted, UnsubscribeLast
  <2>7. Outgoing' \in Seq(Command)
    <3>1. TBuffers'
      BY <1>0, <1>4, BuffersTyped DEF Next, Server
    <3>2. QED  BY <3>1 DEF TBuffers, Outgoing
  <2>8. c.kind = "unsubscribe" => Outgoing' = <<>>
    BY <1>a, <2>1, <2>6, <2>7, EmptySeq DEF Shifted
  <2>9. \A k \in 1 .. Len(Outgoing') : Outgoing'[k].kind = "unsubscribe" =>
          /\ k = Len(Outgoing') /\ Outgoing'[k].id = Len(issued)
          /\ issued[Len(issued)].kind = "unsubscribe"
          /\ issued[Len(issued)].topic = Outgoing'[k].topic
    BY <1>a, <2>1, <2>2, SMTT(30) DEF Shifted, UnsubscribeLast
  <2>10. \A k \in 1 .. Len(Incoming') : Incoming'[k].what = "unsubscribe" =>
          /\ Outgoing' = <<>> /\ Incoming'[k].of = Len(issued)
          /\ issued[Len(issued)].kind = "unsubscribe"
          /\ issued[Len(issued)].topic = Incoming'[k].topic
    <3>1. SUFFICES ASSUME NEW k \in 1 .. Len(Incoming'), Incoming'[k].what = "unsubscribe"
                   PROVE  /\ Outgoing' = <<>> /\ Incoming'[k].of = Len(issued)
                          /\ issued[Len(issued)].kind = "unsubscribe"
                          /\ issued[Len(issued)].topic = Incoming'[k].topic
      OBVIOUS
    <3>2. Incoming'[k] = r
      BY <1>a, <2>1, <2>3, <2>4, <3>1 DEF Extended
    <3>3. /\ c.id = Len(issued) /\ issued[Len(issued)].kind = "unsubscribe"
          /\ issued[Len(issued)].topic = c.topic
      BY <1>a, <2>1, <2>2, <2>5, <3>1, <3>2 DEF Shifted, UnsubscribeLast
    <3>4. QED  BY <2>5, <2>8, <3>1, <3>2, <3>3
  <2>11. QED  BY <2>2, <2>9, <2>10 DEF UnsubscribeLast
<1>5. CASE ServerPushes
  <2>1. PICK r : Extended(Incoming, Incoming', r) /\ r.what \in {"message", "line"}
    BY <1>0, <1>5, FlowPushed
  <2>2. Outgoing' = Outgoing
    BY <1>0, <1>5, FlowPush
  <2>3. QED  BY <1>0, <1>a, <1>b, <1>5, <2>1, <2>2 DEF ServerPushes, UnsubscribeLast, Extended
<1>6. CASE ConnectionBreaks
  <2>1. Incoming' = Incoming \/ \E r : r.what = "unsolicited" /\ Extended(Incoming, Incoming', r)
    BY <1>0, <1>6, FlowBreak DEF Unsolicited
  <2>2. Outgoing' = Outgoing
    BY <1>0, <1>6, FlowBreak
  <2>3. QED  BY <1>0, <1>a, <1>b, <1>6, <2>1, <2>2 DEF ConnectionBreaks, UnsubscribeLast, Extended
<1>7. QED  BY <1>0, <1>1, <1>2, <1>3, <1>4, <1>5, <1>6 DEF StreamStep, Issuing

-----------------------------------------------------------------------------
(* Callbacks and what they are given. *)

LEMMA RunEffect ==
  ASSUME THistory, NEW c \in Callback \cup {NoCallback}, NEW r,
         NEW fs, NEW inside, NEW skip, RunCallback(c, r, fs, inside, skip)
  PROVE  /\ \A i \in Ids : i # c.id => calls'[i] = calls[i]
         /\ ~c.fn => calls' = calls
         /\ c.fn => c.id \in Ids /\ calls'[c.id] = Append(calls[c.id], r)
<1>1. CASE c.fn
  <2>1. c.id \in Ids
    BY <1>1 DEF Callback, NoCallback
  <2>2. QED  BY <1>1, <2>1 DEF RunCallback, THistory
<1>2. CASE ~c.fn
  BY <1>2 DEF RunCallback
<1>3. QED  BY <1>1, <1>2

LEMMA OfKept ==
  ASSUME THistory, NEW kind, NEW topic, NEW fn, AsyncCommand(kind, topic, fn)
  PROVE  \A c, k : Of(issued, c, k) =>
           Of(issued', c, k) /\ issued'[c.id].topic = issued[c.id].topic
BY IssuedStep DEF Of

LEMMA OfNew ==
  ASSUME THistory, NEW kind, NEW topic, NEW fn, AsyncCommand(kind, topic, fn)
  PROVE  /\ Of(issued', [id |-> Len(issued) + 1, fn |-> fn], kind)
         /\ issued'[Len(issued) + 1].topic = topic
BY IssuedStep DEF Of

LEMMA RegisteredStep ==
  THistory /\ TQueues /\ UsesFlags /\ Registered /\ Next => Registered'
<1>0. SUFFICES ASSUME THistory, TQueues, UsesFlags, Registered, Next PROVE Registered'
  OBVIOUS
<1>a. ASSUME issued' = issued PROVE Monitored' <=> Monitored
  BY <1>a DEF Used, Monitored
<1>b. /\ Len(replies) \in Nat /\ Len(invalid) \in Nat /\ Len(issued) \in Nat
      /\ replies \in Seq(Callback \cup {NoCallback}) /\ invalid \in Seq(Callback)
  BY <1>0 DEF TQueues, THistory
<1>c. NoCallback.id = 0
  BY DEF NoCallback
<1>d. ASSUME issued' = issued, UNCHANGED <<invalid, channels>>,
             cb'.id <= Len(issued),
             \/ replies' = replies
             \/ Shifted(replies, replies')
             \/ Extended(replies, replies', cb) /\ Monitored
      PROVE  Registered'
  <2>1. (Monitored' <=> Monitored)
    BY <1>a, <1>d
  <2>2. CASE replies' = replies
    BY <1>0, <1>d, <2>1, <2>2 DEF Registered
  <2>3. CASE Shifted(replies, replies')
    BY <1>0, <1>b, <1>d, <2>1, <2>3, SMTT(30) DEF Registered, Shifted
  <2>4. CASE Extended(replies, replies', cb) /\ Monitored
    BY <1>0, <1>b, <1>d, <2>1, <2>4 DEF Registered, Extended
  <2>5. QED  BY <1>d, <2>2, <2>3, <2>4
<1>1. ASSUME NEW kind \in Kinds, NEW topic \in Topics \cup {NoTopic}, NEW fn \in BOOLEAN,
             kind \in {"subscribe", "unsubscribe"} => topic \in Topics,
             AsyncCommand(kind, topic, fn)
      PROVE  Registered'
  <2>1. PICK c : c = [id |-> Len(issued) + 1, fn |-> fn]
    OBVIOUS
  <2>2. c.id = Len(issued) + 1 /\ c \in Callback
    BY <1>0, <2>1, <1>1, IssuedStep DEF Callback
  <2>3. /\ Len(issued') = Len(issued) + 1
        /\ Of(issued', c, kind) /\ issued'[c.id].topic = topic
        /\ \A d, k : Of(issued, d, k) =>
             Of(issued', d, k) /\ issued'[d.id].topic = issued[d.id].topic
    BY <1>0, <2>1, <2>2, <1>1, IssuedStep, OfKept, OfNew
  <2>4. Monitored' <=> Monitored \/ kind = "monitor"
    BY <1>0, <1>1, UsedStep DEF Monitored
  <2>5. /\ channels' = IF kind = "subscribe" THEN Replace(channels, topic, c) ELSE channels
        /\ invalid' = invalid \/ (kind = "get" /\ Extended(invalid, invalid', c))
        /\ \/ replies' = replies
           \/ kind \in {"monitor", "get"} /\ Extended(replies, replies', c)
        /\ cb' = cb
    BY <1>b, <2>1, <2>2, <1>1, ExtendAppend DEF AsyncCommand
  <2>6. \A k \in 1 .. Len(replies') :
          replies'[k].id <= Len(issued') /\ (~Monitored' => Of(issued', replies'[k], "get"))
    <3>1. \A k \in 1 .. Len(replies) :
            /\ replies[k].id \in Int /\ replies[k].id <= Len(issued)
            /\ ~Monitored => Of(issued, replies[k], "get")
      BY <1>0, <1>b, <1>c DEF Registered, Callback, Ids
    <3>2. CASE replies' = replies
      BY <1>b, <2>3, <2>4, <3>1, <3>2
    <3>3. CASE kind \in {"monitor", "get"} /\ Extended(replies, replies', c)
      <4>1. \A k \in 1 .. Len(replies') :
              (k \in 1 .. Len(replies) /\ replies'[k] = replies[k]) \/ replies'[k] = c
        BY <1>b, <3>3 DEF Extended
      <4>2. ~Monitored' => kind = "get" /\ ~Monitored
        BY <2>4, <3>3
      <4>3. QED  BY <1>b, <2>2, <2>3, <3>1, <4>1, <4>2
    <3>4. QED  BY <2>5, <3>2, <3>3
  <2>7. \A k \in 1 .. Len(invalid') : Of(issued', invalid'[k], "get")
    BY <1>0, <1>b, <2>3, <2>5 DEF Registered, Extended
  <2>8. \A t \in DOMAIN channels' :
          Of(issued', channels'[t], "subscribe") /\ issued'[channels'[t].id].topic = t
    <3>1. CASE kind = "subscribe"
      <4>1. /\ DOMAIN channels' = DOMAIN channels \cup {topic}
            /\ \A t \in DOMAIN channels' : channels'[t] = IF t = topic THEN c ELSE channels[t]
        BY <2>5, <3>1 DEF Replace
      <4>2. QED  BY <1>0, <2>3, <3>1, <4>1 DEF Registered
    <3>2. CASE kind # "subscribe"
      BY <1>0, <2>3, <2>5, <3>2 DEF Registered
    <3>3. QED  BY <3>1, <3>2
  <2>9. cb'.id <= Len(issued')
    <3>1. cb.id \in Int
      BY <1>0, <1>c DEF TQueues, Callback, Ids
    <3>2. QED  BY <1>0, <1>b, <2>3, <2>5, <3>1 DEF Registered
  <2>10. QED  BY <2>6, <2>7, <2>8, <2>9 DEF Registered
<1>2. CASE AsyncDisconnect
  BY <1>0, <1>d, <1>2 DEF AsyncDisconnect, queues, Registered
<1>3. CASE AsyncFree
  BY <1>0, <1>d, <1>3 DEF AsyncFree, queues, Registered
<1>4. ASSUME NEW e \in {"read", "write"}, HandleEvent(e)
      PROVE  Registered'
  BY <1>0, <1>d, <1>4 DEF HandleEvent, queues, Registered
<1>5. CASE LibuvPollError
  BY <1>0, <1>d, <1>5 DEF LibuvPollError, queues, Registered
<1>6. CASE SecondHandlerUsesFreed
  BY <1>0, <1>d, <1>6 DEF SecondHandlerUsesFreed, queues, Registered
<1>7. CASE BufferError
  BY <1>0, <1>d, <1>7 DEF BufferError, queues, Registered
<1>8. CASE BufferRead
  BY <1>0, <1>b, <1>c, <1>d, <1>8 DEF BufferRead, queues
<1>9. CASE BufferWrite
  BY <1>0, <1>d, <1>9 DEF BufferWrite, queues, Registered
<1>10. CASE NoMoreReplies
  <2>1. cb \in Callback \cup {NoCallback} /\ cb' = cb /\ issued' = issued /\ UNCHANGED <<invalid, channels>>
    BY <1>0, <1>10 DEF NoMoreReplies, TQueues
  <2>2. replies' = replies \/ (replies' = Append(replies, cb) /\ "MONITORING" \in flags)
    BY <1>10 DEF NoMoreReplies
  <2>3. "MONITORING" \in flags => Monitored
    BY <1>0 DEF UsesFlags, Monitored
  <2>4. replies' = replies \/ (Extended(replies, replies', cb) /\ Monitored)
    BY <1>b, <2>1, <2>2, <2>3, ExtendAppend
  <2>5. QED  BY <1>0, <1>d, <2>1, <2>4 DEF Registered
<1>11. CASE ProtocolError
  BY <1>0, <1>d, <1>11 DEF ProtocolError, queues, Registered
<1>12. CASE SpontaneousError
  BY <1>0, <1>d, <1>12 DEF SpontaneousError, queues, Registered
<1>13. CASE RegularReply
  <2>1. replies # <<>> /\ cb' = Head(replies) /\ replies' = Tail(replies)
    BY <1>13 DEF RegularReply
  <2>2. Shifted(replies, replies') /\ cb' = replies[1] /\ Len(replies) >= 1
    BY <1>b, <2>1, ShiftTail DEF Shifted
  <2>3. cb'.id <= Len(issued)
    BY <1>0, <1>b, <2>2 DEF Registered
  <2>4. QED  BY <1>d, <2>2, <2>3, <1>13 DEF RegularReply
<1>14. CASE UnexpectedReply
  BY <1>0, <1>d, <1>14 DEF UnexpectedReply, TakeReply, queues, Registered
<1>15. CASE SubscribedReply
  <2>1. PICK r : r = Head(inbuf)  OBVIOUS
  <2>2. cb' = cb \/ (r.topic \in DOMAIN channels /\ cb' = channels[r.topic])
            \/ (invalid # <<>> /\ cb' = Head(invalid))
    BY <2>1, <1>15 DEF SubscribedReply
  <2>3. channels' = channels \/ channels' = [u \in DOMAIN channels \ {r.topic} |-> channels[u]]
    BY <2>1, <1>15 DEF SubscribedReply
  <2>4. /\ replies' = replies /\ issued' = issued
        /\ (invalid' = invalid \/ (invalid # <<>> /\ invalid' = Tail(invalid)))
    BY <2>1, <1>15 DEF SubscribedReply
  <2>5. invalid # <<>> => Shifted(invalid, Tail(invalid)) /\ invalid[1] = Head(invalid) /\ Len(invalid) >= 1
    BY <1>b, ShiftTail DEF Shifted
  <2>6. \A c, k : Of(issued, c, k) => c.id <= Len(issued)
    BY <1>0 DEF Of, THistory
  <2>7. cb'.id <= Len(issued)
    BY <1>0, <1>b, <2>2, <2>5, <2>6 DEF Registered
  <2>8. \A k \in 1 .. Len(invalid') : Of(issued, invalid'[k], "get")
    <3>1. CASE invalid' = invalid
      BY <1>0, <3>1 DEF Registered
    <3>2. CASE invalid # <<>> /\ invalid' = Tail(invalid)
      BY <1>0, <1>b, <2>5, <3>2 DEF Registered, Shifted
    <3>3. QED  BY <2>4, <3>1, <3>2
  <2>9. \A u \in DOMAIN channels' :
           Of(issued, channels'[u], "subscribe") /\ issued[channels'[u].id].topic = u
    BY <1>0, <2>3 DEF Registered
  <2>10. QED  BY <1>0, <1>a, <2>4, <2>7, <2>8, <2>9 DEF Registered
<1>16. CASE MonitorReply
  BY <1>0, <1>d, <1>16 DEF MonitorReply, TakeReply, queues, Registered
<1>17. CASE CallbackReturns
  BY <1>0, <1>d, <1>17 DEF CallbackReturns, queues, Registered
<1>18. CASE FreeRegular
  <2>1. Shifted(replies, replies')
    BY <1>b, <1>18, ShiftTail DEF FreeRegular
  <2>2. QED  BY <1>0, <1>d, <2>1, <1>18 DEF FreeRegular, Registered
<1>19. CASE FreeInvalid
  <2>1. Shifted(invalid, invalid')
    BY <1>b, <1>19, ShiftTail DEF FreeInvalid
  <2>2. UNCHANGED <<replies, channels, cb, issued>>
    BY <1>19 DEF FreeInvalid
  <2>3. QED  BY <1>0, <1>a, <1>b, <2>1, <2>2 DEF Registered, Shifted
<1>20. ASSUME NEW t \in Topics, FreeChannel(t)
      PROVE  Registered'
  <2>1. UNCHANGED <<replies, invalid, cb, issued>>
    BY <1>20 DEF FreeChannel
  <2>2. channels' = [u \in DOMAIN channels \ {t} |-> channels[u]]
    BY <1>20 DEF FreeChannel
  <2>3. QED  BY <1>0, <1>a, <2>1, <2>2 DEF Registered
<1>21. CASE FreeCallbackReturns
  BY <1>0, <1>d, <1>21 DEF FreeCallbackReturns, queues, Registered
<1>22. CASE FreeContext
  BY <1>0, <1>d, <1>22 DEF FreeContext, queues, Registered
<1>23. CASE ServerExecutes
  BY <1>0, <1>d, <1>23 DEF ServerExecutes, queues, Registered
<1>24. CASE ServerPushes
  BY <1>0, <1>d, <1>24 DEF ServerPushes, queues, Registered
<1>25. CASE ConnectionBreaks
  BY <1>0, <1>d, <1>25 DEF ConnectionBreaks, queues, Registered
<1>26. QED
  BY <1>1, <1>2, <1>3, <1>4, <1>5, <1>6, <1>7, <1>8, <1>9, <1>10, <1>11, <1>12, <1>13,
     <1>14, <1>15, <1>16, <1>17, <1>18, <1>19, <1>20, <1>21, <1>22, <1>23, <1>24, <1>25, <1>0, BoolsAssumption
  DEF Next, Application, IssueCommand, Client, Handlers, ProcessCallbacks, Free, Server

LEMMA NotYetCalledStep ==
  THistory /\ TQueues /\ TBuffers /\ UsesFlags /\ Registered /\ NotYetCalled /\ Next
    => NotYetCalled'
<1>0. SUFFICES ASSUME THistory, TQueues, TBuffers, UsesFlags, Registered, NotYetCalled, Next
               PROVE  NotYetCalled'
  OBVIOUS
<1>a. \A c, k : Of(issued, c, k) => c.id <= Len(issued)
  BY <1>0 DEF Of, THistory
<1>b. TQueues' /\ Len(issued) \in Nat
  BY <1>0, QueuesTyped DEF THistory
<1>c. ASSUME NEW c \in Callback \cup {NoCallback}, NEW r, NEW fs, NEW inside, NEW skip,
             RunCallback(c, r, fs, inside, skip), c.id <= Len(issued), issued' = issued
      PROVE  NotYetCalled'
  <2>1. \A i \in Ids : i # c.id => calls'[i] = calls[i]
    BY <1>0, <1>c, RunEffect
  <2>2. QED  BY <1>0, <1>b, <1>c, <2>1 DEF NotYetCalled, Ids
<1>1. ASSUME NEW kind \in Kinds, NEW topic \in Topics \cup {NoTopic}, NEW fn \in BOOLEAN,
             kind \in {"subscribe", "unsubscribe"} => topic \in Topics,
             AsyncCommand(kind, topic, fn)
      PROVE  NotYetCalled'
  <2>1. calls' = calls /\ Len(issued') = Len(issued) + 1
    BY <1>0, <1>1, IssuedStep DEF AsyncCommand
  <2>2. QED  BY <1>0, <1>b, <2>1 DEF NotYetCalled, Ids
<1>2. CASE AsyncDisconnect
  BY <1>0, <1>2 DEF AsyncDisconnect, NotYetCalled
<1>3. CASE AsyncFree
  BY <1>0, <1>3 DEF AsyncFree, NotYetCalled
<1>4. ASSUME NEW e \in {"read", "write"}, HandleEvent(e)
      PROVE  NotYetCalled'
  BY <1>0, <1>4 DEF HandleEvent, NotYetCalled
<1>5. CASE LibuvPollError
  BY <1>0, <1>5 DEF LibuvPollError, NotYetCalled
<1>6. CASE SecondHandlerUsesFreed
  BY <1>0, <1>6 DEF SecondHandlerUsesFreed, NotYetCalled
<1>7. CASE BufferError
  BY <1>0, <1>7 DEF BufferError, NotYetCalled
<1>8. CASE BufferRead
  BY <1>0, <1>8 DEF BufferRead, NotYetCalled
<1>9. CASE BufferWrite
  BY <1>0, <1>9 DEF BufferWrite, NotYetCalled
<1>10. CASE NoMoreReplies
  BY <1>0, <1>10 DEF NoMoreReplies, NotYetCalled
<1>11. CASE ProtocolError
  BY <1>0, <1>11 DEF ProtocolError, NotYetCalled
<1>12. CASE SpontaneousError
  BY <1>0, <1>12 DEF SpontaneousError, NotYetCalled
<1>13. CASE RegularReply
  <2>1. /\ replies # <<>> /\ issued' = issued
        /\ \E r, fs, inside, skip : RunCallback(Head(replies), r, fs, inside, skip)
    BY <1>13 DEF RegularReply, TakeReply
  <2>2. PICK c \in Callback \cup {NoCallback} : c = Head(replies) /\ c = replies[1] /\ Len(replies) >= 1
    BY <1>0, <2>1, ShiftTail, HeadTailProperties DEF TQueues, Shifted
  <2>3. c.id <= Len(issued)
    BY <1>0, <2>2 DEF Registered, TQueues
  <2>4. QED  BY <1>c, <2>1, <2>2, <2>3
<1>14. CASE UnexpectedReply
  BY <1>0, <1>14 DEF UnexpectedReply, TakeReply, NotYetCalled
<1>15. CASE SubscribedReply
  <2>1. /\ issued' = issued
        /\ \E r, fs, inside, skip : RunCallback(cb', r, fs, inside, skip)
    BY <1>15 DEF SubscribedReply
  <2>2. PICK c \in Callback \cup {NoCallback} : c = cb'
    BY <1>b DEF TQueues
  <2>3. Registered'
    BY <1>0, RegisteredStep
  <2>4. c.id <= Len(issued)
    BY <2>1, <2>2, <2>3 DEF Registered
  <2>5. QED  BY <1>c, <2>1, <2>2, <2>4
<1>16. CASE MonitorReply
  <2>1. /\ issued' = issued /\ cb \in Callback \cup {NoCallback} /\ cb.id <= Len(issued)
        /\ \E r, fs, inside, skip : RunCallback(cb, r, fs, inside, skip)
    BY <1>0, <1>16 DEF MonitorReply, Registered, TQueues
  <2>2. QED  BY <1>c, <2>1
<1>17. CASE CallbackReturns
  BY <1>0, <1>17 DEF CallbackReturns, NotYetCalled
<1>18. CASE FreeRegular
  <2>1. /\ replies # <<>> /\ issued' = issued
        /\ \E r, fs, inside, skip : RunCallback(Head(replies), r, fs, inside, skip)
    BY <1>18 DEF FreeRegular
  <2>2. PICK c \in Callback \cup {NoCallback} : c = Head(replies) /\ c = replies[1] /\ Len(replies) >= 1
    BY <1>0, <2>1, ShiftTail, HeadTailProperties DEF TQueues, Shifted
  <2>3. c.id <= Len(issued)
    BY <1>0, <2>2 DEF Registered, TQueues
  <2>4. QED  BY <1>c, <2>1, <2>2, <2>3
<1>19. CASE FreeInvalid
  <2>1. /\ invalid # <<>> /\ issued' = issued
        /\ \E r, fs, inside, skip : RunCallback(Head(invalid), r, fs, inside, skip)
    BY <1>19 DEF FreeInvalid
  <2>2. PICK c \in Callback \cup {NoCallback} : c = Head(invalid) /\ c = invalid[1] /\ Len(invalid) >= 1
    BY <1>0, <2>1, ShiftTail, HeadTailProperties DEF TQueues, Shifted
  <2>3. c.id <= Len(issued)
    BY <1>0, <1>a, <2>2 DEF Registered, TQueues
  <2>4. QED  BY <1>c, <2>1, <2>2, <2>3
<1>20. ASSUME NEW t \in Topics, FreeChannel(t)
      PROVE  NotYetCalled'
  <2>1. /\ t \in DOMAIN channels /\ issued' = issued
        /\ \E r, fs, inside, skip : RunCallback(channels[t], r, fs, inside, skip)
    BY <1>20 DEF FreeChannel
  <2>2. PICK c \in Callback \cup {NoCallback} : c = channels[t]
    BY <1>0, <2>1 DEF TQueues
  <2>3. c.id <= Len(issued)
    BY <1>0, <1>a, <2>1, <2>2 DEF Registered
  <2>4. QED  BY <1>c, <2>1, <2>2, <2>3
<1>21. CASE FreeCallbackReturns
  BY <1>0, <1>21 DEF FreeCallbackReturns, NotYetCalled
<1>22. CASE FreeContext
  BY <1>0, <1>22 DEF FreeContext, NotYetCalled
<1>23. CASE ServerExecutes
  BY <1>0, <1>23 DEF ServerExecutes, NotYetCalled
<1>24. CASE ServerPushes
  BY <1>0, <1>24 DEF ServerPushes, NotYetCalled
<1>25. CASE ConnectionBreaks
  BY <1>0, <1>25 DEF ConnectionBreaks, NotYetCalled
<1>26. QED
  BY <1>1, <1>2, <1>3, <1>4, <1>5, <1>6, <1>7, <1>8, <1>9, <1>10, <1>11, <1>12, <1>13,
     <1>14, <1>15, <1>16, <1>17, <1>18, <1>19, <1>20, <1>21, <1>22, <1>23, <1>24, <1>25, <1>0, BoolsAssumption
  DEF Next, Application, IssueCommand, Client, Handlers, ProcessCallbacks, Free, Server

-----------------------------------------------------------------------------
(* Replies and callbacks stay in step. *)

(* What the pipeline is about, besides the streams. *)
SameFlag(f) == f \in flags' <=> f \in flags
Aside == UNCHANGED <<channels, subscribed, issued, broken>> /\ SameFlag("SUBSCRIBED")

PipelineCase ==
  \/ Issuing
  \/ Still /\ replies' = replies /\ Aside
  \/ Taking /\ Shifted(replies, replies') /\ Aside
  \/ SubscribedReply \/ ServerExecutes \/ ServerPushes \/ ConnectionBreaks

LEMMA PipelineCases ==
  ASSUME TControl, TBuffers, TQueues, UsesFlags, Next, Open', ~Monitored'
  PROVE  Open /\ PipelineCase
<1>0. TControl /\ TBuffers /\ TQueues /\ Next
  OBVIOUS
<1>a. ASSUME UNCHANGED <<obuf, toServer, inbuf, toClient>> PROVE Still
  BY <1>a DEF Still, Incoming, Outgoing
<1>b. ASSUME inbuf # <<>>, inbuf' = Tail(inbuf), UNCHANGED <<toClient, toServer, obuf>>
      PROVE  Taking
  BY <1>b, FlowTake DEF Taking
<1>c. at' \in {"idle", "read", "write", "process", "callback"}
  BY DEF Open
<1>d. ASSUME at \in {"idle", "read", "write", "process", "callback"} PROVE Open
  BY <1>d DEF Open
<1>e. ASSUME issued' = issued PROVE "MONITORING" \notin flags
  BY <1>e DEF Monitored, Used, UsesFlags
<1>1. ASSUME NEW kind \in Kinds, NEW topic \in Topics \cup {NoTopic}, NEW fn \in BOOLEAN,
             kind \in {"subscribe", "unsubscribe"} => topic \in Topics,
             AsyncCommand(kind, topic, fn)
      PROVE  Open /\ PipelineCase
  <2>1. at \in {"idle", "read", "write", "process", "callback"}
    BY <1>c, <1>1 DEF AsyncCommand
  <2>2. QED  BY <2>1, <1>d, <1>1 DEF PipelineCase, Issuing, Issues
<1>2. CASE AsyncDisconnect
  <2>1. SameFlag("SUBSCRIBED") /\ at \in {"idle", "read", "write", "process", "callback"}
    BY <1>c, <1>2 DEF AsyncDisconnect, CloseWith, SameFlag
  <2>2. QED  BY <1>a, <1>c, <1>d, <2>1, <1>2 DEF AsyncDisconnect, CloseWith, socket, server,
                queues, PipelineCase, Aside
<1>3. CASE AsyncFree
  <2>1. SameFlag("SUBSCRIBED") /\ at \in {"idle", "read", "write", "process", "callback"}
    BY <1>c, <1>3 DEF AsyncFree, SameFlag
  <2>2. QED  BY <1>a, <1>d, <2>1, <1>3 DEF AsyncFree, socket, server, queues, PipelineCase, Aside
<1>4. ASSUME NEW e \in {"read", "write"}, HandleEvent(e)
      PROVE  Open /\ PipelineCase
  <2>1. SameFlag("SUBSCRIBED") /\ at \in {"idle", "read", "write", "process", "callback"}
    BY <1>c, <1>4 DEF HandleEvent, CloseWith, SameFlag
  <2>2. QED  BY <1>a, <1>c, <1>d, <2>1, <1>4 DEF HandleEvent, CloseWith, socket, server, queues,
                PipelineCase, Aside
<1>5. CASE LibuvPollError
  BY <1>a, <1>c, <1>d, <1>5 DEF LibuvPollError, socket, server, queues, PipelineCase, Aside,
     SameFlag
<1>6. CASE SecondHandlerUsesFreed
  BY <1>c, <1>6 DEF SecondHandlerUsesFreed
<1>7. CASE BufferError
  <2>1. SameFlag("SUBSCRIBED") /\ at \in {"idle", "read", "write", "process", "callback"}
    BY <1>c, <1>7 DEF BufferError, CloseWith, SameFlag
  <2>2. QED  BY <1>a, <1>c, <1>d, <2>1, <1>7 DEF BufferError, CloseWith, socket, server, queues,
                PipelineCase, Aside
<1>8. CASE BufferRead
  <2>1. Still
    BY <1>8, FlowBuffers DEF Still
  <2>2. QED  BY <1>d, <2>1, <1>8 DEF BufferRead, server, queues, PipelineCase, Aside, SameFlag
<1>9. CASE BufferWrite
  <2>1. Still
    BY <1>9, FlowBuffers DEF Still
  <2>2. QED  BY <1>d, <2>1, <1>9 DEF BufferWrite, server, queues, PipelineCase, Aside, SameFlag
<1>10. CASE NoMoreReplies
  <2>1. "MONITORING" \notin flags
    BY <1>e, <1>10 DEF NoMoreReplies
  <2>2. Still
    BY <1>a, <1>10 DEF NoMoreReplies, socket
  <2>3. QED  BY <1>c, <1>d, <2>1, <2>2, <1>10 DEF NoMoreReplies, CloseWith, socket, server,
                PipelineCase, Aside, SameFlag
<1>11. CASE ProtocolError
  <2>1. SameFlag("SUBSCRIBED") /\ at \in {"idle", "read", "write", "process", "callback"}
    BY <1>c, <1>11 DEF ProtocolError, CloseWith, SameFlag
  <2>2. QED  BY <1>a, <1>c, <1>d, <2>1, <1>11 DEF ProtocolError, CloseWith, socket, server,
                queues, PipelineCase, Aside
<1>12. CASE SpontaneousError
  <2>1. SameFlag("SUBSCRIBED") /\ at \in {"idle", "read", "write", "process", "callback"}
    BY <1>c, <1>12 DEF SpontaneousError, CloseWith, SameFlag
  <2>2. QED  BY <1>a, <1>c, <1>d, <2>1, <1>12 DEF SpontaneousError, CloseWith, socket, server,
                queues, PipelineCase, Aside
<1>13. CASE RegularReply
  <2>1. Taking
    BY <1>b, <1>13 DEF RegularReply, TakeReply, socket
  <2>2. Shifted(replies, replies')
    BY <1>13, ShiftTail DEF RegularReply, TQueues
  <2>3. SameFlag("SUBSCRIBED")
    BY <1>13 DEF RegularReply, RunCallback, SameFlag
  <2>4. QED  BY <1>d, <2>1, <2>2, <2>3, <1>13 DEF RegularReply, TakeReply, socket, server,
                PipelineCase, Aside
<1>14. CASE UnexpectedReply
  BY <1>c, <1>14 DEF UnexpectedReply
<1>15. CASE SubscribedReply
  BY <1>d, <1>15 DEF SubscribedReply, TakeReply, PipelineCase
<1>16. CASE MonitorReply
  BY <1>e, <1>16 DEF MonitorReply
<1>17. CASE CallbackReturns
  <2>1. SameFlag("SUBSCRIBED")
    BY <1>17 DEF CallbackReturns, SameFlag
  <2>2. QED  BY <1>a, <1>d, <2>1, <1>17 DEF CallbackReturns, socket, server, queues,
                PipelineCase, Aside
<1>18. CASE FreeRegular
  BY <1>c, <1>18 DEF FreeRegular, RunCallback
<1>19. CASE FreeInvalid
  BY <1>c, <1>19 DEF FreeInvalid, RunCallback
<1>20. ASSUME NEW t \in Topics, FreeChannel(t)
      PROVE  Open /\ PipelineCase
  BY <1>c, <1>20 DEF FreeChannel, RunCallback
<1>21. CASE FreeCallbackReturns
  BY <1>c, <1>21 DEF FreeCallbackReturns
<1>22. CASE FreeContext
  BY <1>c, <1>22 DEF FreeContext
<1>23. CASE ServerExecutes
  BY <1>c, <1>d, <1>23 DEF ServerExecutes, PipelineCase
<1>24. CASE ServerPushes
  BY <1>c, <1>d, <1>24 DEF ServerPushes, PipelineCase
<1>25. CASE ConnectionBreaks
  BY <1>c, <1>d, <1>25 DEF ConnectionBreaks, PipelineCase
<1>26. QED
  BY <1>1, <1>2, <1>3, <1>4, <1>5, <1>6, <1>7, <1>8, <1>9, <1>10, <1>11, <1>12, <1>13,
     <1>14, <1>15, <1>16, <1>17, <1>18, <1>19, <1>20, <1>21, <1>22, <1>23, <1>24, <1>25, <1>0, BoolsAssumption
  DEF Next, Application, IssueCommand, Client, Handlers, ProcessCallbacks, Free, Server

LEMMA PipeStill ==
  ASSUME InStep, Still, replies' = replies, Aside
  PROVE  InStep'
<1>1. Known' <=> Known
  BY DEF Aside, Known
<1>2. RegularFirst'
  BY DEF InStep, RegularFirst, Still, Aside, Unsolicited
<1>3. ThenPubSub'
  BY <1>1 DEF InStep, ThenPubSub, Still, Aside, Unsolicited, Expected, SubscribeBefore
<1>4. OnlyRegular'
  BY DEF InStep, OnlyRegular, Still, Aside, SameFlag, Unsolicited
<1>5. SubscribedMode'
  BY DEF InStep, SubscribedMode, Still, Aside, SameFlag, SubscribeBefore
<1>6. UnsubscribeTrue'
  BY DEF InStep, UnsubscribeTrue, Still, Aside, Unsolicited
<1>7. QED  BY <1>2, <1>3, <1>4, <1>5, <1>6 DEF InStep

LEMMA PipeIssue ==
  ASSUME THistory, TBuffers, TQueues, TServer, TBooleans, InStep, Waited', ~Monitored',
         NEW kind \in Kinds, NEW topic \in Topics \cup {NoTopic}, NEW fn \in BOOLEAN,
         Issues(kind, topic, fn)
  PROVE  InStep'
<1>a. /\ Len(Incoming) \in Nat /\ Len(Outgoing) \in Nat /\ Len(replies) \in Nat
      /\ replies \in Seq(Callback \cup {NoCallback})
  BY StreamsTyped DEF TQueues
<1>1. PICK c \in Command :
        /\ c = Sent(Len(issued) + 1, kind, topic)
        /\ c.kind = kind /\ c.id = Len(issued) + 1 /\ c.topic = topic
  BY SentTyped DEF Sent, Issues
<1>2. Incoming' = Incoming /\ Extended(Outgoing, Outgoing', c)
  BY <1>1, FlowIssue DEF Issues
<1>3. /\ \A k \in 1 .. Len(Outgoing) : Outgoing[k].kind # "unsubscribe"
      /\ \A k \in 1 .. Len(Incoming) : Incoming[k].what # "unsubscribe"
  BY WaitedStep DEF Issues
<1>4. DOMAIN channels \subseteq DOMAIN channels' /\ (kind = "subscribe" => topic \in DOMAIN channels')
  BY DEF Issues, AsyncCommand, Replace
<1>5. subscribed' = subscribed /\ broken' = broken
  BY DEF Issues, AsyncCommand, socket, server
<1>6. "SUBSCRIBED" \in flags' <=> "SUBSCRIBED" \in flags \/ kind = "subscribe"
  BY DEF Issues, AsyncCommand
<1>7. kind \in {"get", "subscribe", "unsubscribe"}
  <2>1. kind # "monitor"
    BY UsedStep DEF Issues, Monitored
  <2>2. QED  BY <2>1, KindsAssumption
<1>8. kind = "unsubscribe" => "SUBSCRIBED" \in flags
  BY DEF Issues, AsyncCommand, Accepted
<1>9. IF kind = "get" /\ "SUBSCRIBED" \notin flags
        THEN \E d : d.id = c.id /\ Extended(replies, replies', d)
        ELSE replies' = replies
  <2>1. PICK d : d = [id |-> Len(issued) + 1, fn |-> fn]
    OBVIOUS
  <2>6. d.id = c.id
    BY <1>1, <2>1
  <2>2. d \in Callback \cup {NoCallback}
    BY <2>1, IssuedStep DEF Issues, Callback
  <2>3. kind = "get" /\ "SUBSCRIBED" \notin flags => replies' = Append(replies, d)
    BY <2>1 DEF Issues, AsyncCommand
  <2>4. ~(kind = "get" /\ "SUBSCRIBED" \notin flags) => replies' = replies
    BY <1>7 DEF Issues, AsyncCommand
  <2>5. Extended(replies, Append(replies, d), d)
    BY <1>a, <2>2, ExtendAppend
  <2>7. QED  BY <2>3, <2>4, <2>5, <2>6
<1>10. Known' => Known /\ (kind = "unsubscribe" => topic \in DOMAIN channels)
  BY KnownStep DEF Issues
<1>11. /\ Len(Outgoing') = Len(Outgoing) + 1 /\ Outgoing'[Len(Outgoing) + 1] = c
       /\ \A k \in 1 .. Len(Outgoing) : Outgoing'[k] = Outgoing[k]
  BY <1>2 DEF Extended
<1>12. /\ Len(replies') \in {Len(replies), Len(replies) + 1}
       /\ \A k \in 1 .. Len(replies) : replies'[k] = replies[k]
       /\ Len(replies') = Len(replies) + 1 =>
            kind = "get" /\ "SUBSCRIBED" \notin flags /\ replies'[Len(replies) + 1].id = c.id
       /\ Len(replies') = Len(replies) => "SUBSCRIBED" \in flags \/ kind # "get"
  BY <1>a, <1>9 DEF Extended
<1>13. RegularFirst'
  <2>1. ASSUME NEW k \in 1 .. Len(Incoming'), k <= Len(replies')
        PROVE  \/ Unsolicited(Incoming'[k])
               \/ Incoming'[k].what = "answer" /\ Incoming'[k].of = replies'[k].id
    <3>1. CASE k <= Len(replies)
      BY <1>a, <1>2, <1>12, <2>1, <3>1 DEF InStep, RegularFirst
    <3>2. CASE k > Len(replies)
      BY <1>a, <1>2, <1>12, <2>1, <3>2 DEF InStep, OnlyRegular
    <3>3. QED  BY <1>a, <1>12, <2>1, <3>1, <3>2
  <2>2. ASSUME ~broken
        PROVE  Len(replies') <= Len(Incoming') + Len(Outgoing')
    BY <1>a, <1>2, <1>11, <1>12, <2>2 DEF InStep, RegularFirst
  <2>3. ASSUME ~broken, NEW k \in 1 .. Len(Outgoing'), k + Len(Incoming') <= Len(replies')
        PROVE  Outgoing'[k].kind = "get" /\ Outgoing'[k].id = replies'[k + Len(Incoming')].id
    <3>1. CASE k <= Len(Outgoing)
      <4>1. k + Len(Incoming) <= Len(replies)
        BY <1>a, <1>2, <1>12, <2>3, <3>1 DEF InStep, OnlyRegular
      <4>2. QED  BY <1>a, <1>2, <1>11, <1>12, <2>3, <3>1, <4>1, SMTT(30) DEF InStep, RegularFirst
    <3>2. CASE k = Len(Outgoing) + 1
      <4>1. Len(replies') = Len(replies) + 1
        BY <1>a, <1>2, <1>12, <2>3, <3>2 DEF InStep, RegularFirst
      <4>2. k + Len(Incoming') = Len(replies) + 1
        BY <1>a, <1>2, <1>12, <2>3, <3>2, <4>1 DEF InStep, OnlyRegular
      <4>3. QED  BY <1>1, <1>11, <1>12, <3>2, <4>1, <4>2
    <3>3. QED  BY <1>a, <1>11, <2>3, <3>1, <3>2
  <2>4. ASSUME ~broken, subscribed # {} PROVE Len(replies') <= Len(Incoming')
    BY <1>a, <1>2, <1>12, <2>4 DEF InStep, RegularFirst, OnlyRegular
  <2>5. QED  BY <1>5, <2>1, <2>2, <2>3, <2>4 DEF RegularFirst
<1>14. ThenPubSub'
  <2>1. ASSUME NEW k \in 1 .. Len(Incoming'), k > Len(replies') PROVE Expected(Incoming[k])'
    <3>1. k \in 1 .. Len(Incoming) /\ k > Len(replies) /\ Incoming'[k] = Incoming[k]
      BY <1>a, <1>2, <1>12, <2>1
    <3>2. Expected(Incoming[k])
      BY <3>1 DEF InStep, ThenPubSub
    <3>3. QED  BY <1>4, <1>10, <3>1, <3>2 DEF Expected, Unsolicited
  <2>2. ASSUME NEW k \in 1 .. Len(Outgoing')
        PROVE  /\ Outgoing'[k].kind = "subscribe" => Outgoing'[k].topic \in DOMAIN channels'
               /\ Known' /\ Outgoing'[k].kind = "unsubscribe" => Outgoing'[k].topic \in DOMAIN channels'
    <3>1. CASE k <= Len(Outgoing)
      BY <1>a, <1>4, <1>10, <1>11, <3>1 DEF InStep, ThenPubSub
    <3>2. CASE k = Len(Outgoing) + 1
      BY <1>1, <1>4, <1>10, <1>11, <3>2
    <3>3. QED  BY <1>a, <1>11, <2>2, <3>1, <3>2
  <2>3. ASSUME NEW k \in 1 .. Len(Outgoing'), ~broken, Outgoing'[k].kind = "get",
               k + Len(Incoming') > Len(replies')
        PROVE  \/ subscribed # {}
               \/ \E j \in 1 .. Len(Outgoing') : j < k /\ Outgoing'[j].kind = "subscribe"
    <3>1. CASE k <= Len(Outgoing)
      <4>1. k + Len(Incoming) > Len(replies)
        BY <1>a, <1>2, <1>12, <2>3
      <4>2. SubscribeBefore(k)
        BY <1>a, <1>11, <2>3, <3>1, <4>1 DEF InStep, ThenPubSub
      <4>3. QED  BY <1>a, <1>11, <4>2 DEF SubscribeBefore
    <3>2. CASE k = Len(Outgoing) + 1
      <4>1. kind = "get"
        BY <1>1, <1>11, <2>3, <3>2
      <4>2. "SUBSCRIBED" \in flags
        BY <1>a, <1>2, <1>9, <1>12, <2>3, <3>2, <4>1 DEF InStep, OnlyRegular
      <4>3. SubscribeBefore(Len(Outgoing) + 1)
        BY <1>3, <2>3, <4>2 DEF InStep, SubscribedMode
      <4>4. QED  BY <1>a, <1>11, <3>2, <4>3 DEF SubscribeBefore
    <3>3. QED  BY <1>a, <1>11, <2>3, <3>1, <3>2
  <2>4. subscribed \subseteq DOMAIN channels'
    BY <1>4 DEF InStep, ThenPubSub
  <2>5. QED  BY <1>5, <2>1, <2>2, <2>3, <2>4 DEF ThenPubSub, SubscribeBefore
<1>15. OnlyRegular'
  <2>1. SUFFICES ASSUME "SUBSCRIBED" \notin flags'
                 PROVE  /\ \A k \in 1 .. Len(Incoming') : k > Len(replies') => Unsolicited(Incoming'[k])
                        /\ ~broken => Len(replies') = Len(Incoming') + Len(Outgoing') /\ subscribed = {}
    BY <1>5 DEF OnlyRegular
  <2>2. kind = "get" /\ "SUBSCRIBED" \notin flags
    BY <1>6, <1>7, <1>8, <2>1
  <2>3. Len(replies') = Len(replies) + 1
    BY <1>12, <2>2
  <2>4. QED  BY <1>a, <1>2, <1>11, <2>2, <2>3 DEF InStep, OnlyRegular
<1>16. SubscribedMode'
  <2>1. SUFFICES ASSUME "SUBSCRIBED" \in flags', ~broken
                 PROVE  \/ subscribed # {}
                        \/ \E j \in 1 .. Len(Outgoing') :
                             j < Len(Outgoing') + 1 /\ Outgoing'[j].kind = "subscribe"
    BY <1>5 DEF SubscribedMode, SubscribeBefore
  <2>2. CASE kind = "subscribe"
    BY <1>a, <1>1, <1>11, <2>2
  <2>3. CASE kind # "subscribe"
    <3>1. SubscribeBefore(Len(Outgoing) + 1)
      BY <1>3, <1>6, <2>1, <2>3 DEF InStep, SubscribedMode
    <3>2. QED  BY <1>a, <1>11, <3>1 DEF SubscribeBefore
  <2>4. QED  BY <2>2, <2>3
<1>17. UnsubscribeTrue'
  BY <1>2, <1>3 DEF UnsubscribeTrue
<1>18. QED  BY <1>13, <1>14, <1>15, <1>16, <1>17 DEF InStep

LEMMA PipeRegular ==
  ASSUME TBuffers, TQueues, InStep, Taking, Shifted(replies, replies'), Aside
  PROVE  InStep'
<1>a. Len(Incoming) \in Nat /\ Len(Outgoing) \in Nat /\ Len(replies) \in Nat
  BY StreamsTyped DEF TQueues
<1>1. Known' <=> Known
  BY DEF Aside, Known
<1>2. /\ Outgoing' = Outgoing /\ Len(Incoming') = Len(Incoming) - 1
      /\ Len(Incoming') \in Nat
      /\ \A k \in 1 .. Len(Incoming') : k + 1 \in 1 .. Len(Incoming) /\ Incoming'[k] = Incoming[k + 1]
  BY <1>a DEF Taking, Shifted
<1>3. /\ Len(replies') = Len(replies) - 1 /\ Len(replies') \in Nat
      /\ \A k \in 1 .. Len(replies') : k + 1 \in 1 .. Len(replies) /\ replies'[k] = replies[k + 1]
  BY <1>a DEF Shifted
<1>4. UNCHANGED <<channels, subscribed, issued, broken>> /\ SameFlag("SUBSCRIBED")
  BY DEF Aside
<1>5. RegularFirst'
  <2>1. ASSUME NEW k \in 1 .. Len(Incoming'), k <= Len(replies')
        PROVE  \/ Unsolicited(Incoming'[k])
               \/ Incoming'[k].what = "answer" /\ Incoming'[k].of = replies'[k].id
    BY <1>a, <1>2, <1>3, <2>1, SMTT(30) DEF InStep, RegularFirst
  <2>2. ASSUME ~broken PROVE Len(replies') <= Len(Incoming') + Len(Outgoing')
    BY <1>a, <1>2, <1>3, <2>2 DEF InStep, RegularFirst
  <2>3. ASSUME ~broken, NEW k \in 1 .. Len(Outgoing'), k + Len(Incoming') <= Len(replies')
        PROVE  Outgoing'[k].kind = "get" /\ Outgoing'[k].id = replies'[k + Len(Incoming')].id
    <3>1. k + Len(Incoming) <= Len(replies) /\ k \in 1 .. Len(Outgoing)
      BY <1>a, <1>2, <1>3, <2>3
    <3>2. replies'[k + Len(Incoming')] = replies[k + Len(Incoming)]
      BY <1>a, <1>2, <1>3, <2>3
    <3>3. QED  BY <1>2, <2>3, <3>1, <3>2 DEF InStep, RegularFirst
  <2>4. ASSUME ~broken, subscribed # {} PROVE Len(replies') <= Len(Incoming')
    BY <1>a, <1>2, <1>3, <2>4 DEF InStep, RegularFirst
  <2>5. QED  BY <1>4, <2>1, <2>2, <2>3, <2>4 DEF RegularFirst
<1>6. ThenPubSub'
  <2>1. ASSUME NEW k \in 1 .. Len(Incoming'), k > Len(replies') PROVE Expected(Incoming[k])'
    <3>1. Expected(Incoming[k + 1])
      BY <1>a, <1>2, <1>3, <2>1, SMTT(30) DEF InStep, ThenPubSub
    <3>2. QED  BY <1>1, <1>2, <1>4, <3>1 DEF Expected, Unsolicited
  <2>2. ASSUME NEW k \in 1 .. Len(Outgoing), ~broken, Outgoing[k].kind = "get",
               k + Len(Incoming') > Len(replies')
        PROVE  SubscribeBefore(k)
    BY <1>a, <1>2, <1>3, <2>2 DEF InStep, ThenPubSub
  <2>3. \A k \in 1 .. Len(Outgoing) :
          /\ Outgoing[k].kind = "subscribe" => Outgoing[k].topic \in DOMAIN channels
          /\ Known /\ Outgoing[k].kind = "unsubscribe" => Outgoing[k].topic \in DOMAIN channels
    BY DEF InStep, ThenPubSub
  <2>4. subscribed \subseteq DOMAIN channels
    BY DEF InStep, ThenPubSub
  <2>5. QED  BY <1>1, <1>2, <1>4, <2>1, <2>2, <2>3, <2>4 DEF ThenPubSub, SubscribeBefore
<1>7. OnlyRegular'
  <2>1. SUFFICES ASSUME "SUBSCRIBED" \notin flags'
                 PROVE  /\ \A k \in 1 .. Len(Incoming') : k > Len(replies') => Unsolicited(Incoming'[k])
                        /\ ~broken => Len(replies') = Len(Incoming') + Len(Outgoing') /\ subscribed = {}
    BY <1>4 DEF OnlyRegular
  <2>2. /\ \A k \in 1 .. Len(Incoming) : k > Len(replies) => Unsolicited(Incoming[k])
        /\ ~broken => Len(replies) = Len(Incoming) + Len(Outgoing) /\ subscribed = {}
    BY <1>4, <2>1 DEF InStep, OnlyRegular, SameFlag
  <2>3. ASSUME NEW k \in 1 .. Len(Incoming'), k > Len(replies') PROVE Unsolicited(Incoming'[k])
    <3>1. k + 1 > Len(replies) /\ k + 1 \in 1 .. Len(Incoming)
      BY <1>a, <1>2, <1>3, <2>3
    <3>2. Unsolicited(Incoming[k + 1])
      BY <2>2, <3>1
    <3>3. QED  BY <1>2, <3>2
  <2>4. QED  BY <1>a, <1>2, <1>3, <2>2, <2>3
<1>8. SubscribedMode'
  <2>1. SUFFICES ASSUME "SUBSCRIBED" \in flags', ~broken
                 PROVE  \/ subscribed # {}
                        \/ \E j \in 1 .. Len(Outgoing) :
                             j < Len(Outgoing) + 1 /\ Outgoing[j].kind = "subscribe"
                        \/ \E k \in 1 .. Len(Incoming') : Incoming'[k].what = "unsubscribe"
    BY <1>2, <1>4 DEF SubscribedMode, SubscribeBefore
  <2>2. \/ SubscribeBefore(Len(Outgoing) + 1)
        \/ \E k \in 1 .. Len(Incoming) : Incoming[k].what = "unsubscribe"
    BY <1>4, <2>1 DEF InStep, SubscribedMode, SameFlag
  <2>3. ASSUME NEW k \in 1 .. Len(Incoming), Incoming[k].what = "unsubscribe"
        PROVE  \E l \in 1 .. Len(Incoming') : Incoming'[l].what = "unsubscribe"
    <3>1. k # 1
      <4>1. /\ 1 \in 1 .. Len(Incoming) /\ 1 <= Len(replies)
        BY <1>a, <1>2, <1>3
      <4>2. QED  BY <2>3, <4>1 DEF InStep, RegularFirst, Unsolicited
    <3>2. k - 1 \in 1 .. Len(Incoming') /\ Incoming'[k - 1] = Incoming[k]
      BY <1>a, <1>2, <3>1
    <3>3. QED  BY <2>3, <3>2
  <2>4. QED  BY <2>2, <2>3 DEF SubscribeBefore
<1>9. UnsubscribeTrue'
  <2>1. SUFFICES ASSUME NEW k \in 1 .. Len(Incoming'), Incoming'[k].what = "unsubscribe"
        PROVE  /\ Incoming'[k].topic \notin subscribed
               /\ Incoming'[k].left = Cardinality(subscribed)
               /\ Incoming'[k].left = 0 => Incoming'[k].topic \in DOMAIN channels
               /\ \A j \in 1 .. Len(Incoming') : j > k =>
                    \/ Unsolicited(Incoming'[j])
                    \/ Incoming'[j].what = "message" /\ Incoming'[j].topic \in subscribed
    BY <1>4 DEF UnsubscribeTrue
  <2>2. k + 1 \in 1 .. Len(Incoming) /\ Incoming[k + 1].what = "unsubscribe"
        /\ Incoming'[k] = Incoming[k + 1]
    BY <1>2, <2>1
  <2>3. \A j \in 1 .. Len(Incoming') : j > k => j + 1 > k + 1
    BY <1>2
  <2>4. QED  BY <1>2, <2>2, <2>3 DEF InStep, UnsubscribeTrue
<1>10. QED  BY <1>5, <1>6, <1>7, <1>8, <1>9 DEF InStep

LEMMA PipeSubscribed ==
  ASSUME TBuffers, TQueues, TServer, TControl, InStep, LastWords, UnsubscribeLast, SubscribedReply
  PROVE  InStep'
<1>a. /\ Len(Incoming) \in Nat /\ Len(Outgoing) \in Nat /\ replies = <<>> /\ Len(replies) = 0
      /\ replies' = replies
  BY StreamsTyped DEF SubscribedReply
<1>b. UNCHANGED <<subscribed, issued, broken>> /\ (Known' <=> Known)
  BY DEF SubscribedReply, server, socket, Known
<1>1. Taking
  BY FlowTake DEF SubscribedReply, TakeReply, socket, Taking
<1>2. /\ Outgoing' = Outgoing /\ Len(Incoming') = Len(Incoming) - 1 /\ 1 \in 1 .. Len(Incoming)
      /\ Len(Incoming') \in Nat
      /\ \A k \in 1 .. Len(Incoming') : k + 1 \in 1 .. Len(Incoming) /\ Incoming'[k] = Incoming[k + 1]
  BY <1>a, <1>1 DEF Taking, Shifted
<1>3. PICK r : r = Head(inbuf) /\ r = Incoming[1]
  BY <1>1 DEF Taking
<1>4. r.type # "garbage" /\ r.type # "error" /\ "SUBSCRIBED" \in flags
  BY <1>3 DEF SubscribedReply, TakeReply
<1>5. /\ r.type = "array" /\ r.what \in {"subscribe", "unsubscribe", "message"}
      /\ r.what = "unsubscribe" \/ r.topic \in DOMAIN channels
  BY <1>a, <1>2, <1>3, <1>4 DEF InStep, ThenPubSub, Expected, Unsolicited
<1>6. CASE r.what # "unsubscribe"
  <2>1. channels' = channels
    BY <1>3, <1>6 DEF SubscribedReply
  <2>2. SameFlag("SUBSCRIBED")
    BY <1>3, <1>6 DEF SubscribedReply, RunCallback, SameFlag
  <2>3. RegularFirst'
    <3>1. ~broken => Outgoing = Outgoing
      OBVIOUS
    <3>2. \A k \in 1 .. Len(Outgoing) : ~(k + Len(Incoming') <= 0)
      BY <1>a, <1>2
    <3>3. QED  BY <1>a, <1>b, <1>2, <3>2 DEF RegularFirst
  <2>4. ThenPubSub'
    <3>1. ASSUME NEW k \in 1 .. Len(Incoming') PROVE Expected(Incoming[k])'
      <4>1. Expected(Incoming[k + 1])
        BY <1>a, <1>2 DEF InStep, ThenPubSub
      <4>2. QED  BY <1>b, <1>2, <2>1, <4>1 DEF Expected, Unsolicited
    <3>2. ASSUME NEW k \in 1 .. Len(Outgoing), ~broken, Outgoing[k].kind = "get"
          PROVE  SubscribeBefore(k)
      BY <1>a, <3>2 DEF InStep, ThenPubSub
    <3>3. \A k \in 1 .. Len(Outgoing) :
            /\ Outgoing[k].kind = "subscribe" => Outgoing[k].topic \in DOMAIN channels
            /\ Known /\ Outgoing[k].kind = "unsubscribe" => Outgoing[k].topic \in DOMAIN channels
      BY DEF InStep, ThenPubSub
    <3>4. subscribed \subseteq DOMAIN channels
      BY DEF InStep, ThenPubSub
    <3>5. QED  BY <1>b, <1>2, <2>1, <3>1, <3>2, <3>3, <3>4 DEF ThenPubSub, SubscribeBefore
  <2>5. OnlyRegular'
    BY <1>4, <2>2 DEF OnlyRegular, SameFlag
  <2>6. SubscribedMode'
    <3>1. SUFFICES ASSUME ~broken
                   PROVE  \/ subscribed # {}
                          \/ \E j \in 1 .. Len(Outgoing) :
                               j < Len(Outgoing) + 1 /\ Outgoing[j].kind = "subscribe"
                          \/ \E k \in 1 .. Len(Incoming') : Incoming'[k].what = "unsubscribe"
      BY <1>2, <1>b DEF SubscribedMode, SubscribeBefore
    <3>2. \/ SubscribeBefore(Len(Outgoing) + 1)
          \/ \E k \in 1 .. Len(Incoming) : Incoming[k].what = "unsubscribe"
      BY <1>4, <3>1 DEF InStep, SubscribedMode
    <3>3. ASSUME NEW k \in 1 .. Len(Incoming), Incoming[k].what = "unsubscribe"
          PROVE  \E l \in 1 .. Len(Incoming') : Incoming'[l].what = "unsubscribe"
      <4>1. k # 1
        BY <1>3, <1>6, <3>3
      <4>2. k - 1 \in 1 .. Len(Incoming') /\ Incoming'[k - 1] = Incoming[k]
        BY <1>a, <1>2, <4>1
      <4>3. QED  BY <3>3, <4>2
    <3>4. QED  BY <3>2, <3>3 DEF SubscribeBefore
  <2>7. UnsubscribeTrue'
    <3>1. SUFFICES ASSUME NEW k \in 1 .. Len(Incoming'), Incoming'[k].what = "unsubscribe"
          PROVE  /\ Incoming'[k].topic \notin subscribed
                 /\ Incoming'[k].left = Cardinality(subscribed)
                 /\ Incoming'[k].left = 0 => Incoming'[k].topic \in DOMAIN channels
                 /\ \A j \in 1 .. Len(Incoming') : j > k =>
                      \/ Unsolicited(Incoming'[j])
                      \/ Incoming'[j].what = "message" /\ Incoming'[j].topic \in subscribed
      BY <1>b, <2>1 DEF UnsubscribeTrue
    <3>2. k + 1 \in 1 .. Len(Incoming) /\ Incoming[k + 1].what = "unsubscribe"
          /\ Incoming'[k] = Incoming[k + 1]
      BY <1>2, <3>1
    <3>3. \A j \in 1 .. Len(Incoming') : j > k => j + 1 > k + 1
      BY <1>2
    <3>4. QED  BY <1>2, <3>2, <3>3 DEF InStep, UnsubscribeTrue
  <2>8. QED  BY <2>3, <2>4, <2>5, <2>6, <2>7 DEF InStep
<1>7. CASE r.what = "unsubscribe"
  <2>1. Outgoing = <<>> /\ Len(Outgoing) = 0
    BY <1>2, <1>3, <1>7 DEF UnsubscribeLast
  <2>2. /\ r.topic \notin subscribed /\ r.left = Cardinality(subscribed)
        /\ r.left = 0 => r.topic \in DOMAIN channels
    BY <1>2, <1>3, <1>7 DEF InStep, UnsubscribeTrue
  <2>3. \A k \in 1 .. Len(Incoming') :
          \/ Unsolicited(Incoming'[k])
          \/ Incoming'[k].what = "message" /\ Incoming'[k].topic \in subscribed
    <3>1. SUFFICES ASSUME NEW k \in 1 .. Len(Incoming')
                   PROVE  \/ Unsolicited(Incoming[k + 1])
                          \/ Incoming[k + 1].what = "message" /\ Incoming[k + 1].topic \in subscribed
      BY <1>2
    <3>2. k + 1 > 1 /\ k + 1 \in 1 .. Len(Incoming)
      BY <1>2
    <3>3. QED  BY <1>2, <1>3, <1>7, <3>2 DEF InStep, UnsubscribeTrue
  <2>4. subscribed \subseteq DOMAIN channels'
    <3>1. subscribed \subseteq DOMAIN channels
      BY DEF InStep, ThenPubSub
    <3>2. DOMAIN channels' = DOMAIN channels \/ DOMAIN channels' = DOMAIN channels \ {r.topic}
      BY <1>3 DEF SubscribedReply
    <3>3. QED  BY <2>2, <3>1, <3>2
  <2>5. "SUBSCRIBED" \in flags' <=> ~(r.topic \in DOMAIN channels /\ r.left = 0)
    BY <1>3, <1>4, <1>5, <1>7 DEF SubscribedReply, RunCallback
  <2>6. r.left = 0 <=> subscribed = {}
    BY <2>2, FS_EmptySet DEF TServer
  <2>7. RegularFirst'
    BY <1>a, <1>b, <1>2, <2>1 DEF RegularFirst
  <2>8. ThenPubSub'
    <3>1. ASSUME NEW k \in 1 .. Len(Incoming') PROVE Expected(Incoming[k])'
      <4>1. Expected(Incoming[k + 1]) /\ Incoming'[k] = Incoming[k + 1]
        BY <1>a, <1>2 DEF InStep, ThenPubSub
      <4>2. QED  BY <2>3, <2>4, <4>1 DEF Expected, Unsolicited
    <3>2. QED  BY <1>a, <1>b, <1>2, <2>1, <2>4, <3>1 DEF ThenPubSub
  <2>9. OnlyRegular'
    <3>1. SUFFICES ASSUME "SUBSCRIBED" \notin flags'
                   PROVE  /\ \A k \in 1 .. Len(Incoming') : Unsolicited(Incoming'[k])
                          /\ subscribed = {} /\ (~broken => Len(Incoming') = 0)
      BY <1>a, <1>b, <1>2, <2>1 DEF OnlyRegular
    <3>2. subscribed = {}
      BY <2>5, <2>6, <3>1
    <3>3. \A k \in 1 .. Len(Incoming') : Unsolicited(Incoming'[k])
      BY <2>3, <3>2
    <3>4. ~broken => Len(Incoming') = 0
      <4>1. SUFFICES ASSUME Len(Incoming') # 0 PROVE broken
        OBVIOUS
      <4>2. 1 \in 1 .. Len(Incoming') /\ 2 \in 1 .. Len(Incoming) /\ Incoming'[1] = Incoming[2]
        BY <1>2, <4>1
      <4>3. Incoming[2].what = "unsolicited"
        BY <3>3, <4>2 DEF Unsolicited
      <4>4. QED  BY <4>2, <4>3 DEF LastWords
    <3>5. QED  BY <3>2, <3>3, <3>4
  <2>10. SubscribedMode'
    BY <1>b, <2>2, <2>5, <2>6 DEF SubscribedMode, SubscribeBefore
  <2>11. UnsubscribeTrue'
    BY <2>3 DEF UnsubscribeTrue, Unsolicited
  <2>12. QED  BY <2>7, <2>8, <2>9, <2>10, <2>11 DEF InStep
<1>8. QED  BY <1>6, <1>7

LEMMA PipeServer ==
  ASSUME TBuffers, TQueues, TServer, UsesStreams, ~Monitored, InStep, UnsubscribeLast,
         ServerExecutes
  PROVE  InStep'
<1>a. Len(Incoming) \in Nat /\ Len(Outgoing) \in Nat /\ Len(replies) \in Nat
  BY StreamsTyped DEF TQueues
<1>b. /\ UNCHANGED <<replies, channels, issued, broken, flags>> /\ (Known' <=> Known) /\ ~broken
  BY DEF ServerExecutes, queues, Known
<1>1. PICK c \in Command :
        /\ Shifted(Outgoing, Outgoing') /\ Outgoing[1] = c
        /\ Extended(Incoming, Incoming', ServerAnswer(c))
        /\ subscribed' = CASE c.kind = "subscribe" -> subscribed \cup {c.topic}
                           [] c.kind = "unsubscribe" -> subscribed \ {c.topic}
                           [] OTHER -> subscribed
  BY FlowServer
<1>2. PICK r : r = ServerAnswer(c)  OBVIOUS
<1>3. /\ Len(Outgoing') = Len(Outgoing) - 1 /\ Len(Outgoing') \in Nat /\ 1 \in 1 .. Len(Outgoing)
      /\ \A k \in 1 .. Len(Outgoing') : k + 1 \in 1 .. Len(Outgoing) /\ Outgoing'[k] = Outgoing[k + 1]
  BY <1>a, <1>1 DEF Shifted
<1>4. /\ Len(Incoming') = Len(Incoming) + 1 /\ Incoming'[Len(Incoming) + 1] = r
      /\ \A k \in 1 .. Len(Incoming) : Incoming'[k] = Incoming[k]
  BY <1>1, <1>2 DEF Extended
<1>5. c.kind \in {"get", "subscribe", "unsubscribe"}
  BY <1>1, <1>3, KindsAssumption DEF UsesStreams, Monitored, Command
<1>6. /\ c.kind = "get" => /\ subscribed' = subscribed /\ r.what = "answer" /\ r.of = c.id
                           /\ subscribed # {} => r.type = "error"
      /\ c.kind = "subscribe" => /\ subscribed' = subscribed \cup {c.topic} /\ r.type = "array"
                                 /\ r.what = "subscribe" /\ r.topic = c.topic
      /\ c.kind = "unsubscribe" => /\ subscribed' = subscribed \ {c.topic} /\ r.type = "array"
                                   /\ r.what = "unsubscribe" /\ r.topic = c.topic
                                   /\ r.left = Cardinality(subscribed \ {c.topic})
  BY <1>1, <1>2 DEF ServerAnswer, PubSub, Plain, NullReply
<1>7. \A k \in 1 .. Len(Incoming) : Incoming[k].what # "unsubscribe"
  BY <1>a, <1>3 DEF UnsubscribeLast
<1>8. c.kind = "unsubscribe" => Len(Outgoing) = 1
  BY <1>1, <1>3 DEF UnsubscribeLast
<1>9. Len(Incoming) + 1 <= Len(replies) => c.kind = "get" /\ c.id = replies[Len(Incoming) + 1].id
  BY <1>a, <1>b, <1>1, <1>3 DEF InStep, RegularFirst
<1>10. c.kind = "subscribe" => c.topic \in DOMAIN channels
  BY <1>1, <1>3 DEF InStep, ThenPubSub
<1>11. RegularFirst'
  <2>1. ASSUME NEW k \in 1 .. Len(Incoming'), k <= Len(replies)
        PROVE  \/ Unsolicited(Incoming'[k])
               \/ Incoming'[k].what = "answer" /\ Incoming'[k].of = replies[k].id
    <3>1. CASE k <= Len(Incoming)
      BY <1>a, <1>4, <2>1, <3>1 DEF InStep, RegularFirst
    <3>2. CASE k = Len(Incoming) + 1
      BY <1>4, <1>6, <1>9, <2>1, <3>2
    <3>3. QED  BY <1>a, <1>4, <2>1, <3>1, <3>2
  <2>2. Len(replies) <= Len(Incoming') + Len(Outgoing')
    BY <1>a, <1>b, <1>3, <1>4 DEF InStep, RegularFirst
  <2>3. ASSUME NEW k \in 1 .. Len(Outgoing'), k + Len(Incoming') <= Len(replies)
        PROVE  Outgoing'[k].kind = "get" /\ Outgoing'[k].id = replies[k + Len(Incoming')].id
    <3>1. (k + 1) + Len(Incoming) <= Len(replies) /\ k + Len(Incoming') = (k + 1) + Len(Incoming)
      BY <1>a, <1>4, <2>3
    <3>2. QED  BY <1>b, <1>3, <3>1 DEF InStep, RegularFirst
  <2>4. subscribed' # {} => Len(replies) <= Len(Incoming')
    <3>1. subscribed # {} => Len(replies) <= Len(Incoming)
      BY <1>b DEF InStep, RegularFirst
    <3>2. subscribed' # {} => subscribed # {} \/ c.kind = "subscribe"
      BY <1>5, <1>6
    <3>3. QED  BY <1>a, <1>4, <1>9, <3>1, <3>2
  <2>5. QED  BY <1>b, <2>1, <2>2, <2>3, <2>4 DEF RegularFirst
<1>12. ThenPubSub'
  <2>1. ASSUME NEW k \in 1 .. Len(Incoming'), k > Len(replies) PROVE Expected(Incoming[k])'
    <3>1. CASE k <= Len(Incoming)
      <4>1. Expected(Incoming[k]) /\ Incoming'[k] = Incoming[k]
        BY <1>a, <1>4, <2>1, <3>1 DEF InStep, ThenPubSub
      <4>2. QED  BY <1>b, <4>1 DEF Expected, Unsolicited
    <3>2. CASE k = Len(Incoming) + 1
      <4>1. Incoming'[k] = r
        BY <1>4, <3>2
      <4>2. c.kind = "get" => r.type = "error"
        <5>1. c.kind = "get" => SubscribeBefore(1)
          BY <1>a, <1>b, <1>1, <1>3, <2>1, <3>2 DEF InStep, ThenPubSub
        <5>2. SubscribeBefore(1) => subscribed # {}
          BY <1>a DEF SubscribeBefore
        <5>3. QED  BY <1>6, <5>1, <5>2
      <4>3. Known /\ c.kind = "unsubscribe" => c.topic \in DOMAIN channels
        BY <1>1, <1>3 DEF InStep, ThenPubSub
      <4>4. QED  BY <1>b, <1>5, <1>6, <1>10, <4>1, <4>2, <4>3 DEF Expected
    <3>3. QED  BY <1>a, <1>4, <2>1, <3>1, <3>2
  <2>2. ASSUME NEW k \in 1 .. Len(Outgoing')
        PROVE  /\ Outgoing'[k].kind = "subscribe" => Outgoing'[k].topic \in DOMAIN channels
               /\ Known /\ Outgoing'[k].kind = "unsubscribe" => Outgoing'[k].topic \in DOMAIN channels
    BY <1>3 DEF InStep, ThenPubSub
  <2>3. ASSUME NEW k \in 1 .. Len(Outgoing'), Outgoing'[k].kind = "get",
               k + Len(Incoming') > Len(replies)
        PROVE  \/ subscribed' # {}
               \/ \E j \in 1 .. Len(Outgoing') : j < k /\ Outgoing'[j].kind = "subscribe"
    <3>1. c.kind # "unsubscribe"
      BY <1>a, <1>3, <1>8, <2>3
    <3>2. (k + 1) + Len(Incoming) > Len(replies) /\ k + 1 \in 1 .. Len(Outgoing)
          /\ Outgoing[k + 1].kind = "get"
      BY <1>a, <1>3, <1>4, <2>3
    <3>3. SubscribeBefore(k + 1)
      BY <1>b, <3>2 DEF InStep, ThenPubSub
    <3>4. CASE subscribed # {}
      BY <1>5, <1>6, <3>1, <3>4
    <3>5. ASSUME NEW j \in 1 .. Len(Outgoing), j < k + 1, Outgoing[j].kind = "subscribe"
          PROVE  \/ subscribed' # {}
                 \/ \E l \in 1 .. Len(Outgoing') : l < k /\ Outgoing'[l].kind = "subscribe"
      <4>1. CASE j = 1
        BY <1>1, <1>6, <3>5, <4>1
      <4>2. CASE j # 1
        <5>1. j - 1 \in 1 .. Len(Outgoing') /\ Outgoing'[j - 1] = Outgoing[j] /\ j - 1 < k
          BY <1>a, <1>3, <3>5, <4>2
        <5>2. QED  BY <3>5, <5>1
      <4>3. QED  BY <4>1, <4>2
    <3>6. QED  BY <3>3, <3>4, <3>5 DEF SubscribeBefore
  <2>4. subscribed' \subseteq DOMAIN channels
    BY <1>5, <1>6, <1>10 DEF InStep, ThenPubSub
  <2>5. QED  BY <1>b, <2>1, <2>2, <2>3, <2>4 DEF ThenPubSub, SubscribeBefore
<1>13. "SUBSCRIBED" \notin flags =>
         Len(replies) = Len(Incoming) + Len(Outgoing) /\ subscribed = {} /\ c.kind = "get"
  BY <1>a, <1>b, <1>3, <1>9 DEF InStep, OnlyRegular
<1>14. OnlyRegular'
  BY <1>a, <1>b, <1>3, <1>4, <1>6, <1>13 DEF OnlyRegular
<1>15. "SUBSCRIBED" \in flags => SubscribeBefore(Len(Outgoing) + 1)
  BY <1>b, <1>7 DEF InStep, SubscribedMode
<1>16. SubscribedMode'
  <2>1. SUFFICES ASSUME "SUBSCRIBED" \in flags
                 PROVE  \/ subscribed' # {}
                        \/ \E j \in 1 .. Len(Outgoing') :
                             j < Len(Outgoing') + 1 /\ Outgoing'[j].kind = "subscribe"
                        \/ \E k \in 1 .. Len(Incoming') : Incoming'[k].what = "unsubscribe"
    BY <1>b DEF SubscribedMode, SubscribeBefore
  <2>2. CASE c.kind = "unsubscribe"
    BY <1>a, <1>4, <1>6, <2>2
  <2>3. CASE c.kind = "subscribe"
    BY <1>6, <2>3
  <2>4. CASE c.kind = "get"
    <3>1. CASE subscribed # {}
      BY <1>6, <2>4, <3>1
    <3>2. ASSUME NEW j \in 1 .. Len(Outgoing), Outgoing[j].kind = "subscribe"
          PROVE  \E l \in 1 .. Len(Outgoing') :
                   l < Len(Outgoing') + 1 /\ Outgoing'[l].kind = "subscribe"
      <4>1. j # 1
        BY <1>1, <2>4, <3>2
      <4>2. j - 1 \in 1 .. Len(Outgoing') /\ Outgoing'[j - 1] = Outgoing[j]
            /\ j - 1 < Len(Outgoing') + 1
        BY <1>a, <1>3, <4>1
      <4>3. QED  BY <3>2, <4>2
    <3>3. QED  BY <1>15, <2>1, <3>1, <3>2 DEF SubscribeBefore
  <2>5. QED  BY <1>5, <2>2, <2>3, <2>4
<1>17. UnsubscribeTrue'
  <2>1. SUFFICES ASSUME NEW k \in 1 .. Len(Incoming'), Incoming'[k].what = "unsubscribe"
        PROVE  /\ Incoming'[k].topic \notin subscribed'
               /\ Incoming'[k].left = Cardinality(subscribed')
               /\ Incoming'[k].left = 0 => Incoming'[k].topic \in DOMAIN channels
               /\ \A j \in 1 .. Len(Incoming') : ~(j > k)
    BY <1>b DEF UnsubscribeTrue
  <2>2. k = Len(Incoming) + 1 /\ Incoming'[k] = r
    BY <1>a, <1>4, <1>7, <2>1
  <2>3. c.kind = "unsubscribe"
    BY <1>5, <1>6, <2>1, <2>2
  <2>4. r.topic = c.topic /\ r.left = Cardinality(subscribed') /\ subscribed' = subscribed \ {c.topic}
    BY <1>6, <2>3
  <2>5. ASSUME r.left = 0 PROVE c.topic \in DOMAIN channels
    <3>1. subscribed' = {}
      <4>1. IsFiniteSet(subscribed \ {c.topic})
        BY FS_RemoveElement DEF TServer
      <4>2. QED  BY <2>4, <2>5, <4>1, FS_EmptySet
    <3>2. subscribed # {}
      <4>1. SubscribeBefore(Len(Outgoing) + 1)
        BY <1>13, <1>15, <2>3
      <4>2. ASSUME NEW j \in 1 .. Len(Outgoing) PROVE Outgoing[j].kind = "unsubscribe"
        <5>1. Len(Outgoing) = 1
          BY <1>8, <2>3, Zenon
        <5>2. j = 1
          BY <4>2, <5>1
        <5>3. QED  BY <1>1, <2>3, <5>2
      <4>3. QED  BY <4>1, <4>2 DEF SubscribeBefore
    <3>3. c.topic \in subscribed
      BY <2>4, <3>1, <3>2
    <3>4. QED  BY <3>3 DEF InStep, ThenPubSub
  <2>6. QED  BY <1>a, <1>4, <2>2, <2>4, <2>5
<1>18. QED  BY <1>11, <1>12, <1>14, <1>16, <1>17 DEF InStep

LEMMA PipePush ==
  ASSUME TBuffers, TQueues, TServer, UsesServer, ~Monitored, InStep, ServerPushes
  PROVE  InStep'
<1>a. Len(Incoming) \in Nat /\ Len(Outgoing) \in Nat /\ Len(replies) \in Nat
  BY StreamsTyped DEF TQueues
<1>b. /\ UNCHANGED <<replies, channels, issued, broken, flags, subscribed>>
      /\ (Known' <=> Known) /\ ~broken
  BY DEF ServerPushes, queues, Known
<1>1. PICK t \in subscribed : Extended(Incoming, Incoming', Message(t))
  BY FlowPush DEF UsesServer, Monitored
<1>2. PICK r : r = Message(t)  OBVIOUS
<1>3. /\ Outgoing' = Outgoing
      /\ Len(Incoming') = Len(Incoming) + 1 /\ Incoming'[Len(Incoming) + 1] = r
      /\ \A k \in 1 .. Len(Incoming) : Incoming'[k] = Incoming[k]
  BY <1>1, <1>2, FlowPush DEF Extended
<1>4. r.type = "array" /\ r.what = "message" /\ r.topic = t
  BY <1>2 DEF Message, PubSub
<1>5. Len(replies) <= Len(Incoming)
  BY <1>b, <1>1 DEF InStep, RegularFirst
<1>6. t \in DOMAIN channels /\ subscribed # {}
  BY <1>1 DEF InStep, ThenPubSub
<1>7. RegularFirst'
  <2>1. ASSUME NEW k \in 1 .. Len(Incoming'), k <= Len(replies)
        PROVE  \/ Unsolicited(Incoming'[k])
               \/ Incoming'[k].what = "answer" /\ Incoming'[k].of = replies[k].id
    BY <1>a, <1>3, <1>5, <2>1 DEF InStep, RegularFirst
  <2>2. Len(replies) <= Len(Incoming') /\ Len(replies) <= Len(Incoming') + Len(Outgoing)
        /\ \A k \in 1 .. Len(Outgoing) : ~(k + Len(Incoming') <= Len(replies))
    BY <1>a, <1>3, <1>5
  <2>3. QED  BY <1>b, <1>3, <2>1, <2>2 DEF RegularFirst
<1>8. ThenPubSub'
  <2>1. ASSUME NEW k \in 1 .. Len(Incoming'), k > Len(replies) PROVE Expected(Incoming[k])'
    <3>1. CASE k <= Len(Incoming)
      <4>1. Expected(Incoming[k]) /\ Incoming'[k] = Incoming[k]
        BY <1>a, <1>3, <2>1, <3>1 DEF InStep, ThenPubSub
      <4>2. QED  BY <1>b, <4>1 DEF Expected, Unsolicited
    <3>2. CASE k = Len(Incoming) + 1
      BY <1>b, <1>3, <1>4, <1>6, <3>2 DEF Expected
    <3>3. QED  BY <1>a, <1>3, <2>1, <3>1, <3>2
  <2>2. \A k \in 1 .. Len(Outgoing) :
          /\ Outgoing[k].kind = "subscribe" => Outgoing[k].topic \in DOMAIN channels
          /\ Known /\ Outgoing[k].kind = "unsubscribe" => Outgoing[k].topic \in DOMAIN channels
    BY DEF InStep, ThenPubSub
  <2>3. subscribed \subseteq DOMAIN channels
    BY DEF InStep, ThenPubSub
  <2>4. QED  BY <1>b, <1>3, <1>6, <2>1, <2>2, <2>3 DEF ThenPubSub, SubscribeBefore
<1>9. OnlyRegular'
  BY <1>b, <1>6 DEF InStep, OnlyRegular
<1>10. SubscribedMode'
  BY <1>b, <1>6 DEF SubscribedMode, SubscribeBefore
<1>11. UnsubscribeTrue'
  <2>1. SUFFICES ASSUME NEW k \in 1 .. Len(Incoming'), Incoming'[k].what = "unsubscribe"
        PROVE  /\ Incoming'[k].topic \notin subscribed
               /\ Incoming'[k].left = Cardinality(subscribed)
               /\ Incoming'[k].left = 0 => Incoming'[k].topic \in DOMAIN channels
               /\ \A j \in 1 .. Len(Incoming') : j > k =>
                    \/ Unsolicited(Incoming'[j])
                    \/ Incoming'[j].what = "message" /\ Incoming'[j].topic \in subscribed
    BY <1>b DEF UnsubscribeTrue
  <2>2. k \in 1 .. Len(Incoming) /\ Incoming'[k] = Incoming[k]
    BY <1>a, <1>3, <1>4, <2>1
  <2>3. ASSUME NEW j \in 1 .. Len(Incoming'), j > k
        PROVE  \/ Unsolicited(Incoming'[j])
               \/ Incoming'[j].what = "message" /\ Incoming'[j].topic \in subscribed
    <3>1. CASE j <= Len(Incoming)
      BY <1>a, <1>3, <2>1, <2>2, <2>3, <3>1 DEF InStep, UnsubscribeTrue
    <3>2. CASE j = Len(Incoming) + 1
      BY <1>1, <1>3, <1>4, <3>2
    <3>3. QED  BY <1>a, <1>3, <2>3, <3>1, <3>2
  <2>4. QED  BY <2>1, <2>2, <2>3 DEF InStep, UnsubscribeTrue
<1>12. QED  BY <1>7, <1>8, <1>9, <1>10, <1>11 DEF InStep

LEMMA PipeBreak ==
  ASSUME TBuffers, TQueues, InStep, ConnectionBreaks
  PROVE  InStep'
<1>a. Len(Incoming) \in Nat /\ Len(Outgoing) \in Nat /\ Len(replies) \in Nat
  BY StreamsTyped DEF TQueues
<1>b. UNCHANGED <<replies, channels, issued, flags, subscribed>> /\ (Known' <=> Known)
  BY DEF ConnectionBreaks, queues, server, Known
<1>1. Outgoing' = Outgoing /\ ~broken /\ broken'
  BY FlowBreak
<1>2. /\ Len(Incoming') \in Nat
      /\ \A k \in 1 .. Len(Incoming) : k \in 1 .. Len(Incoming') /\ Incoming'[k] = Incoming[k]
      /\ \A k \in 1 .. Len(Incoming') : k \in 1 .. Len(Incoming) \/ Unsolicited(Incoming'[k])
  <2>1. CASE Incoming' = Incoming
    BY <1>a, <2>1
  <2>2. ASSUME NEW r, Unsolicited(r), Extended(Incoming, Incoming', r)
        PROVE  /\ Len(Incoming') \in Nat
               /\ \A k \in 1 .. Len(Incoming) : k \in 1 .. Len(Incoming') /\ Incoming'[k] = Incoming[k]
               /\ \A k \in 1 .. Len(Incoming') : k \in 1 .. Len(Incoming) \/ Unsolicited(Incoming'[k])
    BY <1>a, <2>2 DEF Extended
  <2>3. QED  BY <2>1, <2>2, FlowBreak
<1>3. RegularFirst'
  <2>1. ASSUME NEW k \in 1 .. Len(Incoming'), k <= Len(replies)
        PROVE  \/ Unsolicited(Incoming'[k])
               \/ Incoming'[k].what = "answer" /\ Incoming'[k].of = replies[k].id
    BY <1>2, <2>1 DEF InStep, RegularFirst
  <2>2. QED  BY <1>b, <1>1, <2>1 DEF RegularFirst
<1>4. ThenPubSub'
  <2>1. ASSUME NEW k \in 1 .. Len(Incoming'), k > Len(replies) PROVE Expected(Incoming[k])'
    <3>1. CASE k \in 1 .. Len(Incoming)
      <4>1. Expected(Incoming[k]) /\ Incoming'[k] = Incoming[k]
        BY <1>2, <2>1, <3>1 DEF InStep, ThenPubSub
      <4>2. QED  BY <1>b, <4>1 DEF Expected, Unsolicited
    <3>2. CASE Unsolicited(Incoming'[k])
      BY <3>2 DEF Expected, Unsolicited
    <3>3. QED  BY <1>2, <3>1, <3>2
  <2>2. \A k \in 1 .. Len(Outgoing) :
          /\ Outgoing[k].kind = "subscribe" => Outgoing[k].topic \in DOMAIN channels
          /\ Known /\ Outgoing[k].kind = "unsubscribe" => Outgoing[k].topic \in DOMAIN channels
    BY DEF InStep, ThenPubSub
  <2>3. subscribed \subseteq DOMAIN channels
    BY DEF InStep, ThenPubSub
  <2>4. QED  BY <1>b, <1>1, <2>1, <2>2, <2>3 DEF ThenPubSub
<1>5. OnlyRegular'
  <2>1. ASSUME "SUBSCRIBED" \notin flags, NEW k \in 1 .. Len(Incoming'), k > Len(replies)
        PROVE  Unsolicited(Incoming'[k])
    BY <1>2, <2>1 DEF InStep, OnlyRegular
  <2>2. QED  BY <1>b, <1>1, <2>1 DEF OnlyRegular
<1>6. SubscribedMode'
  BY <1>1 DEF SubscribedMode
<1>7. UnsubscribeTrue'
  <2>1. SUFFICES ASSUME NEW k \in 1 .. Len(Incoming'), Incoming'[k].what = "unsubscribe"
        PROVE  /\ Incoming'[k].topic \notin subscribed
               /\ Incoming'[k].left = Cardinality(subscribed)
               /\ Incoming'[k].left = 0 => Incoming'[k].topic \in DOMAIN channels
               /\ \A j \in 1 .. Len(Incoming') : j > k =>
                    \/ Unsolicited(Incoming'[j])
                    \/ Incoming'[j].what = "message" /\ Incoming'[j].topic \in subscribed
    BY <1>b DEF UnsubscribeTrue
  <2>2. k \in 1 .. Len(Incoming) /\ Incoming'[k] = Incoming[k]
    BY <1>2, <2>1 DEF Unsolicited
  <2>3. QED  BY <1>2, <2>1, <2>2 DEF InStep, UnsubscribeTrue
<1>8. QED  BY <1>3, <1>4, <1>5, <1>6, <1>7 DEF InStep

LEMMA PipelineStep ==
  /\ TypeOK /\ UsesFlags /\ UsesServer /\ UsesStreams /\ InFlight /\ Next
  => Pipeline'
<1>0. SUFFICES ASSUME TypeOK, UsesFlags, UsesServer, UsesStreams, InFlight, Next,
                      Open', Waited', ~Monitored'
               PROVE  InStep'
  BY DEF Pipeline
<1>1. TControl /\ TBooleans /\ TServer /\ TBuffers /\ TQueues /\ THistory
  BY <1>0, TypeParts
<1>2. Open /\ PipelineCase
  BY <1>0, <1>1, PipelineCases
<1>3. ASSUME issued' = issued PROVE InStep /\ UnsubscribeLast /\ ~Monitored
  <2>1. Waited /\ ~Monitored
    BY <1>0, <1>3 DEF Waited, Monitored, Used
  <2>2. QED  BY <1>0, <1>2, <2>1 DEF InFlight, Pipeline
<1>4. ASSUME NEW kind \in Kinds, NEW topic \in Topics \cup {NoTopic}, NEW fn \in BOOLEAN,
             Issues(kind, topic, fn)
      PROVE  InStep'
  <2>1. Waited
    BY <1>0, <1>1, <1>4, WaitedStep DEF Issues
  <2>2. ~Monitored
    BY <1>0, <1>1, <1>4, UsedStep DEF Issues, Monitored
  <2>3. InStep
    BY <1>0, <1>2, <2>1, <2>2 DEF InFlight, Pipeline
  <2>4. QED  BY <1>0, <1>1, <1>4, <2>3, PipeIssue
<1>5. CASE Still /\ replies' = replies /\ Aside
  BY <1>3, <1>5, PipeStill DEF Aside
<1>6. CASE Taking /\ Shifted(replies, replies') /\ Aside
  BY <1>1, <1>3, <1>6, PipeRegular DEF Aside
<1>7. CASE SubscribedReply
  <2>1. InStep /\ UnsubscribeLast
    BY <1>3, <1>7 DEF SubscribedReply
  <2>2. QED  BY <1>0, <1>1, <1>7, <2>1, PipeSubscribed DEF InFlight
<1>8. CASE ServerExecutes
  <2>1. InStep /\ UnsubscribeLast /\ ~Monitored
    BY <1>3, <1>8 DEF ServerExecutes
  <2>2. QED  BY <1>0, <1>1, <1>8, <2>1, PipeServer
<1>9. CASE ServerPushes
  <2>1. InStep /\ ~Monitored
    BY <1>3, <1>9 DEF ServerPushes
  <2>2. QED  BY <1>0, <1>1, <1>9, <2>1, PipePush
<1>10. CASE ConnectionBreaks
  <2>1. InStep
    BY <1>3, <1>10 DEF ConnectionBreaks
  <2>2. QED  BY <1>1, <1>10, <2>1, PipeBreak
<1>11. QED  BY <1>2, <1>4, <1>5, <1>6, <1>7, <1>8, <1>9, <1>10 DEF PipelineCase, Issuing

-----------------------------------------------------------------------------
(* The inductive invariant of the streams and queues. *)

(* Regular commands never wait for an UNSUBSCRIBE. *)
RegularWaits == RegularOnly => Waited

FlowInv ==
  /\ TypeOK /\ Control /\ Uses /\ Registered /\ NotYetCalled /\ RegularWaits /\ InFlight

LEMMA RegularWaitsStep ==
  THistory /\ TBuffers /\ UsesStreams /\ RegularWaits /\ Next => RegularWaits'
<1>0. SUFFICES ASSUME THistory, TBuffers, UsesStreams, RegularWaits, StreamStep, RegularOnly'
               PROVE  Waited'
  BY StreamCases DEF RegularWaits
<1>1. ASSUME issued' = issued PROVE Waited'
  BY <1>0, <1>1 DEF RegularWaits, RegularOnly, Used, Waited
<1>2. ASSUME NEW kind \in Kinds, NEW topic \in Topics \cup {NoTopic}, NEW fn \in BOOLEAN,
             AsyncCommand(kind, topic, fn)
      PROVE  Waited'
  <2>1. RegularOnly
    BY <1>0, <1>2, UsedStep DEF RegularOnly
  <2>2. ~Unsubscribing
    BY <1>0, <2>1, UnsubscribingFlow DEF UsesStreams, RegularOnly
  <2>3. Waited
    BY <1>0, <2>1 DEF RegularWaits
  <2>4. PICK n \in Nat : n = Len(issued)
    BY <1>0, <1>2, IssuedStep
  <2>5. /\ DOMAIN issued = 1 .. n /\ DOMAIN issued' = 1 .. n + 1
        /\ \A i \in 1 .. n : issued'[i] = issued[i]
        /\ issued'[n + 1].waited = ~Unsubscribing
    BY <1>0, <1>2, <2>4, IssuedStep
  <2>6. issued'[n + 1].waited
    BY <2>2, <2>5
  <2>7. \A i \in 1 .. n + 1 : i \in 1 .. n \/ i = n + 1
    BY <2>4
  <2>8. QED  BY <2>3, <2>5, <2>6, <2>7 DEF Waited
<1>3. CASE ServerExecutes \/ ServerPushes \/ ConnectionBreaks
  BY <1>1, <1>3 DEF ServerExecutes, ServerPushes, ConnectionBreaks
<1>4. QED  BY <1>0, <1>1, <1>2, <1>3 DEF StreamStep, Issuing, Issues

LEMMA FlowInit == Init => FlowInv
<1>0. SUFFICES ASSUME Init PROVE FlowInv  OBVIOUS
<1>1. TypeOK
  BY <1>0, TypeInit
<1>2. Control
  BY <1>0 DEF Init, Control, Open, Freed
<1>3. /\ issued = <<>> /\ Len(issued) = 0 /\ DOMAIN issued = {} /\ Used = {} /\ ~Monitored
      /\ flags = {} /\ invalid = <<>> /\ subscribed = {} /\ ~monitoring
  BY <1>0 DEF Init, Used, Monitored
<1>4. Incoming = <<>> /\ Outgoing = <<>> /\ Len(Incoming) = 0 /\ Len(Outgoing) = 0
  BY <1>0 DEF Init, Incoming, Outgoing
<1>5. Uses
  BY <1>3, <1>4 DEF Uses, UsesFlags, UsesServer, UsesStreams
<1>6. Registered /\ NotYetCalled
  BY <1>0, <1>3 DEF Init, Registered, NotYetCalled, NoCallback
<1>7. RegularWaits
  BY <1>3 DEF RegularWaits, Waited
<1>8. InFlight
  <2>1. replies = <<>> /\ Len(replies) = 0 /\ DOMAIN channels = {}
    BY <1>0 DEF Init
  <2>2. LastWords /\ UnsubscribeLast /\ UnsubscribeTrue /\ SubscribedMode
    BY <1>3, <1>4 DEF LastWords, UnsubscribeLast, UnsubscribeTrue, SubscribedMode
  <2>3. RegularFirst /\ ThenPubSub /\ OnlyRegular
    BY <1>3, <1>4, <2>1 DEF RegularFirst, ThenPubSub, OnlyRegular
  <2>4. QED  BY <2>2, <2>3 DEF InFlight, Pipeline, InStep
<1>9. QED  BY <1>1, <1>2, <1>5, <1>6, <1>7, <1>8 DEF FlowInv

LEMMA FlowStep == FlowInv /\ [Next]_vars => FlowInv'
<1>0. SUFFICES ASSUME FlowInv, [Next]_vars PROVE FlowInv'  OBVIOUS
<1>1. TypeOK'
  BY <1>0, TypeStep DEF FlowInv
<1>2. CASE Next
  <2>1. /\ TControl /\ TBooleans /\ TServer /\ TBuffers /\ TQueues /\ THistory
        /\ TypeOK /\ Control /\ Uses /\ Registered /\ NotYetCalled /\ RegularWaits /\ InFlight
    BY <1>0, TypeParts DEF FlowInv
  <2>2. Control'
    BY <1>2, <2>1, ControlStep
  <2>3. Uses'
    BY <1>2, <2>1, UsesFlagsStep, UsesServerStep, UsesStreamsStep DEF Uses
  <2>4. Registered' /\ NotYetCalled'
    BY <1>2, <2>1, RegisteredStep, NotYetCalledStep DEF Uses
  <2>5. RegularWaits'
    BY <1>2, <2>1, RegularWaitsStep DEF Uses
  <2>6. InFlight'
    BY <1>2, <2>1, LastWordsStep, UnsubscribeLastStep, PipelineStep DEF Uses, InFlight
  <2>7. QED  BY <1>1, <2>2, <2>3, <2>4, <2>5, <2>6 DEF FlowInv
<1>3. CASE UNCHANGED vars
  <2>1. /\ UNCHANGED <<at, flags, err, obuf, inbuf, replies, invalid, channels, cb, toServer>>
        /\ UNCHANGED <<toClient, broken, subscribed, monitoring, issued, closedBy, calls>>
        /\ UNCHANGED onDisconnect
    BY <1>3 DEF vars, queues, socket, server
  <2>2. /\ Incoming' = Incoming /\ Outgoing' = Outgoing /\ (Open' <=> Open) /\ (Freed' <=> Freed)
        /\ Used' = Used /\ (Monitored' <=> Monitored) /\ (Waited' <=> Waited)
        /\ (RegularOnly' <=> RegularOnly) /\ (Known' <=> Known)
    BY <2>1 DEF Incoming, Outgoing, Open, Freed, Used, Monitored, Waited, Known, RegularOnly
  <2>3. Control'
    BY <1>0, <2>1, <2>2 DEF FlowInv, Control
  <2>4. Uses'
    BY <1>0, <2>1, <2>2 DEF FlowInv, Uses, UsesFlags, UsesServer, UsesStreams
  <2>5. Registered' /\ NotYetCalled' /\ RegularWaits'
    BY <1>0, <2>1, <2>2 DEF FlowInv, Registered, NotYetCalled, RegularWaits, Of
  <2>6. LastWords' /\ (Waited' => UnsubscribeLast')
    BY <1>0, <2>1, <2>2 DEF FlowInv, InFlight, LastWords, UnsubscribeLast, Unsolicited
  <2>7. Still /\ Aside
    BY <2>1, <2>2 DEF Still, Aside, SameFlag
  <2>8. Pipeline'
    BY <1>0, <2>1, <2>2, <2>7, PipeStill DEF FlowInv, InFlight, Pipeline
  <2>9. QED  BY <1>1, <2>3, <2>4, <2>5, <2>6, <2>8 DEF FlowInv, InFlight
<1>4. QED  BY <1>0, <1>2, <1>3

-----------------------------------------------------------------------------
(* The asserts. *)

LEMMA AssertStep == FlowInv /\ AssertsHoldIfWaited /\ Next => AssertsHoldIfWaited'
<1>0. SUFFICES ASSUME FlowInv, AssertsHoldIfWaited, Next, Waited'
               PROVE  at' # "assertionFailed"
  BY DEF AssertsHoldIfWaited, AssertsHold
<1>b. TControl /\ TBuffers /\ TQueues /\ THistory /\ UsesFlags /\ InFlight /\ Control
  BY <1>0, TypeParts DEF FlowInv, Uses
<1>a. ASSUME issued' = issued PROVE Waited /\ at # "assertionFailed"
  BY <1>0, <1>a DEF Waited, AssertsHoldIfWaited, AssertsHold
<1>1. ASSUME NEW kind \in Kinds, NEW topic \in Topics \cup {NoTopic}, NEW fn \in BOOLEAN,
             kind \in {"subscribe", "unsubscribe"} => topic \in Topics,
             AsyncCommand(kind, topic, fn)
      PROVE  at' # "assertionFailed"
  BY <1>1 DEF AsyncCommand, AppRuns
<1>2. CASE AsyncDisconnect
  BY <1>a, <1>2 DEF AsyncDisconnect, CloseWith
<1>3. CASE AsyncFree
  BY <1>a, <1>3 DEF AsyncFree
<1>4. ASSUME NEW e \in {"read", "write"}, HandleEvent(e)
      PROVE  at' # "assertionFailed"
  BY <1>4 DEF HandleEvent, CloseWith
<1>5. CASE LibuvPollError
  BY <1>a, <1>5 DEF LibuvPollError
<1>6. CASE SecondHandlerUsesFreed
  BY <1>a, <1>6 DEF SecondHandlerUsesFreed
<1>7. CASE BufferError
  BY <1>7 DEF BufferError, CloseWith
<1>8. CASE BufferRead
  BY <1>a, <1>8 DEF BufferRead
<1>9. CASE BufferWrite
  BY <1>a, <1>9 DEF BufferWrite
<1>10. CASE NoMoreReplies
  BY <1>a, <1>10 DEF NoMoreReplies, CloseWith
<1>11. CASE ProtocolError
  BY <1>11 DEF ProtocolError, CloseWith
<1>12. CASE SpontaneousError
  BY <1>12 DEF SpontaneousError, CloseWith
<1>13. CASE RegularReply
  BY <1>13 DEF RegularReply, TakeReply, RunCallback
<1>14. CASE UnexpectedReply
  <2>0. Waited /\ Open /\ replies = <<>>
    BY <1>a, <1>14 DEF UnexpectedReply, TakeReply, Open
  <2>1. "SUBSCRIBED" \notin flags /\ "MONITORING" \notin flags
    BY <1>14 DEF UnexpectedReply
  <2>2. InStep
    <3>1. ~Monitored
      BY <1>b, <2>1 DEF UsesFlags, Monitored
    <3>2. QED  BY <1>b, <2>0, <3>1 DEF InFlight, Pipeline
  <2>3. Taking
    BY <1>b, <1>14, FlowTake DEF UnexpectedReply, TakeReply, socket, Taking
  <2>4. Len(Incoming) \in Nat /\ 1 \in 1 .. Len(Incoming) /\ Len(replies) = 0
    BY <1>b, <2>0, <2>3, StreamsTyped DEF Taking, Shifted
  <2>5. Unsolicited(Head(inbuf))
    BY <2>1, <2>2, <2>3, <2>4 DEF InStep, OnlyRegular, Taking
  <2>6. QED  BY <2>5, <1>14 DEF UnexpectedReply, TakeReply, Unsolicited
<1>15. CASE SubscribedReply
  BY <1>15 DEF SubscribedReply, TakeReply, RunCallback
<1>16. CASE MonitorReply
  BY <1>16 DEF MonitorReply, TakeReply, RunCallback
<1>17. CASE CallbackReturns
  BY <1>a, <1>17 DEF CallbackReturns
<1>18. CASE FreeRegular
  BY <1>18 DEF FreeRegular, RunCallback
<1>19. CASE FreeInvalid
  BY <1>19 DEF FreeInvalid, RunCallback
<1>20. ASSUME NEW t \in Topics, FreeChannel(t)
      PROVE  at' # "assertionFailed"
  BY <1>20 DEF FreeChannel, RunCallback
<1>21. CASE FreeCallbackReturns
  BY <1>a, <1>21 DEF FreeCallbackReturns
<1>22. CASE FreeContext
  BY <1>a, <1>22 DEF FreeContext
<1>23. CASE ServerExecutes
  BY <1>a, <1>23 DEF ServerExecutes
<1>24. CASE ServerPushes
  BY <1>a, <1>24 DEF ServerPushes
<1>25. CASE ConnectionBreaks
  BY <1>a, <1>25 DEF ConnectionBreaks
<1>26. QED
  BY <1>1, <1>2, <1>3, <1>4, <1>5, <1>6, <1>7, <1>8, <1>9, <1>10, <1>11, <1>12, <1>13,
     <1>14, <1>15, <1>16, <1>17, <1>18, <1>19, <1>20, <1>21, <1>22, <1>23, <1>24, <1>25, <1>0, BoolsAssumption
  DEF Next, Application, IssueCommand, Client, Handlers, ProcessCallbacks, Free, Server

LEMMA FlowInvariant == Spec => [](FlowInv /\ AssertsHoldIfWaited)
<1>1. Init => FlowInv /\ AssertsHoldIfWaited
  BY FlowInit DEF Init, AssertsHoldIfWaited, AssertsHold
<1>2. ASSUME FlowInv, AssertsHoldIfWaited, [Next]_vars
      PROVE  FlowInv' /\ AssertsHoldIfWaited'
  <2>1. CASE Next
    BY <1>2, <2>1, FlowStep, AssertStep
  <2>2. CASE UNCHANGED vars
    BY <1>2, <2>2, FlowStep DEF vars, AssertsHoldIfWaited, AssertsHold, Waited
  <2>3. QED  BY <1>2, <2>1, <2>2
<1>3. QED  BY <1>1, <1>2, PTL DEF Spec

(***************************************************************************)
(* As long as the application waits for the reply to an UNSUBSCRIBE before *)
(* it issues another command, neither the assert of                        *)
(* __redisAsyncDisconnect() nor that of redisProcessCallbacks() fails, for *)
(* any number of commands, topics and messages, wherever the connection    *)
(* breaks and whatever a callback calls.                                   *)
(***************************************************************************)
THEOREM AssertsNeverFail == Spec => []AssertsHoldIfWaited
BY FlowInvariant, PTL
-----------------------------------------------------------------------------
(* Pipelining. *)

(* With regular commands only, the queue and the streams are in step and   *)
(* none of the modes is entered.                                           *)
LEMMA RegularModes ==
  ASSUME FlowInv, RegularOnly
  PROVE  /\ Waited /\ ~Monitored /\ "SUBSCRIBED" \notin flags /\ "MONITORING" \notin flags
         /\ invalid = <<>> /\ DOMAIN channels = {}
<1>1. UsesFlags /\ Registered /\ RegularWaits
  BY DEF FlowInv, Uses
<1>2. "subscribe" \notin Used /\ "monitor" \notin Used
  BY DEF RegularOnly
<1>3. ASSUME NEW t \in DOMAIN channels PROVE FALSE
  <2>1. Of(issued, channels[t], "subscribe")
    BY <1>1 DEF Registered
  <2>2. QED  BY <1>2, <2>1 DEF Of, Used
<1>4. QED  BY <1>1, <1>2, <1>3 DEF UsesFlags, RegularWaits, Monitored

(* The numbers of commands; NoCallback and unsolicited replies have 0. *)
Numbers == Ids \cup {0}

(* A name that keeps the provers from looking into a concatenation. *)
Join(s, t) == s \o t

LEMMA JoinedParts ==
  ASSUME NEW S, NEW s \in Seq(S), NEW t \in Seq(S)
  PROVE  /\ Join(s, t) \in Seq(S) /\ Len(Join(s, t)) = Len(s) + Len(t)
         /\ \A k \in 1 .. Len(s) + Len(t) :
              Join(s, t)[k] = IF k <= Len(s) THEN s[k] ELSE t[k - Len(s)]
BY ConcatProperties DEF Join

LEMMA JoinedFour ==
  ASSUME NEW S, NEW a \in Seq(S), NEW b \in Seq(S), NEW c \in Seq(S), NEW d \in Seq(S)
  PROVE  Join(Join(Join(a, b), c), d) = Join(Join(a, b), Join(c, d))
<1>1. PICK x \in Seq(S) : x = a \o b
  BY ConcatProperties
<1>2. (x \o c) \o d = x \o (c \o d)
  BY ConcatAssociative
<1>3. QED  BY <1>1, <1>2, Zenon DEF Join

LEMMA JoinedFrom ==
  ASSUME NEW S, NEW x \in Seq(S), NEW y \in Seq(S), NEW r \in Seq(S),
         Len(r) = Len(x) + Len(y), \A k \in 1 .. Len(x) : r[k] = x[k],
         \A k \in 1 .. Len(y) : r[k + Len(x)] = y[k]
  PROVE  r = Join(x, y)
<1>1. Len(x) \in Nat /\ Len(y) \in Nat
  OBVIOUS
<1>2. Join(x, y) \in Seq(S) /\ Len(Join(x, y)) = Len(r)
  BY ConcatProperties DEF Join
<1>3. ASSUME NEW k \in 1 .. Len(r) PROVE Join(x, y)[k] = r[k]
  <2>1. Join(x, y)[k] = IF k <= Len(x) THEN x[k] ELSE y[k - Len(x)]
    BY ConcatProperties DEF Join
  <2>2. k <= Len(x) => k \in 1 .. Len(x)
    BY <1>1
  <2>3. ~(k <= Len(x)) => k - Len(x) \in 1 .. Len(y) /\ (k - Len(x)) + Len(x) = k
    BY <1>1
  <2>4. QED  BY <2>1, <2>2, <2>3
<1>4. QED  BY <1>2, <1>3, SeqEqual

LEMMA AnswerIdsJoin ==
  ASSUME NEW s \in Seq(Reply), NEW t \in Seq(Reply)
  PROVE  /\ AnswerIds(s) \in Seq(Numbers) /\ AnswerIds(t) \in Seq(Numbers)
         /\ Len(Join(AnswerIds(s), AnswerIds(t))) = Len(Join(s, t))
         /\ \A k \in 1 .. Len(Join(s, t)) : Join(AnswerIds(s), AnswerIds(t))[k] = Join(s, t)[k].of
<1>1. ASSUME NEW u \in Seq(Reply)
      PROVE  /\ AnswerIds(u) \in Seq(Numbers) /\ Len(AnswerIds(u)) = Len(u)
             /\ \A k \in 1 .. Len(u) : AnswerIds(u)[k] = u[k].of
  <2>1. AnswerIds(u) = [k \in 1 .. Len(u) |-> u[k].of]
    BY DEF AnswerIds
  <2>2. ASSUME NEW k \in 1 .. Len(u) PROVE u[k].of \in Numbers
    <3>1. u[k] \in Reply
      OBVIOUS
    <3>2. QED  BY <3>1 DEF Reply, Numbers
  <2>3. Len(u) \in Nat
    OBVIOUS
  <2>4. QED  BY <2>1, <2>2, <2>3
<1>2. PICK a \in Seq(Numbers), b \in Seq(Numbers) : a = AnswerIds(s) /\ b = AnswerIds(t)
  BY <1>1
<1>3. /\ Len(a) = Len(s) /\ \A k \in 1 .. Len(s) : a[k] = s[k].of
      /\ Len(b) = Len(t) /\ \A k \in 1 .. Len(t) : b[k] = t[k].of
  BY <1>1, <1>2
<1>4. Len(a) = Len(s) /\ Len(b) = Len(t)
  BY <1>3
<1>5. /\ Len(Join(s, t)) = Len(s) + Len(t)
      /\ \A k \in 1 .. Len(s) + Len(t) :
           Join(s, t)[k] = IF k <= Len(s) THEN s[k] ELSE t[k - Len(s)]
  BY JoinedParts
<1>6. /\ Len(Join(a, b)) = Len(a) + Len(b)
      /\ \A k \in 1 .. Len(a) + Len(b) :
           Join(a, b)[k] = IF k <= Len(a) THEN a[k] ELSE b[k - Len(a)]
  BY JoinedParts
<1>7. ASSUME NEW k \in 1 .. Len(s) + Len(t) PROVE Join(a, b)[k] = Join(s, t)[k].of
  <2>1. Len(s) \in Nat /\ Len(t) \in Nat
    OBVIOUS
  <2>2. k <= Len(s) => k \in 1 .. Len(s)
    BY <2>1
  <2>3. ~(k <= Len(s)) => k - Len(s) \in 1 .. Len(t)
    BY <2>1
  <2>4. QED  BY <1>3, <1>5, <1>6, <2>2, <2>3
<1>8. QED  BY <1>1, <1>2, <1>4, <1>5, <1>6, <1>7

LEMMA CommandIdsJoin ==
  ASSUME NEW s \in Seq(Command), NEW t \in Seq(Command)
  PROVE  /\ CommandIds(s) \in Seq(Numbers) /\ CommandIds(t) \in Seq(Numbers)
         /\ Len(Join(CommandIds(s), CommandIds(t))) = Len(Join(s, t))
         /\ \A k \in 1 .. Len(Join(s, t)) : Join(CommandIds(s), CommandIds(t))[k] = Join(s, t)[k].id
<1>1. ASSUME NEW u \in Seq(Command)
      PROVE  /\ CommandIds(u) \in Seq(Numbers) /\ Len(CommandIds(u)) = Len(u)
             /\ \A k \in 1 .. Len(u) : CommandIds(u)[k] = u[k].id
  <2>1. CommandIds(u) = [k \in 1 .. Len(u) |-> u[k].id]
    BY DEF CommandIds
  <2>2. ASSUME NEW k \in 1 .. Len(u) PROVE u[k].id \in Numbers
    <3>1. u[k] \in Command
      OBVIOUS
    <3>2. QED  BY <3>1 DEF Command, Numbers
  <2>3. Len(u) \in Nat
    OBVIOUS
  <2>4. QED  BY <2>1, <2>2, <2>3
<1>2. PICK a \in Seq(Numbers), b \in Seq(Numbers) : a = CommandIds(s) /\ b = CommandIds(t)
  BY <1>1
<1>3. /\ Len(a) = Len(s) /\ \A k \in 1 .. Len(s) : a[k] = s[k].id
      /\ Len(b) = Len(t) /\ \A k \in 1 .. Len(t) : b[k] = t[k].id
  BY <1>1, <1>2
<1>4. Len(a) = Len(s) /\ Len(b) = Len(t)
  BY <1>3
<1>5. /\ Len(Join(s, t)) = Len(s) + Len(t)
      /\ \A k \in 1 .. Len(s) + Len(t) :
           Join(s, t)[k] = IF k <= Len(s) THEN s[k] ELSE t[k - Len(s)]
  BY JoinedParts
<1>6. /\ Len(Join(a, b)) = Len(a) + Len(b)
      /\ \A k \in 1 .. Len(a) + Len(b) :
           Join(a, b)[k] = IF k <= Len(a) THEN a[k] ELSE b[k - Len(a)]
  BY JoinedParts
<1>7. ASSUME NEW k \in 1 .. Len(s) + Len(t) PROVE Join(a, b)[k] = Join(s, t)[k].id
  <2>1. Len(s) \in Nat /\ Len(t) \in Nat
    OBVIOUS
  <2>2. k <= Len(s) => k \in 1 .. Len(s)
    BY <2>1
  <2>3. ~(k <= Len(s)) => k - Len(s) \in 1 .. Len(t)
    BY <2>1
  <2>4. QED  BY <1>3, <1>5, <1>6, <2>2, <2>3
<1>8. QED  BY <1>1, <1>2, <1>4, <1>5, <1>6, <1>7

LEMMA InOrder == FlowInv => PipelineInOrder
<1>0. SUFFICES ASSUME FlowInv, RegularOnly, Open, ~broken
               PROVE  CommandIds(replies) = AnswerIds(inbuf) \o AnswerIds(toClient)
                                              \o CommandIds(toServer) \o CommandIds(obuf)
  BY DEF PipelineInOrder
<1>1. TBuffers /\ TQueues /\ LastWords
  BY <1>0, TypeParts DEF FlowInv, InFlight
<1>2. InStep /\ "SUBSCRIBED" \notin flags
  BY <1>0, RegularModes DEF FlowInv, InFlight, Pipeline
<1>3. /\ Len(replies) \in Nat /\ Len(Incoming) \in Nat /\ Len(Outgoing) \in Nat
      /\ Len(replies) = Len(Incoming) + Len(Outgoing)
  BY <1>0, <1>1, <1>2, StreamsTyped DEF TQueues, InStep, OnlyRegular
<1>4. \A k \in 1 .. Len(Incoming) : Incoming[k].of = replies[k].id
  BY <1>0, <1>1, <1>2, <1>3 DEF InStep, RegularFirst, LastWords, Unsolicited
<1>5. \A k \in 1 .. Len(Outgoing) : Outgoing[k].id = replies[k + Len(Incoming)].id
  BY <1>0, <1>2, <1>3 DEF InStep, RegularFirst
<1>6. PICK a \in Seq(Numbers), b \in Seq(Numbers), c \in Seq(Numbers), d \in Seq(Numbers) :
        /\ a = AnswerIds(inbuf) /\ b = AnswerIds(toClient)
        /\ c = CommandIds(toServer) /\ d = CommandIds(obuf)
        /\ Len(Join(a, b)) = Len(Incoming)
        /\ \A k \in 1 .. Len(Incoming) : Join(a, b)[k] = Incoming[k].of
        /\ Len(Join(c, d)) = Len(Outgoing)
        /\ \A k \in 1 .. Len(Outgoing) : Join(c, d)[k] = Outgoing[k].id
  <2>1. Incoming = Join(inbuf, toClient) /\ Outgoing = Join(toServer, obuf)
    BY DEF Incoming, Outgoing, Join
  <2>2. /\ AnswerIds(inbuf) \in Seq(Numbers) /\ AnswerIds(toClient) \in Seq(Numbers)
        /\ Len(Join(AnswerIds(inbuf), AnswerIds(toClient))) = Len(Incoming)
        /\ \A k \in 1 .. Len(Incoming) :
             Join(AnswerIds(inbuf), AnswerIds(toClient))[k] = Incoming[k].of
    BY <1>1, <2>1, AnswerIdsJoin DEF TBuffers
  <2>3. /\ CommandIds(toServer) \in Seq(Numbers) /\ CommandIds(obuf) \in Seq(Numbers)
        /\ Len(Join(CommandIds(toServer), CommandIds(obuf))) = Len(Outgoing)
        /\ \A k \in 1 .. Len(Outgoing) :
             Join(CommandIds(toServer), CommandIds(obuf))[k] = Outgoing[k].id
    BY <1>1, <2>1, CommandIdsJoin DEF TBuffers
  <2>4. QED  BY <2>2, <2>3
<1>7. PICK x \in Seq(Numbers), y \in Seq(Numbers) : x = Join(a, b) /\ y = Join(c, d)
  <2>1. Join(a, b) \in Seq(Numbers) /\ Join(c, d) \in Seq(Numbers)
    BY ConcatProperties DEF Join
  <2>2. QED  BY <2>1
<1>8. Join(Join(Join(a, b), c), d) = Join(x, y)
  <2>1. Join(Join(Join(a, b), c), d) = Join(Join(a, b), Join(c, d))
    BY JoinedFour
  <2>2. QED  BY <1>7, <2>1, Zenon
<1>9. CommandIds(replies) = Join(x, y)
  <2>1. CommandIds(replies) = [k \in 1 .. Len(replies) |-> replies[k].id]
    BY <1>1 DEF CommandIds, TQueues
  <2>2. \A k \in 1 .. Len(replies) : replies[k].id \in Numbers
    BY <1>1 DEF TQueues, Callback, NoCallback, Numbers
  <2>3. CommandIds(replies) \in Seq(Numbers) /\ Len(CommandIds(replies)) = Len(replies)
    BY <1>3, <2>1, <2>2
  <2>4. /\ Len(x) = Len(Incoming) /\ Len(y) = Len(Outgoing)
        /\ \A k \in 1 .. Len(Incoming) : x[k] = replies[k].id
        /\ \A k \in 1 .. Len(Outgoing) : y[k] = replies[k + Len(Incoming)].id
    BY <1>4, <1>5, <1>6, <1>7
  <2>5. \A k \in 1 .. Len(Incoming) : k \in 1 .. Len(replies)
    BY <1>3
  <2>6. \A k \in 1 .. Len(Outgoing) : k + Len(Incoming) \in 1 .. Len(replies)
    BY <1>3
  <2>7. /\ \A k \in 1 .. Len(x) : CommandIds(replies)[k] = x[k]
        /\ \A k \in 1 .. Len(y) : CommandIds(replies)[k + Len(x)] = y[k]
    BY <2>1, <2>4, <2>5, <2>6
  <2>8. Len(CommandIds(replies)) = Len(x) + Len(y)
    BY <1>3, <2>3, <2>4
  <2>9. QED  BY <2>3, <2>7, <2>8, JoinedFrom, ZenonT(40)
<1>10. QED  BY <1>6, <1>8, <1>9, Zenon DEF Join

(***************************************************************************)
(* With regular commands only, the queue of callbacks always mirrors what  *)
(* is between the output buffer and the reader, however reads and writes   *)
(* split the streams: every callback pops the reply to its own command.    *)
(***************************************************************************)
THEOREM RepliesInOrder == Spec => []PipelineInOrder
BY FlowInvariant, InOrder, PTL
-----------------------------------------------------------------------------
(* Regular callbacks. *)

(* What a step does to them, when there are no others. *)
CallsOne(r) ==
  /\ replies # <<>> /\ replies' = Tail(replies) /\ issued' = issued
  /\ \E fs, inside, skip : RunCallback(Head(replies), r, fs, inside, skip)
RegularCase ==
  \/ \E topic \in Topics \cup {NoTopic}, fn \in BOOLEAN :
       /\ AsyncCommand("get", topic, fn) /\ calls' = calls
       /\ replies' = Append(replies, [id |-> Len(issued) + 1, fn |-> fn])
  \/ replies' = replies /\ UNCHANGED <<issued, calls>>
  \/ RegularReply /\ CallsOne(Head(inbuf))
  \/ FreeRegular /\ CallsOne(NullReply)

LEMMA RegularCases ==
  ASSUME FlowInv, Next, RegularOnly'
  PROVE  RegularOnly /\ RegularCase
<1>a. TControl /\ TQueues /\ THistory
  BY TypeParts DEF FlowInv
<1>b. ASSUME issued' = issued
      PROVE  /\ RegularOnly /\ "SUBSCRIBED" \notin flags /\ "MONITORING" \notin flags
             /\ invalid = <<>> /\ DOMAIN channels = {}
  <2>1. RegularOnly
    BY <1>b DEF RegularOnly, Used
  <2>2. QED  BY <2>1, RegularModes
<1>c. ASSUME replies' = replies, UNCHANGED <<issued, calls>>
      PROVE  RegularOnly /\ RegularCase
  BY <1>b, <1>c DEF RegularCase
<1>0. Next
  OBVIOUS
<1>1. ASSUME NEW kind \in Kinds, NEW topic \in Topics \cup {NoTopic}, NEW fn \in BOOLEAN,
             kind \in {"subscribe", "unsubscribe"} => topic \in Topics,
             AsyncCommand(kind, topic, fn)
      PROVE  RegularOnly /\ RegularCase
  <2>1. kind = "get" /\ RegularOnly
    BY <1>a, <1>1, UsedStep DEF RegularOnly
  <2>2. "SUBSCRIBED" \notin flags
    BY <2>1, RegularModes
  <2>3. PICK d : d = [id |-> Len(issued) + 1, fn |-> fn]
    OBVIOUS
  <2>4. replies' = Append(replies, d) /\ calls' = calls
    BY <2>1, <2>2, <2>3, <1>1 DEF AsyncCommand
  <2>5. QED  BY <2>1, <2>3, <2>4, <1>1 DEF RegularCase
<1>2. CASE AsyncDisconnect
  BY <1>c, <1>2 DEF AsyncDisconnect, queues
<1>3. CASE AsyncFree
  BY <1>c, <1>3 DEF AsyncFree, queues
<1>4. ASSUME NEW e \in {"read", "write"}, HandleEvent(e)
      PROVE  RegularOnly /\ RegularCase
  BY <1>c, <1>4 DEF HandleEvent, queues
<1>5. CASE LibuvPollError
  BY <1>c, <1>5 DEF LibuvPollError, queues
<1>6. CASE SecondHandlerUsesFreed
  BY <1>c, <1>6 DEF SecondHandlerUsesFreed, queues
<1>7. CASE BufferError
  BY <1>c, <1>7 DEF BufferError, queues
<1>8. CASE BufferRead
  BY <1>c, <1>8 DEF BufferRead, queues
<1>9. CASE BufferWrite
  BY <1>c, <1>9 DEF BufferWrite, queues
<1>10. CASE NoMoreReplies
  BY <1>b, <1>c, <1>10 DEF NoMoreReplies, CloseWith
<1>11. CASE ProtocolError
  BY <1>c, <1>11 DEF ProtocolError, queues
<1>12. CASE SpontaneousError
  BY <1>c, <1>12 DEF SpontaneousError, queues
<1>13. CASE RegularReply
  BY <1>b, <1>13 DEF RegularReply, TakeReply, RegularCase, CallsOne
<1>14. CASE UnexpectedReply
  BY <1>c, <1>14 DEF UnexpectedReply, TakeReply, queues
<1>15. CASE SubscribedReply
  BY <1>b, <1>15 DEF SubscribedReply, TakeReply
<1>16. CASE MonitorReply
  BY <1>b, <1>16 DEF MonitorReply, TakeReply
<1>17. CASE CallbackReturns
  BY <1>c, <1>17 DEF CallbackReturns, queues
<1>18. CASE FreeRegular
  BY <1>b, <1>18 DEF FreeRegular, RegularCase, CallsOne
<1>19. CASE FreeInvalid
  BY <1>b, <1>19 DEF FreeInvalid
<1>20. ASSUME NEW t \in Topics, FreeChannel(t)
      PROVE  RegularOnly /\ RegularCase
  BY <1>b, <1>20 DEF FreeChannel
<1>21. CASE FreeCallbackReturns
  BY <1>c, <1>21 DEF FreeCallbackReturns, queues
<1>22. CASE FreeContext
  BY <1>c, <1>22 DEF FreeContext, queues
<1>23. CASE ServerExecutes
  BY <1>c, <1>23 DEF ServerExecutes, queues
<1>24. CASE ServerPushes
  BY <1>c, <1>24 DEF ServerPushes, queues
<1>25. CASE ConnectionBreaks
  BY <1>c, <1>25 DEF ConnectionBreaks, queues
<1>26. QED
  BY <1>1, <1>2, <1>3, <1>4, <1>5, <1>6, <1>7, <1>8, <1>9, <1>10, <1>11, <1>12, <1>13,
     <1>14, <1>15, <1>16, <1>17, <1>18, <1>19, <1>20, <1>21, <1>22, <1>23, <1>24, <1>25, <1>0, BoolsAssumption
  DEF Next, Application, IssueCommand, Client, Handlers, ProcessCallbacks, Free, Server

LEMMA OnceStep == FlowInv /\ Once /\ Next => Once'
<1>0. SUFFICES ASSUME FlowInv, Once, Next, RegularOnly'
               PROVE  Ascending' /\ PendingNotCalled' /\ PendingOrCalled'
  BY DEF Once
<1>1. /\ RegularOnly /\ RegularCase /\ Ascending /\ PendingNotCalled /\ PendingOrCalled
      /\ ~Monitored /\ Registered /\ NotYetCalled
      /\ TQueues /\ THistory
  BY <1>0, RegularCases, RegularModes, TypeParts DEF Once, FlowInv
<1>2. /\ replies \in Seq(Callback \cup {NoCallback}) /\ Len(replies) \in Nat
      /\ issued \in Seq(Issued) /\ Len(issued) \in Nat /\ DOMAIN issued = 1 .. Len(issued)
      /\ Len(issued) <= MaxCommands
  BY <1>1 DEF TQueues, THistory
<1>3. \A k \in 1 .. Len(replies) :
        /\ replies[k] \in Callback \cup {NoCallback}
        /\ replies[k].id \in 1 .. Len(issued) /\ replies[k].fn = issued[replies[k].id].fn
  BY <1>1, <1>2 DEF Registered, Of
<1>4. ASSUME NEW topic \in Topics \cup {NoTopic}, NEW fn \in BOOLEAN,
             AsyncCommand("get", topic, fn), calls' = calls,
             replies' = Append(replies, [id |-> Len(issued) + 1, fn |-> fn])
      PROVE  Ascending' /\ PendingNotCalled' /\ PendingOrCalled'
  <2>1. PICK d : d = [id |-> Len(issued) + 1, fn |-> fn]
    OBVIOUS
  <2>2. d.id = Len(issued) + 1
    BY <2>1
  <2>3. PICK n \in Nat : n = Len(issued) /\ n + 1 \in Ids
    BY <1>1, <1>4, IssuedStep
  <2>4. /\ DOMAIN issued = 1 .. n /\ DOMAIN issued' = 1 .. n + 1
        /\ \A i \in 1 .. n : issued'[i] = issued[i]
    BY <1>1, <1>4, <2>3, IssuedStep
  <2>5. d \in Callback
    BY <2>1, <2>3 DEF Callback
  <2>6. Extended(replies, replies', d)
    <3>1. replies' = Append(replies, d)
      BY <1>4, <2>1
    <3>2. QED  BY <1>2, <2>5, <3>1, ExtendAppend
  <2>7. \A k \in 1 .. Len(replies') :
          \/ k \in 1 .. Len(replies) /\ replies'[k] = replies[k]
          \/ k = Len(replies) + 1 /\ replies'[k] = d
    BY <1>2, <2>6 DEF Extended
  <2>8. \A k \in 1 .. Len(replies) : replies[k].id < n + 1
    BY <1>3, <2>3
  <2>9. Ascending'
    <3>1. SUFFICES ASSUME NEW k \in 1 .. Len(replies'), NEW l \in 1 .. Len(replies'), k < l
                   PROVE  replies'[k].id < replies'[l].id
      BY DEF Ascending
    <3>2. k \in 1 .. Len(replies) /\ replies'[k] = replies[k]
      BY <1>2, <2>6, <2>7, <3>1 DEF Extended
    <3>3. CASE l \in 1 .. Len(replies) /\ replies'[l] = replies[l]
      BY <1>1, <3>1, <3>2, <3>3 DEF Ascending
    <3>4. CASE replies'[l] = d
      BY <2>2, <2>3, <2>8, <3>2, <3>4
    <3>5. QED  BY <2>7, <3>3, <3>4
  <2>10. calls[n + 1] = <<>>
    <3>1. n + 1 > Len(issued)
      BY <2>3
    <3>2. QED  BY <1>1, <2>3, <3>1 DEF NotYetCalled
  <2>11. PendingNotCalled'
    BY <1>1, <1>4, <2>2, <2>3, <2>7, <2>10 DEF PendingNotCalled
  <2>12. ASSUME NEW i \in 1 .. n + 1
         PROVE  Len(calls'[i]) <= 1 /\ (issued'[i].fn => Pending(i)' \/ calls'[i] # <<>>)
    <3>1. CASE i \in 1 .. n
      <4>1. Len(calls[i]) <= 1 /\ (issued[i].fn => Pending(i) \/ calls[i] # <<>>)
        BY <1>1, <2>4, <3>1 DEF PendingOrCalled
      <4>2. Pending(i) => Pending(i)'
        BY <1>2, <2>6 DEF Extended, Pending
      <4>3. QED  BY <1>4, <2>4, <3>1, <4>1, <4>2
    <3>2. CASE i = n + 1
      <4>1. Len(replies) + 1 \in 1 .. Len(replies') /\ replies'[Len(replies) + 1].id = n + 1
        BY <1>2, <2>2, <2>3, <2>6 DEF Extended
      <4>2. Pending(n + 1)'
        BY <4>1 DEF Pending
      <4>3. QED  BY <1>4, <2>10, <3>2, <4>2
    <3>3. QED  BY <2>3, <3>1, <3>2
  <2>13. QED  BY <2>4, <2>9, <2>11, <2>12 DEF PendingOrCalled
<1>5. CASE replies' = replies /\ UNCHANGED <<issued, calls>>
  BY <1>1, <1>5 DEF Ascending, PendingNotCalled, PendingOrCalled, Pending
<1>6. ASSUME NEW r, CallsOne(r) PROVE Ascending' /\ PendingNotCalled' /\ PendingOrCalled'
  <2>1. PICK c : c = Head(replies)
    OBVIOUS
  <2>2. /\ Shifted(replies, replies') /\ c = replies[1] /\ 1 \in 1 .. Len(replies)
        /\ issued' = issued
    BY <1>2, <1>6, <2>1, ShiftTail DEF CallsOne, Shifted
  <2>3. /\ c \in Callback \cup {NoCallback} /\ c.id \in 1 .. Len(issued)
        /\ c.fn = issued[c.id].fn /\ c.id \in Ids
    BY <1>2, <1>3, <2>2, BoundsAssumption DEF Ids
  <2>4. /\ \A i \in Ids : i # c.id => calls'[i] = calls[i]
        /\ ~c.fn => calls' = calls
        /\ c.fn => calls'[c.id] = Append(calls[c.id], r)
    BY <1>1, <1>6, <2>1, <2>3, RunEffect DEF CallsOne
  <2>5. \A k \in 1 .. Len(replies') : k + 1 \in 1 .. Len(replies) /\ replies'[k] = replies[k + 1]
    BY <1>2, <2>2 DEF Shifted
  <2>6. Len(replies') = Len(replies) - 1
    BY <2>2 DEF Shifted
  <2>7. Ascending'
    <3>1. SUFFICES ASSUME NEW k \in 1 .. Len(replies'), NEW l \in 1 .. Len(replies'), k < l
                   PROVE  replies'[k].id < replies'[l].id
      BY DEF Ascending
    <3>2. k + 1 < l + 1
      BY <1>2, <2>6, <3>1
    <3>3. QED  BY <1>1, <2>5, <3>2 DEF Ascending
  <2>8. ASSUME NEW k \in 1 .. Len(replies') PROVE calls'[replies'[k].id] = <<>>
    <3>1. 1 < k + 1
      BY <1>2, <2>6
    <3>2. c.id < replies[k + 1].id
      BY <1>1, <2>2, <2>5, <3>1 DEF Ascending
    <3>3. replies[k + 1].id \in Ids /\ replies[k + 1].id # c.id
      BY <1>2, <1>3, <2>3, <2>5, <3>2, BoundsAssumption DEF Ids
    <3>4. calls[replies[k + 1].id] = <<>>
      BY <1>1, <2>5 DEF PendingNotCalled
    <3>5. QED  BY <2>4, <2>5, <3>3, <3>4
  <2>9. ASSUME NEW i \in DOMAIN issued
        PROVE  Len(calls'[i]) <= 1 /\ (issued[i].fn => Pending(i)' \/ calls'[i] # <<>>)
    <3>1. i \in Ids /\ Len(calls[i]) <= 1 /\ (issued[i].fn => Pending(i) \/ calls[i] # <<>>)
      BY <1>1, <1>2, BoundsAssumption DEF PendingOrCalled, Ids
    <3>2. CASE i = c.id
      <4>1. calls[i] = <<>>
        BY <1>1, <2>2, <3>2 DEF PendingNotCalled
      <4>2. CASE c.fn
        <5>1. calls'[i] = Append(<<>>, r)
          BY <2>4, <3>2, <4>1, <4>2
        <5>2. QED  BY <5>1
      <4>3. CASE ~c.fn
        BY <2>3, <2>4, <3>1, <3>2, <4>3
      <4>4. QED  BY <4>2, <4>3
    <3>3. CASE i # c.id
      <4>1. calls'[i] = calls[i]
        BY <2>4, <3>1, <3>3
      <4>2. ASSUME Pending(i) PROVE Pending(i)'
        <5>1. PICK k \in 1 .. Len(replies) : replies[k].id = i
          BY <4>2 DEF Pending
        <5>2. k # 1
          BY <2>2, <3>3, <5>1
        <5>3. k - 1 \in 1 .. Len(replies') /\ replies'[k - 1] = replies[k]
          <6>1. k - 1 \in 1 .. Len(replies') /\ (k - 1) + 1 = k
            BY <1>2, <2>6, <5>2
          <6>2. QED  BY <2>5, <6>1
        <5>4. QED  BY <5>1, <5>3 DEF Pending
      <4>3. QED  BY <3>1, <4>1, <4>2
    <3>4. QED  BY <3>2, <3>3
  <2>10. QED  BY <2>2, <2>7, <2>8, <2>9 DEF PendingNotCalled, PendingOrCalled
<1>7. QED  BY <1>1, <1>4, <1>5, <1>6 DEF RegularCase

LEMMA NothingUnsent ==
  ASSUME FlowInv, RegularOnly, Open, ~broken, replies = <<>>
  PROVE  obuf = <<>>
<1>1. TBuffers /\ InStep /\ "SUBSCRIBED" \notin flags
  BY RegularModes, TypeParts DEF FlowInv, InFlight, Pipeline
<1>2. Len(Incoming) \in Nat /\ Len(Outgoing) \in Nat /\ Len(replies) = 0
  BY <1>1, StreamsTyped
<1>3. Len(Outgoing) = 0
  BY <1>1, <1>2 DEF InStep, OnlyRegular
<1>4. Len(obuf) \in Nat /\ Len(toServer) \in Nat /\ Len(Outgoing) = Len(toServer) + Len(obuf)
  BY <1>1, ConcatProperties DEF TBuffers, Outgoing
<1>5. Len(obuf) = 0
  BY <1>3, <1>4
<1>6. QED  BY <1>1, <1>5, EmptySeq DEF TBuffers

(* A connection is only closed cleanly when nothing is pending. *)
LEMMA ClosingStep ==
  ASSUME FlowInv, Clean, Next, RegularOnly', CleanlyClosed'
  PROVE  replies' = <<>> /\ obuf' = <<>> /\ calls' = calls /\ (Open \/ CleanlyClosed)
<1>a. TControl /\ TBooleans /\ Control /\ Next
  BY TypeParts DEF FlowInv
<1>b. RegularOnly
  BY RegularCases
<1>c. closedBy' = "user" /\ "FREEING" \notin flags' /\ ~broken'
  BY DEF CleanlyClosed
<1>d. ASSUME closedBy = "user", "FREEING" \notin flags, ~broken
      PROVE  /\ CleanlyClosed /\ replies = <<>> /\ obuf = <<>>
             /\ at \notin {"idle", "read", "write", "process", "callback"}
  BY <1>a, <1>b, <1>d DEF CleanlyClosed, Clean, Control, Open
<1>e. ASSUME at \in {"idle", "read", "write", "process", "callback"}
      PROVE  Open /\ closedBy = "nobody"
  BY <1>a, <1>e DEF Control, Open
<1>f. invalid = <<>> /\ DOMAIN channels = {} /\ "SUBSCRIBED" \notin flags /\ "MONITORING" \notin flags
  BY <1>b, RegularModes
<1>0. Next
  OBVIOUS
<1>1. ASSUME NEW kind \in Kinds, NEW topic \in Topics \cup {NoTopic}, NEW fn \in BOOLEAN,
             kind \in {"subscribe", "unsubscribe"} => topic \in Topics,
             AsyncCommand(kind, topic, fn)
      PROVE  replies' = <<>> /\ obuf' = <<>> /\ calls' = calls /\ (Open \/ CleanlyClosed)
  <2>1. closedBy = "user" /\ "FREEING" \notin flags /\ ~broken
    BY <1>c, <1>1 DEF AsyncCommand, socket
  <2>2. at = "freeCallback"
    BY <1>d, <2>1, <1>1 DEF AsyncCommand, AppRuns
  <2>3. QED  BY <1>a, <2>2, <1>1 DEF AsyncCommand, Accepted, Control
<1>2. CASE AsyncDisconnect
  <2>1. CASE "IN_CALLBACK" \notin flags /\ replies = <<>>
    <3>1. at = "idle"
      BY <1>a, <2>1, <1>2 DEF AsyncDisconnect, AppRuns, TControl
    <3>2. Open /\ ~broken /\ obuf' = obuf /\ replies' = replies /\ calls' = calls
      BY <1>c, <1>e, <3>1, <1>2 DEF AsyncDisconnect, socket, queues
    <3>3. QED  BY <1>b, <2>1, <3>2, NothingUnsent
  <2>2. CASE ~("IN_CALLBACK" \notin flags /\ replies = <<>>)
    <3>1. closedBy = "user" /\ "FREEING" \notin flags /\ ~broken
      BY <1>c, <2>2, <1>2 DEF AsyncDisconnect, socket
    <3>2. QED  BY <1>d, <3>1, <1>2 DEF AsyncDisconnect, queues
  <2>3. QED  BY <2>1, <2>2
<1>3. CASE AsyncFree
  BY <1>c, <1>3 DEF AsyncFree
<1>4. ASSUME NEW e \in {"read", "write"}, HandleEvent(e)
      PROVE  replies' = <<>> /\ obuf' = <<>> /\ calls' = calls /\ (Open \/ CleanlyClosed)
  BY <1>c, <1>e, <1>4 DEF HandleEvent, CloseWith
<1>5. CASE LibuvPollError
  BY <1>c, <1>d, <1>5 DEF LibuvPollError, queues, socket
<1>6. CASE SecondHandlerUsesFreed
  BY <1>c, <1>d, <1>6 DEF SecondHandlerUsesFreed, queues, socket
<1>7. CASE BufferError
  BY <1>c, <1>e, <1>7 DEF BufferError, CloseWith
<1>8. CASE BufferRead
  BY <1>c, <1>e, <1>8 DEF BufferRead
<1>9. CASE BufferWrite
  BY <1>c, <1>e, <1>9 DEF BufferWrite
<1>10. CASE NoMoreReplies
  BY <1>c, <1>e, <1>10 DEF NoMoreReplies, CloseWith
<1>11. CASE ProtocolError
  BY <1>c, <1>e, <1>11 DEF ProtocolError, CloseWith
<1>12. CASE SpontaneousError
  BY <1>c, <1>e, <1>12 DEF SpontaneousError, CloseWith
<1>13. CASE RegularReply
  BY <1>c, <1>e, <1>13 DEF RegularReply, TakeReply
<1>14. CASE UnexpectedReply
  BY <1>c, <1>d, <1>14 DEF UnexpectedReply, TakeReply, queues, socket
<1>15. CASE SubscribedReply
  BY <1>f, <1>15 DEF SubscribedReply, TakeReply
<1>16. CASE MonitorReply
  BY <1>f, <1>16 DEF MonitorReply, TakeReply
<1>17. CASE CallbackReturns
  BY <1>c, <1>e, <1>17 DEF CallbackReturns
<1>18. CASE FreeRegular
  <2>1. closedBy = "user" /\ "FREEING" \notin flags /\ ~broken
    BY <1>c, <1>18 DEF FreeRegular, RunCallback, socket
  <2>2. QED  BY <1>d, <2>1, <1>18 DEF FreeRegular
<1>19. CASE FreeInvalid
  BY <1>f, <1>19 DEF FreeInvalid
<1>20. ASSUME NEW t \in Topics, FreeChannel(t)
      PROVE  replies' = <<>> /\ obuf' = <<>> /\ calls' = calls /\ (Open \/ CleanlyClosed)
  BY <1>f, <1>20 DEF FreeChannel
<1>21. CASE FreeCallbackReturns
  BY <1>c, <1>d, <1>21 DEF FreeCallbackReturns, queues, socket
<1>22. CASE FreeContext
  BY <1>c, <1>d, <1>22 DEF FreeContext, queues, socket
<1>23. CASE ServerExecutes
  BY <1>c, <1>d, <1>23 DEF ServerExecutes, queues
<1>24. CASE ServerPushes
  BY <1>c, <1>d, <1>24 DEF ServerPushes, queues
<1>25. CASE ConnectionBreaks
  BY <1>c, <1>d, <1>25 DEF ConnectionBreaks, queues
<1>26. QED
  BY <1>1, <1>2, <1>3, <1>4, <1>5, <1>6, <1>7, <1>8, <1>9, <1>10, <1>11, <1>12, <1>13,
     <1>14, <1>15, <1>16, <1>17, <1>18, <1>19, <1>20, <1>21, <1>22, <1>23, <1>24, <1>25, <1>0, BoolsAssumption
  DEF Next, Application, IssueCommand, Client, Handlers, ProcessCallbacks, Free, Server

LEMMA CleanStep == FlowInv /\ Clean /\ Next => Clean'
<1>0. SUFFICES ASSUME FlowInv, Clean, Next, RegularOnly'
               PROVE  /\ Open' => NoNulls'
                      /\ CleanlyClosed' => replies' = <<>> /\ obuf' = <<>> /\ NoNulls'
  BY DEF Clean
<1>1. TControl /\ TBuffers /\ TQueues /\ THistory /\ UsesFlags
  BY <1>0, TypeParts DEF FlowInv, Uses
<1>2. RegularOnly /\ RegularCase /\ ~Monitored'
  BY <1>0, RegularCases DEF RegularOnly, Monitored
<1>3. ASSUME calls' = calls, NoNulls PROVE NoNulls'
  BY <1>3 DEF NoNulls
<1>4. ASSUME Open' PROVE NoNulls'
  <2>1. Open /\ NoNulls
    BY <1>0, <1>1, <1>2, <1>4, PipelineCases DEF Clean
  <2>2. CASE RegularReply /\ CallsOne(Head(inbuf))
    <3>1. PICK c, r, fs, inside, skip : c = Head(replies) /\ r = Head(inbuf)
             /\ RunCallback(c, r, fs, inside, skip)
      BY <2>2 DEF CallsOne
    <3>2. c \in Callback \cup {NoCallback}
      <4>1. replies # <<>>
        BY <2>2 DEF CallsOne
      <4>2. QED  BY <1>1, <3>1, <4>1 DEF TQueues
    <3>3. r # NullReply
      <4>1. r \in Reply
        BY <1>1, <2>2, <3>1 DEF RegularReply, TakeReply, TBuffers
      <4>2. r.type # "null"
        BY <4>1 DEF Reply
      <4>3. QED  BY <4>2 DEF NullReply
    <3>4. /\ \A i \in Ids : i # c.id => calls'[i] = calls[i]
          /\ ~c.fn => calls' = calls
          /\ c.fn => c.id \in Ids /\ calls'[c.id] = Append(calls[c.id], r)
      BY <1>1, <3>1, <3>2, RunEffect
    <3>5. CASE ~c.fn
      BY <1>3, <2>1, <3>4, <3>5
    <3>6. CASE c.fn
      <4>1. calls[c.id] \in Seq(Reply \cup {NullReply})
        BY <1>1, <3>4, <3>6 DEF THistory
      <4>2. \A k \in DOMAIN calls[c.id] : calls[c.id][k] # NullReply
        BY <2>1, <3>4, <3>6 DEF NoNulls
      <4>3. PICK s : s = calls[c.id]  OBVIOUS
      <4>4. \A k \in DOMAIN Append(s, r) : Append(s, r)[k] # NullReply
        BY <3>3, <4>1, <4>2, <4>3
      <4>5. ASSUME NEW i \in Ids, NEW k \in DOMAIN calls'[i] PROVE calls'[i][k] # NullReply
        <5>1. CASE i = c.id
          BY <3>4, <3>6, <4>3, <4>4, <4>5, <5>1, Zenon
        <5>2. CASE i # c.id
          BY <2>1, <3>4, <4>5, <5>2 DEF NoNulls
        <5>3. QED  BY <5>1, <5>2
      <4>6. QED  BY <4>5 DEF NoNulls
    <3>7. QED  BY <3>5, <3>6
  <2>3. CASE FreeRegular
    BY <2>1, <2>3 DEF FreeRegular, Open
  <2>4. CASE calls' = calls
    BY <1>3, <2>1, <2>4
  <2>5. QED  BY <1>2, <2>2, <2>3, <2>4 DEF RegularCase
<1>5. ASSUME CleanlyClosed' PROVE replies' = <<>> /\ obuf' = <<>> /\ NoNulls'
  <2>1. replies' = <<>> /\ obuf' = <<>> /\ calls' = calls /\ (Open \/ CleanlyClosed)
    BY <1>0, <1>5, ClosingStep
  <2>2. QED  BY <1>0, <1>2, <1>3, <2>1 DEF Clean
<1>6. QED  BY <1>4, <1>5

LEMMA RegularInvariant == Spec => [](FlowInv /\ Once /\ Clean)
<1>1. Init => FlowInv /\ Once /\ Clean
  <2>1. SUFFICES ASSUME Init PROVE Once /\ Clean
    BY FlowInit
  <2>2. /\ replies = <<>> /\ Len(replies) = 0 /\ issued = <<>> /\ DOMAIN issued = {}
        /\ closedBy = "nobody"
    BY <2>1 DEF Init
  <2>3. NoNulls
    BY <2>1 DEF Init, NoNulls
  <2>4. QED  BY <2>2, <2>3 DEF Once, Ascending, PendingNotCalled, PendingOrCalled, Clean,
                               CleanlyClosed
<1>2. ASSUME FlowInv, Once, Clean, [Next]_vars PROVE FlowInv' /\ Once' /\ Clean'
  <2>1. CASE Next
    BY <1>2, <2>1, FlowStep, OnceStep, CleanStep
  <2>2. CASE UNCHANGED vars
    <3>1. /\ UNCHANGED <<at, flags, obuf, replies, broken, issued, closedBy, calls>>
      BY <2>2 DEF vars, queues, socket
    <3>2. (RegularOnly' <=> RegularOnly) /\ (Open' <=> Open)
      BY <3>1 DEF RegularOnly, Used, Open
    <3>3. Once'
      BY <1>2, <3>1, <3>2 DEF Once, Ascending, PendingNotCalled, PendingOrCalled, Pending
    <3>4. Clean'
      BY <1>2, <3>1, <3>2 DEF Clean, NoNulls, CleanlyClosed
    <3>5. QED  BY <1>2, <3>3, <3>4, FlowStep
  <2>3. QED  BY <1>2, <2>1, <2>2
<1>3. QED  BY <1>1, <1>2, PTL DEF Spec

(***************************************************************************)
(* No reply, disconnect, free or broken connection makes the callback of a *)
(* regular command run twice, and none has been forgotten when the context *)
(* is freed.                                                               *)
(***************************************************************************)
THEOREM CallbacksRunOnce == Spec => []CalledOnce
<1>1. FlowInv /\ Once => CalledOnce
  <2>1. SUFFICES ASSUME FlowInv, Once, RegularOnly, NEW i \in DOMAIN issued
                 PROVE  Len(calls[i]) <= 1 /\ (Freed /\ issued[i].fn => calls[i] # <<>>)
    BY DEF CalledOnce
  <2>2. Len(calls[i]) <= 1 /\ (issued[i].fn => Pending(i) \/ calls[i] # <<>>)
    BY <2>1 DEF Once, PendingOrCalled
  <2>3. Freed => replies = <<>>
    BY <2>1 DEF FlowInv, Control
  <2>4. Freed => ~Pending(i)
    BY <2>3 DEF Pending
  <2>5. QED  BY <2>2, <2>4
<1>2. QED  BY <1>1, RegularInvariant, PTL

(***************************************************************************)
(* redisAsyncDisconnect() flushes: when it has ended an unbroken           *)
(* connection, every regular command was written and no callback was put   *)
(* off with a NULL reply.                                                  *)
(***************************************************************************)
THEOREM DisconnectsCleanly == Spec => []CleanDisconnect
<1>1. FlowInv /\ Clean => CleanDisconnect
  <2>1. SUFFICES ASSUME FlowInv, Clean, RegularOnly, closedBy = "user",
                        "FREEING" \notin flags, ~broken
                 PROVE  /\ obuf = <<>>
                        /\ \A i \in DOMAIN issued :
                             \A k \in DOMAIN calls[i] : calls[i][k] # NullReply
    BY DEF CleanDisconnect
  <2>2. obuf = <<>> /\ NoNulls
    BY <2>1 DEF Clean, CleanlyClosed
  <2>3. THistory
    BY <2>1, TypeParts DEF FlowInv
  <2>4. DOMAIN issued \subseteq Ids
    BY <2>3, BoundsAssumption DEF THistory, Ids
  <2>5. QED  BY <2>2, <2>4 DEF NoNulls
<1>2. QED  BY <1>1, RegularInvariant, PTL
-----------------------------------------------------------------------------
(* Callbacks get what they were registered for. *)

AllFit == \A i \in DOMAIN issued : \A k \in DOMAIN calls[i] : Fits(i, calls[i][k])

LEMMA FitsKept ==
  ASSUME THistory, AllFit, issued' = issued, NEW c \in Callback \cup {NoCallback}, NEW r,
         NEW fs, NEW inside, NEW skip, RunCallback(c, r, fs, inside, skip),
         c.fn => Fits(c.id, r)
  PROVE  AllFit'
<1>1. /\ \A i \in Ids : i # c.id => calls'[i] = calls[i]
      /\ ~c.fn => calls' = calls
      /\ c.fn => c.id \in Ids /\ calls'[c.id] = Append(calls[c.id], r)
  BY RunEffect
<1>2. ASSUME NEW i \in DOMAIN issued, NEW k \in DOMAIN calls'[i] PROVE Fits(i, calls'[i][k])
  <2>1. i \in Ids
    BY BoundsAssumption DEF THistory, Ids
  <2>2. CASE calls'[i] = calls[i]
    BY <1>2, <2>2 DEF AllFit
  <2>3. CASE c.fn /\ i = c.id
    <3>1. PICK s \in Seq(Reply \cup {NullReply}) : s = calls[i]
      BY <2>1 DEF THistory
    <3>2. calls'[i] = Append(s, r)
      BY <1>1, <2>3, <3>1
    <3>3. (k \in DOMAIN s /\ calls'[i][k] = s[k]) \/ calls'[i][k] = r
      BY <1>2, <3>1, <3>2
    <3>4. QED  BY <2>3, <3>1, <3>3 DEF AllFit
  <2>4. QED  BY <1>1, <2>1, <2>2, <2>3
<1>3. QED  BY <1>2 DEF AllFit, Fits

LEMMA MatchedStep == FlowInv /\ Matched /\ Next => Matched'
<1>0. SUFFICES ASSUME FlowInv, Matched, Next, Waited', Known', ~Monitored'
               PROVE  AllFit'
  BY DEF Matched, AllFit, Fits
<1>a. TControl /\ TBuffers /\ TQueues /\ THistory /\ UsesFlags /\ Registered /\ NotYetCalled /\ InFlight
  BY <1>0, TypeParts DEF FlowInv, Uses
<1>b. ASSUME issued' = issued PROVE Waited /\ Known /\ ~Monitored /\ AllFit /\ "MONITORING" \notin flags
  BY <1>0, <1>a, <1>b DEF Waited, Known, Monitored, Used, Matched, AllFit, UsesFlags
<1>c. ASSUME issued' = issued, calls' = calls PROVE AllFit'
  BY <1>b, <1>c DEF AllFit, Fits
<1>d. ASSUME issued' = issued, at \in {"idle", "read", "write", "process", "callback"} PROVE InStep
  BY <1>a, <1>b, <1>d DEF InFlight, Pipeline, Open
<1>e. ASSUME issued' = issued, NEW c \in Callback \cup {NoCallback},
             \E fs, inside, skip : RunCallback(c, NullReply, fs, inside, skip)
      PROVE  AllFit'
  <2>1. Fits(c.id, NullReply)
    BY DEF Fits
  <2>2. QED  BY <1>a, <1>b, <1>e, <2>1, FitsKept
<1>1. ASSUME NEW kind \in Kinds, NEW topic \in Topics \cup {NoTopic}, NEW fn \in BOOLEAN,
             kind \in {"subscribe", "unsubscribe"} => topic \in Topics,
             AsyncCommand(kind, topic, fn)
      PROVE  AllFit'
  <2>1. PICK n \in Nat : n = Len(issued) /\ n + 1 \in Ids
    BY <1>a, <1>1, IssuedStep
  <2>2. /\ DOMAIN issued = 1 .. n /\ DOMAIN issued' = 1 .. n + 1
        /\ \A i \in 1 .. n : issued'[i] = issued[i]
    BY <1>a, <2>1, <1>1, IssuedStep
  <2>3. Waited /\ Known /\ ~Monitored
    BY <1>0, <1>a, <1>1, WaitedStep, KnownStep, UsedStep DEF Monitored
  <2>4. AllFit /\ calls' = calls
    BY <1>0, <2>3, <1>1 DEF Matched, AllFit, AsyncCommand
  <2>5. calls[n + 1] = <<>>
    <3>1. n + 1 > Len(issued)
      BY <2>1
    <3>2. QED  BY <1>a, <2>1, <3>1 DEF NotYetCalled
  <2>6. ASSUME NEW i \in 1 .. n + 1, NEW k \in DOMAIN calls[i] PROVE Fits(i, calls[i][k])'
    <3>1. i \in 1 .. n
      BY <2>1, <2>5, <2>6
    <3>2. Fits(i, calls[i][k])
      BY <2>2, <2>4, <2>6, <3>1 DEF AllFit
    <3>3. QED  BY <2>2, <2>4, <3>1, <3>2 DEF Fits
  <2>7. QED  BY <2>2, <2>4, <2>6 DEF AllFit
<1>2. CASE AsyncDisconnect
  BY <1>c, <1>2 DEF AsyncDisconnect
<1>3. CASE AsyncFree
  BY <1>c, <1>3 DEF AsyncFree
<1>4. ASSUME NEW e \in {"read", "write"}, HandleEvent(e)
      PROVE  AllFit'
  BY <1>c, <1>4 DEF HandleEvent
<1>5. CASE LibuvPollError
  BY <1>c, <1>5 DEF LibuvPollError
<1>6. CASE SecondHandlerUsesFreed
  BY <1>c, <1>6 DEF SecondHandlerUsesFreed
<1>7. CASE BufferError
  BY <1>c, <1>7 DEF BufferError
<1>8. CASE BufferRead
  BY <1>c, <1>8 DEF BufferRead
<1>9. CASE BufferWrite
  BY <1>c, <1>9 DEF BufferWrite
<1>10. CASE NoMoreReplies
  BY <1>c, <1>10 DEF NoMoreReplies
<1>11. CASE ProtocolError
  BY <1>c, <1>11 DEF ProtocolError
<1>12. CASE SpontaneousError
  BY <1>c, <1>12 DEF SpontaneousError
<1>13. CASE RegularReply
  <2>1. InStep /\ replies # <<>>
    BY <1>d, <1>13 DEF RegularReply, TakeReply
  <2>2. PICK c, r, fs, inside, skip : c = Head(replies) /\ r = Head(inbuf) /\ issued' = issued
           /\ RunCallback(c, r, fs, inside, skip)
    BY <1>13 DEF RegularReply
  <2>3. Taking
    BY <1>a, <1>13, FlowTake DEF RegularReply, TakeReply, socket, Taking
  <2>4. c \in Callback \cup {NoCallback} /\ c = replies[1] /\ 1 <= Len(replies)
    BY <1>a, <2>1, <2>2, HeadTailProperties, EmptySeq DEF TQueues
  <2>5. r = Incoming[1] /\ 1 \in 1 .. Len(Incoming)
    BY <1>a, <2>2, <2>3, StreamsTyped DEF Taking, Shifted
  <2>6. Unsolicited(r) \/ (r.what = "answer" /\ r.of = c.id)
    BY <2>1, <2>4, <2>5 DEF InStep, RegularFirst
  <2>7. Fits(c.id, r)
    BY <2>6 DEF Fits, Unsolicited
  <2>8. QED  BY <1>a, <1>b, <2>2, <2>4, <2>7, FitsKept
<1>14. CASE UnexpectedReply
  BY <1>c, <1>14 DEF UnexpectedReply, TakeReply
<1>15. CASE SubscribedReply
  <2>1. InStep /\ replies = <<>> /\ Len(replies) = 0
    BY <1>d, <1>15 DEF SubscribedReply, TakeReply
  <2>2. Taking
    BY <1>a, <1>15, FlowTake DEF SubscribedReply, TakeReply, socket, Taking
  <2>3. PICK r : r = Head(inbuf)
    OBVIOUS
  <2>4. r = Incoming[1] /\ 1 \in 1 .. Len(Incoming)
    BY <1>a, <2>2, <2>3, StreamsTyped DEF Taking, Shifted
  <2>5. issued' = issued /\ r.type \notin {"garbage", "error"}
    BY <2>3, <1>15 DEF SubscribedReply, TakeReply
  <2>6. r.type = "array" /\ r.topic \in DOMAIN channels
    BY <1>b, <2>1, <2>4, <2>5 DEF InStep, ThenPubSub, Expected, Unsolicited
  <2>7. PICK c, fs, inside, skip : c = channels[r.topic] /\ RunCallback(c, r, fs, inside, skip)
    BY <2>3, <2>6, <1>15 DEF SubscribedReply
  <2>8. c \in Callback \cup {NoCallback} /\ Of(issued, c, "subscribe") /\ issued[c.id].topic = r.topic
    BY <1>a, <2>6, <2>7 DEF TQueues, Registered
  <2>9. Fits(c.id, r)
    BY <2>6, <2>8 DEF Fits, Of
  <2>10. QED  BY <1>a, <1>b, <2>5, <2>7, <2>8, <2>9, FitsKept
<1>16. CASE MonitorReply
  BY <1>b, <1>16 DEF MonitorReply
<1>17. CASE CallbackReturns
  BY <1>c, <1>17 DEF CallbackReturns
<1>18. CASE FreeRegular
  <2>1. Head(replies) \in Callback \cup {NoCallback}
    BY <1>a, <1>18 DEF FreeRegular, TQueues
  <2>2. QED  BY <1>e, <2>1, <1>18 DEF FreeRegular
<1>19. CASE FreeInvalid
  <2>1. Head(invalid) \in Callback \cup {NoCallback}
    BY <1>a, <1>19 DEF FreeInvalid, TQueues
  <2>2. QED  BY <1>e, <2>1, <1>19 DEF FreeInvalid
<1>20. ASSUME NEW t \in Topics, FreeChannel(t)
      PROVE  AllFit'
  <2>1. channels[t] \in Callback \cup {NoCallback}
    BY <1>a, <1>20 DEF FreeChannel, TQueues
  <2>2. QED  BY <1>e, <2>1, <1>20 DEF FreeChannel
<1>21. CASE FreeCallbackReturns
  BY <1>c, <1>21 DEF FreeCallbackReturns
<1>22. CASE FreeContext
  BY <1>c, <1>22 DEF FreeContext
<1>23. CASE ServerExecutes
  BY <1>c, <1>23 DEF ServerExecutes
<1>24. CASE ServerPushes
  BY <1>c, <1>24 DEF ServerPushes
<1>25. CASE ConnectionBreaks
  BY <1>c, <1>25 DEF ConnectionBreaks
<1>26. QED
  BY <1>1, <1>2, <1>3, <1>4, <1>5, <1>6, <1>7, <1>8, <1>9, <1>10, <1>11, <1>12, <1>13,
     <1>14, <1>15, <1>16, <1>17, <1>18, <1>19, <1>20, <1>21, <1>22, <1>23, <1>24, <1>25, <1>0, BoolsAssumption
  DEF Next, Application, IssueCommand, Client, Handlers, ProcessCallbacks, Free, Server

LEMMA MatchedInvariant == Spec => [](FlowInv /\ Matched)
<1>1. Init => FlowInv /\ Matched
  <2>1. Init => DOMAIN issued = {}
    BY DEF Init
  <2>2. QED  BY <2>1, FlowInit DEF Matched
<1>2. ASSUME FlowInv, Matched, [Next]_vars PROVE FlowInv' /\ Matched'
  <2>1. CASE Next
    BY <1>2, <2>1, FlowStep, MatchedStep
  <2>2. CASE UNCHANGED vars
    <3>1. UNCHANGED <<issued, calls>>
      BY <2>2 DEF vars
    <3>2. Matched'
      BY <1>2, <3>1 DEF Matched, Waited, Known, Monitored, Used, Fits
    <3>3. QED  BY <1>2, <3>2, FlowStep
  <2>3. QED  BY <1>2, <2>1, <2>2
<1>3. QED  BY <1>1, <1>2, PTL DEF Spec

(***************************************************************************)
(* Regular and pub/sub callbacks may be mixed in any order: as long as the *)
(* application waits for the reply to an UNSUBSCRIBE and only unsubscribes *)
(* from topics it has a callback for, no callback is given a reply or a    *)
(* message meant for another one.                                          *)
(***************************************************************************)
THEOREM RepliesAreForTheirCallbacks == Spec => []RepliesMatch
<1>1. Matched => RepliesMatch
  BY DEF Matched, RepliesMatch, Fits, Monitored
<1>2. QED  BY <1>1, MatchedInvariant, PTL
-----------------------------------------------------------------------------
(* Subscribers. *)

LEMMA ToldAfter ==
  ASSUME THistory, NEW c \in Callback \cup {NoCallback}, NEW r, NEW fs, NEW inside, NEW skip,
         RunCallback(c, r, fs, inside, skip), NEW i \in Ids,
         c.fn /\ c.id = i => TheEnd(r), Told(i) \/ (c.fn /\ c.id = i)
  PROVE  Told(i)'
<1>1. /\ \A j \in Ids : j # c.id => calls'[j] = calls[j]
      /\ ~c.fn => calls' = calls
      /\ c.fn => c.id \in Ids /\ calls'[c.id] = Append(calls[c.id], r)
  BY RunEffect
<1>2. CASE c.fn /\ c.id = i
  <2>1. PICK s \in Seq(Reply \cup {NullReply}) : s = calls[i]
    BY DEF THistory
  <2>2. calls'[i] = Append(s, r) /\ TheEnd(r)
    BY <1>1, <1>2, <2>1
  <2>3. calls'[i] # <<>> /\ calls'[i][Len(calls'[i])] = r
    BY <2>1, <2>2
  <2>4. QED  BY <2>2, <2>3 DEF Told, TheEnd
<1>3. CASE ~(c.fn /\ c.id = i)
  BY <1>1, <1>3 DEF Told, TheEnd
<1>4. QED  BY <1>2, <1>3

(* A subscriber whose callback a topic has, is registered. *)
LEMMA HeldBy ==
  ASSUME Registered, NEW t \in DOMAIN channels, NEW i \in DOMAIN issued, issued[i].fn,
         channels[t].id = i
  PROVE  Holds(i) /\ issued[i].topic = t
BY DEF Registered, Of, Holds

LEMMA InformedStep == FlowInv /\ Informed /\ Next => Informed'
<1>0. SUFFICES ASSUME FlowInv, Informed, Next, Waited', NEW i \in DOMAIN issued', Final(i)'
               PROVE  Holds(i)' \/ (Told(i)' /\ (Open' => Dismissed(i)'))
  BY DEF Informed, InformedOf
<1>a. TControl /\ TBuffers /\ TQueues /\ THistory /\ UsesFlags /\ Registered /\ InFlight
  BY <1>0, TypeParts DEF FlowInv, Uses
<1>b. ASSUME issued' = issued
      PROVE  /\ Waited /\ Final(i) /\ i \in Ids /\ i \in DOMAIN issued
             /\ issued[i].fn /\ issued[i].kind = "subscribe"
             /\ Holds(i) \/ (Told(i) /\ (Open => Dismissed(i)))
             /\ Dismissed(i) => ~Monitored
             /\ Dismissed(i)' <=> Dismissed(i)
  <2>1. Waited /\ i \in DOMAIN issued
    BY <1>0, <1>b DEF Waited
  <2>2. Final(i)
    BY <1>0, <1>b DEF Final, Monitored, Used
  <2>3. i \in Ids
    BY <1>a, <2>1, BoundsAssumption DEF THistory, Ids
  <2>4. Dismissed(i)' <=> Dismissed(i)
    BY <1>b DEF Dismissed
  <2>5. Holds(i) \/ (Told(i) /\ (Open => Dismissed(i)))
    BY <1>0, <2>1, <2>2 DEF Informed, InformedOf
  <2>6. issued[i].fn /\ issued[i].kind = "subscribe" /\ (Dismissed(i) => ~Monitored)
    BY <2>2 DEF Final, Dismissed
  <2>7. QED  BY <2>1, <2>2, <2>3, <2>4, <2>5, <2>6
<1>c. ASSUME issued' = issued, channels' = channels, Holds(i) PROVE Holds(i)'
  BY <1>c DEF Holds
<1>d. ASSUME issued' = issued, channels' = channels, calls' = calls,
             at' \in {"idle", "read", "write", "process", "callback"} =>
               at \in {"idle", "read", "write", "process", "callback"}
      PROVE  Holds(i)' \/ (Told(i)' /\ (Open' => Dismissed(i)'))
  <2>1. Told(i)' <=> Told(i)
    BY <1>d DEF Told, TheEnd
  <2>2. Open' => Open
    BY <1>d DEF Open
  <2>3. QED  BY <1>b, <1>c, <1>d, <2>1, <2>2
<1>e. ASSUME issued' = issued, channels' = channels,
             at' \notin {"idle", "read", "write", "process", "callback"},
             NEW c \in Callback \cup {NoCallback},
             \E fs, inside, skip : RunCallback(c, NullReply, fs, inside, skip)
      PROVE  Holds(i)' \/ (Told(i)' /\ (Open' => Dismissed(i)'))
  <2>1. TheEnd(NullReply) /\ ~Open'
    BY <1>e DEF TheEnd, Open
  <2>2. CASE Holds(i)
    BY <1>c, <1>e, <2>2
  <2>3. CASE Told(i)
    BY <1>a, <1>b, <1>e, <2>1, <2>3, ToldAfter
  <2>4. QED  BY <1>b, <1>e, <2>2, <2>3
<1>1. ASSUME NEW kind \in Kinds, NEW topic \in Topics \cup {NoTopic}, NEW fn \in BOOLEAN,
             kind \in {"subscribe", "unsubscribe"} => topic \in Topics,
             AsyncCommand(kind, topic, fn)
      PROVE  Holds(i)' \/ (Told(i)' /\ (Open' => Dismissed(i)'))
  <2>1. PICK n \in Nat : n = Len(issued)
    BY <1>a, <1>1, IssuedStep
  <2>2. /\ DOMAIN issued = 1 .. n /\ DOMAIN issued' = 1 .. n + 1
        /\ \A j \in 1 .. n : issued'[j] = issued[j]
        /\ issued'[n + 1].kind = kind /\ issued'[n + 1].topic = topic /\ issued'[n + 1].fn = fn
    BY <1>a, <2>1, <1>1, IssuedStep
  <2>3. PICK d : d = [id |-> n + 1, fn |-> fn]
    OBVIOUS
  <2>4. d.id = n + 1 /\ d.fn = fn
    BY <2>3
  <2>5. channels' = IF kind = "subscribe" THEN Replace(channels, topic, d) ELSE channels
    BY <2>1, <2>3, <1>1 DEF AsyncCommand
  <2>6. /\ kind = "subscribe" => topic \in DOMAIN channels' /\ channels'[topic] = d
        /\ \A u \in DOMAIN channels : u # topic \/ kind # "subscribe" =>
             u \in DOMAIN channels' /\ channels'[u] = channels[u]
    BY <2>5 DEF Replace
  <2>7. CASE i = n + 1
    <3>1. kind = "subscribe" /\ fn
      BY <1>0, <2>2, <2>7 DEF Final
    <3>2. QED  BY <2>2, <2>4, <2>6, <2>7, <3>1 DEF Holds
  <2>8. CASE i \in 1 .. n
    <3>1. n + 1 > i /\ n + 1 \in DOMAIN issued' /\ DOMAIN issued \subseteq DOMAIN issued'
      BY <2>1, <2>2, <2>8
    <3>2. Monitored => Monitored'
      BY <1>a, <1>1, UsedStep DEF Monitored
    <3>3. Final(i)
      BY <1>0, <2>2, <2>8, <3>1, <3>2 DEF Final
    <3>4. kind = "subscribe" => topic # issued[i].topic
      BY <1>0, <2>2, <2>8, <3>1 DEF Final
    <3>5. Waited
      BY <1>0, <1>a, <1>1, WaitedStep
    <3>6. Holds(i) \/ (Told(i) /\ (Open => Dismissed(i)))
      BY <1>0, <2>2, <2>8, <3>3, <3>5 DEF Informed, InformedOf
    <3>7. Holds(i) => Holds(i)'
      BY <2>2, <2>6, <2>8, <3>4 DEF Holds
    <3>8. Told(i)' <=> Told(i)
      BY <1>1 DEF AsyncCommand, Told, TheEnd
    <3>9. Dismissed(i) => Dismissed(i)'
      BY <2>2, <2>8, <3>1 DEF Dismissed
    <3>10. Open' <=> Open
      BY <1>1 DEF AsyncCommand, Open
    <3>11. QED  BY <3>6, <3>7, <3>8, <3>9, <3>10
  <2>9. QED  BY <1>0, <2>1, <2>2, <2>7, <2>8
<1>2. CASE AsyncDisconnect
  <2>1. at \in {"idle", "read", "write", "process", "callback"}
        \/ at' \notin {"idle", "read", "write", "process", "callback"}
    BY <1>2 DEF AsyncDisconnect, CloseWith, AppRuns
  <2>2. QED  BY <1>d, <2>1, <1>2 DEF AsyncDisconnect, queues
<1>3. CASE AsyncFree
  BY <1>d, <1>3 DEF AsyncFree, queues
<1>4. ASSUME NEW e \in {"read", "write"}, HandleEvent(e)
      PROVE  Holds(i)' \/ (Told(i)' /\ (Open' => Dismissed(i)'))
  <2>1. at \in {"idle", "read", "write", "process", "callback"}
        \/ at' \notin {"idle", "read", "write", "process", "callback"}
    BY <1>4 DEF HandleEvent, CloseWith, AppRuns
  <2>2. QED  BY <1>d, <2>1, <1>4 DEF HandleEvent, queues
<1>5. CASE LibuvPollError
  BY <1>d, <1>5 DEF LibuvPollError, queues
<1>6. CASE SecondHandlerUsesFreed
  BY <1>d, <1>6 DEF SecondHandlerUsesFreed, queues
<1>7. CASE BufferError
  <2>1. at \in {"idle", "read", "write", "process", "callback"}
        \/ at' \notin {"idle", "read", "write", "process", "callback"}
    BY <1>7 DEF BufferError, CloseWith, AppRuns
  <2>2. QED  BY <1>d, <2>1, <1>7 DEF BufferError, queues
<1>8. CASE BufferRead
  BY <1>d, <1>8 DEF BufferRead, queues
<1>9. CASE BufferWrite
  BY <1>d, <1>9 DEF BufferWrite, queues
<1>10. CASE NoMoreReplies
  <2>1. at \in {"idle", "read", "write", "process", "callback"}
        \/ at' \notin {"idle", "read", "write", "process", "callback"}
    BY <1>10 DEF NoMoreReplies, CloseWith, AppRuns
  <2>2. QED  BY <1>d, <2>1, <1>10 DEF NoMoreReplies, queues
<1>11. CASE ProtocolError
  <2>1. at \in {"idle", "read", "write", "process", "callback"}
        \/ at' \notin {"idle", "read", "write", "process", "callback"}
    BY <1>11 DEF ProtocolError, CloseWith, AppRuns
  <2>2. QED  BY <1>d, <2>1, <1>11 DEF ProtocolError, queues
<1>12. CASE SpontaneousError
  <2>1. at \in {"idle", "read", "write", "process", "callback"}
        \/ at' \notin {"idle", "read", "write", "process", "callback"}
    BY <1>12 DEF SpontaneousError, CloseWith, AppRuns
  <2>2. QED  BY <1>d, <2>1, <1>12 DEF SpontaneousError, queues
<1>13. CASE RegularReply
  <2>1. issued' = issued /\ channels' = channels /\ replies # <<>> /\ Open
    BY <1>13 DEF RegularReply, TakeReply, Open
  <2>2. CASE Holds(i)
    BY <1>c, <2>1, <2>2
  <2>3. CASE Told(i) /\ Dismissed(i)
    <3>1. PICK c, r, fs, inside, skip : c = Head(replies) /\ RunCallback(c, r, fs, inside, skip)
      BY <1>13 DEF RegularReply
    <3>2. c \in Callback \cup {NoCallback} /\ c = replies[1] /\ 1 \in 1 .. Len(replies)
      BY <1>a, <2>1, <3>1, HeadTailProperties, EmptySeq DEF TQueues
    <3>3. c.id # i
      BY <1>a, <1>b, <2>1, <2>3, <3>2 DEF Registered, Of
    <3>4. Told(i)'
      BY <1>a, <1>b, <2>1, <2>3, <3>1, <3>2, <3>3, ToldAfter
    <3>5. QED  BY <1>b, <2>1, <2>3, <3>4
  <2>4. QED  BY <1>b, <2>1, <2>2, <2>3
<1>14. CASE UnexpectedReply
  BY <1>d, <1>14 DEF UnexpectedReply, TakeReply, queues
<1>15. CASE SubscribedReply
  <2>1. PICK r : r = Head(inbuf)
    OBVIOUS
  <2>2. /\ issued' = issued /\ Open /\ replies = <<>> /\ Len(replies) = 0
        /\ r.type \notin {"error", "garbage"}
    BY <2>1, <1>15 DEF SubscribedReply, TakeReply, Open
  <2>3. PICK c, fs, inside, skip : c = cb' /\ RunCallback(c, r, fs, inside, skip)
    BY <2>1, <1>15 DEF SubscribedReply
  <2>4. c \in Callback \cup {NoCallback}
    <3>1. TQueues'
      BY <1>0, <1>a, QueuesTyped
    <3>2. QED  BY <2>3, <3>1 DEF TQueues
  <2>5. Taking
    BY <1>a, <1>15, FlowTake DEF SubscribedReply, TakeReply, socket, Taking
  <2>6. r = Incoming[1] /\ 1 \in 1 .. Len(Incoming)
    BY <1>a, <2>1, <2>5, StreamsTyped DEF Taking, Shifted
  <2>7. CASE Holds(i)
    <3>1. CASE channels' = channels
      BY <1>c, <2>2, <2>7, <3>1
    <3>2. CASE channels' # channels
      <4>1. /\ r.type = "array" /\ r.topic \in DOMAIN channels /\ r.what = "unsubscribe"
            /\ channels' = [t \in DOMAIN channels \ {r.topic} |-> channels[t]]
        BY <2>1, <3>2, <1>15 DEF SubscribedReply
      <4>2. c = channels[r.topic]
        BY <2>1, <2>3, <4>1, <1>15 DEF SubscribedReply
      <4>3. CASE issued[i].topic # r.topic
        BY <2>2, <2>7, <4>1, <4>3 DEF Holds
      <4>4. CASE issued[i].topic = r.topic
        <5>1. c.id = i /\ c.fn /\ TheEnd(r)
          BY <2>7, <4>1, <4>2, <4>4 DEF Holds, TheEnd
        <5>2. Told(i)'
          BY <1>a, <1>b, <2>2, <2>3, <2>4, <5>1, ToldAfter
        <5>3. /\ issued[Len(issued)].kind = "unsubscribe" /\ issued[Len(issued)].topic = r.topic
          BY <1>a, <1>b, <2>2, <2>6, <4>1 DEF InFlight, UnsubscribeLast
        <5>4. Len(issued) \in DOMAIN issued /\ Len(issued) > i
          <6>1. DOMAIN issued = 1 .. Len(issued) /\ Len(issued) \in Nat
            BY <1>a DEF THistory
          <6>2. i # Len(issued) /\ i \in 1 .. Len(issued)
            BY <1>b, <2>2, <5>3, <6>1
          <6>3. QED  BY <6>1, <6>2
        <5>5. Dismissed(i)
          BY <4>4, <5>3, <5>4 DEF Dismissed
        <5>6. QED  BY <1>b, <2>2, <5>2, <5>5
      <4>5. QED  BY <4>3, <4>4
    <3>3. QED  BY <3>1, <3>2
  <2>8. CASE ~Holds(i)
    <3>1. Told(i) /\ Dismissed(i) /\ ~Monitored /\ InStep
      BY <1>a, <1>b, <2>2, <2>8 DEF InFlight, Pipeline
    <3>2. ASSUME c.id = i PROVE TheEnd(r)
      <4>1. /\ r.type = "array"
            /\ r.what = "unsubscribe" \/ r.topic \in DOMAIN channels
        BY <2>2, <2>6, <3>1 DEF InStep, ThenPubSub, Expected, Unsolicited
      <4>2. r.topic \notin DOMAIN channels
        <5>1. SUFFICES ASSUME r.topic \in DOMAIN channels PROVE FALSE  OBVIOUS
        <5>2. c = channels[r.topic]
          BY <2>1, <2>3, <4>1, <5>1, <1>15 DEF SubscribedReply
        <5>3. QED  BY <1>a, <1>b, <2>2, <2>8, <3>2, <5>1, <5>2, HeldBy
      <4>3. QED  BY <4>1, <4>2 DEF TheEnd
    <3>3. Told(i)'
      BY <1>a, <1>b, <2>2, <2>3, <2>4, <3>1, <3>2, ToldAfter
    <3>4. QED  BY <1>b, <2>2, <3>1, <3>3
  <2>9. QED  BY <2>7, <2>8
<1>16. CASE MonitorReply
  <2>1. issued' = issued /\ channels' = channels /\ Open /\ "MONITORING" \in flags
    BY <1>16 DEF MonitorReply, TakeReply, Open, queues
  <2>2. Holds(i)
    BY <1>a, <1>b, <2>1 DEF UsesFlags, Monitored
  <2>3. QED  BY <1>c, <2>1, <2>2
<1>17. CASE CallbackReturns
  BY <1>d, <1>17 DEF CallbackReturns, queues
<1>18. CASE FreeRegular
  <2>1. Head(replies) \in Callback \cup {NoCallback}
    BY <1>a, <1>18 DEF FreeRegular, TQueues
  <2>2. at' \in {"free", "freeCallback"}
    BY <1>18 DEF FreeRegular, RunCallback
  <2>3. QED  BY <1>e, <2>1, <2>2, <1>18 DEF FreeRegular
<1>19. CASE FreeInvalid
  <2>1. Head(invalid) \in Callback \cup {NoCallback}
    BY <1>a, <1>19 DEF FreeInvalid, TQueues
  <2>2. at' \in {"free", "freeCallback"}
    BY <1>19 DEF FreeInvalid, RunCallback
  <2>3. QED  BY <1>e, <2>1, <2>2, <1>19 DEF FreeInvalid
<1>20. ASSUME NEW t \in Topics, FreeChannel(t)
      PROVE  Holds(i)' \/ (Told(i)' /\ (Open' => Dismissed(i)'))
  <2>1. PICK c, fs, inside, skip : c = channels[t] /\ RunCallback(c, NullReply, fs, inside, skip)
    BY <1>20 DEF FreeChannel
  <2>2. c \in Callback \cup {NoCallback}
    BY <1>a, <2>1, <1>20 DEF FreeChannel, TQueues
  <2>3. ~Open'
    BY <1>20 DEF FreeChannel, RunCallback, Open
  <2>4. /\ issued' = issued /\ t \in DOMAIN channels
        /\ channels' = [u \in DOMAIN channels \ {t} |-> channels[u]]
    BY <1>20 DEF FreeChannel
  <2>5. CASE Holds(i) /\ issued[i].topic # t
    BY <2>4, <2>5 DEF Holds
  <2>6. CASE Holds(i) /\ issued[i].topic = t
    <3>1. c.id = i /\ c.fn
      BY <2>1, <2>6 DEF Holds
    <3>2. Told(i)'
      BY <1>a, <1>b, <2>1, <2>2, <2>4, <3>1, ToldAfter DEF TheEnd
    <3>3. QED  BY <2>3, <3>2
  <2>7. CASE Told(i)
    BY <1>a, <1>b, <2>1, <2>2, <2>3, <2>4, <2>7, ToldAfter DEF TheEnd
  <2>8. QED  BY <1>b, <2>4, <2>5, <2>6, <2>7
<1>21. CASE FreeCallbackReturns
  BY <1>d, <1>21 DEF FreeCallbackReturns, queues
<1>22. CASE FreeContext
  BY <1>d, <1>22 DEF FreeContext, queues
<1>23. CASE ServerExecutes
  BY <1>d, <1>23 DEF ServerExecutes, queues
<1>24. CASE ServerPushes
  BY <1>d, <1>24 DEF ServerPushes, queues
<1>25. CASE ConnectionBreaks
  BY <1>d, <1>25 DEF ConnectionBreaks, queues
<1>26. QED
  BY <1>1, <1>2, <1>3, <1>4, <1>5, <1>6, <1>7, <1>8, <1>9, <1>10, <1>11, <1>12, <1>13,
     <1>14, <1>15, <1>16, <1>17, <1>18, <1>19, <1>20, <1>21, <1>22, <1>23, <1>24, <1>25, <1>0, BoolsAssumption
  DEF Next, Application, IssueCommand, Client, Handlers, ProcessCallbacks, Free, Server

LEMMA InformedInvariant == Spec => [](FlowInv /\ Informed)
<1>1. Init => FlowInv /\ Informed
  <2>1. Init => DOMAIN issued = {}
    BY DEF Init
  <2>2. QED  BY <2>1, FlowInit DEF Informed
<1>2. ASSUME FlowInv, Informed, [Next]_vars PROVE FlowInv' /\ Informed'
  <2>1. CASE Next
    BY <1>2, <2>1, FlowStep, InformedStep
  <2>2. CASE UNCHANGED vars
    <3>1. UNCHANGED <<at, channels, issued, calls>>
      BY <2>2 DEF vars, queues
    <3>2. /\ (Waited' <=> Waited) /\ (Open' <=> Open)
          /\ \A i \in DOMAIN issued : InformedOf(i)' <=> InformedOf(i)
      BY <3>1 DEF Waited, Open, InformedOf, Final, Holds, Told, TheEnd, Dismissed, Monitored, Used
    <3>3. Informed'
      BY <1>2, <3>1, <3>2 DEF Informed
    <3>4. QED  BY <1>2, <3>3, FlowStep
  <2>3. QED  BY <1>2, <2>1, <2>2
<1>3. QED  BY <1>1, <1>2, PTL DEF Spec

(***************************************************************************)
(* For an application that waits for the reply to an UNSUBSCRIBE: by the   *)
(* time the context is freed, the last thing a subscriber's callback was   *)
(* given is an unsubscribe message or a NULL reply, unless another         *)
(* subscriber took its place or it was unsubscribed and MONITOR is used.   *)
(***************************************************************************)
THEOREM SubscribersAreTold == Spec => []SubscribersToldTheEnd
<1>1. FlowInv /\ Informed => SubscribersToldTheEnd
  <2>1. SUFFICES ASSUME FlowInv, Informed, Waited, Freed, NEW i \in DOMAIN issued, Final(i)
                 PROVE  Told(i)
    <3>1. SUFFICES ASSUME FlowInv, Informed, Waited, Freed, NEW i \in DOMAIN issued,
                          issued[i].kind = "subscribe" /\ issued[i].fn,
                          ~Replaced(i), ~(Unsubscribed(i) /\ Monitored)
                   PROVE  Final(i)
      BY DEF SubscribersToldTheEnd, Monitored, Told, TheEnd
    <3>2. QED  BY <3>1 DEF Final, Replaced, Unsubscribed, About
  <2>2. DOMAIN channels = {}
    BY <2>1 DEF FlowInv, Control
  <2>3. QED  BY <2>1, <2>2 DEF Informed, InformedOf, Holds
<1>2. QED  BY <1>1, InformedInvariant, PTL
=============================================================================
