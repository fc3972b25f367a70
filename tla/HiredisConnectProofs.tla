------------------------ MODULE HiredisConnectProofs ------------------------
(***************************************************************************)
(* Proofs about HiredisConnect, for any number of descriptors, addresses,  *)
(* retries and connects.                                                   *)
(*                                                                         *)
(* What a connect that returned promises depends on what it had done when  *)
(* it returned, so the inductive invariant says, for each place of a       *)
(* connect, what is in c->fd and who holds that number: InsideConnect.     *)
(***************************************************************************)
EXTENDS HiredisConnect, WellFoundedInduction, TLAPS

HasSocket == {"setup", "connect", "wait", "finish"}

(***************************************************************************)
(* Inside a connect the context is alive.  Before socket(2) the number in  *)
(* c->fd is nobody's of this library, or an abandoned socket's; after it   *)
(* the number is the context's own, and non-blocking once connect(2) is    *)
(* about to be called.  TCP has an address left at every system call.      *)
(***************************************************************************)
InsideConnect ==
  /\ at # "app" => ctx.alive
  /\ at \in {"resolve", "socket"} /\ ctx.fd > 0 =>
       owner[ctx.fd] # "ctx" \/ ctx.fd \in abandoned
  /\ at \in HasSocket =>
       opened /\ ctx.fd >= 0 /\ owner[ctx.fd] = "ctx" /\ addrs > 0 /\ reuses < Retries
  /\ at \in {"resolve", "socket"} => reuses < Retries
  /\ at \in {"connect", "wait", "finish"} => ctx.fd \in nonblock

(* TypeOK, in parts. *)
ContextType == ctx \in Contexts
TablesType ==
  owner \in [Fds -> {"free", "app", "ctx"}] /\ nonblock \subseteq Fds /\ abandoned \subseteq Fds
CallType ==
  /\ want \in Wants /\ ret \in {"none", "ok", "err", "given"} /\ opened \in BOOLEAN
  /\ at \in {"app", "resolve", "socket", "setup", "connect", "wait", "finish"}
CountersType ==
  addrs \in 0 .. MaxAddrs /\ reuses \in 0 .. Retries /\ connects \in 0 .. MaxConnects

IInv == TypeOK /\ OutcomeTrue /\ DescriptorsAccounted /\ InsideConnect

USE BoundsAssumption
USE DEF Fds, Contexts, Wants, Timeouts, HasSocket
USE DEF ContextType, TablesType, CallType, CountersType

(* A non-empty set of descriptors has a lowest member. *)
LEMMA LowestFreeIsFree ==
  ASSUME Free # {}
  PROVE  LowestFree \in Free
<1> DEFINE Less == {ss \in Nat \X Nat : ss[1] < ss[2]}
<1>1. IsWellFoundedOn(Less, Nat)
  BY NatLessThanWellFounded, Zenon DEF OpToRel
<1>2. Free \subseteq Nat
  BY DEF Free
<1>3. PICK f \in Free : \A g \in Free : <<g, f>> \notin Less
  BY <1>1, <1>2, WFMin
<1>4. ASSUME NEW g \in Free PROVE f <= g
  <2>1. f \in Nat /\ g \in Nat /\ <<g, f>> \in Nat \X Nat
    BY <1>2
  <2>2. ~(g < f)
    BY <1>3, <2>1
  <2> QED BY <2>1, <2>2
<1> QED BY <1>3, <1>4 DEF LowestFree

(* What the connect calls ask for. *)
LEMMA ConnectCallsType ==
  ConnectCalls \subseteq [type : {"tcp", "unix"}, block : BOOLEAN, timed : BOOLEAN,
                          source : BOOLEAN, reuse : BOOLEAN]
BY DEF ConnectCalls, Asks

(* At first there is no context, and nothing has been opened. *)
LEMMA InitIInv == Init => IInv
<1> SUFFICES ASSUME Init PROVE IInv
  OBVIOUS
<1>1. NewContext(FALSE, FALSE) \in Contexts
  BY DEF NewContext
<1>2. ctx \in Contexts /\ ~ctx.alive
  BY <1>1 DEF Init
<1>3. TypeOK
  <2>1. TablesType
    BY DEF Init
  <2>2. want \in Wants
    BY DEF Init
  <2>3. /\ at = "app" /\ ret = "none" /\ opened = FALSE
        /\ addrs = 0 /\ reuses = 0 /\ connects = 0
    BY DEF Init
  <2>4. CountersType
    BY <2>3
  <2> HIDE DEF Contexts, Wants
  <2> QED BY <1>2, <2>1, <2>2, <2>3, <2>4 DEF TypeOK
<1>4. OutcomeTrue /\ OnlyRetriesLeak /\ OwnsItsDescriptor /\ InsideConnect
  BY <1>2 DEF Init, OutcomeTrue, OnlyRetriesLeak, OwnsItsDescriptor,
      InsideConnect
<1> QED BY <1>3, <1>4 DEF IInv, DescriptorsAccounted

(* A new context, with the number 0 and nothing opened. *)
LEMMA CreateKeepsIInv ==
  ASSUME IInv, NEW ask \in ConnectCalls, NEW t \in Timeouts, Create(ask, t)
  PROVE  IInv'
<1>1. TypeOK'
  <2>1. ContextType'
    BY ConnectCallsType DEF IInv, TypeOK, InsideConnect, Create, Start,
        NewContext
  <2>2. TablesType'
    BY ConnectCallsType DEF IInv, TypeOK, InsideConnect, Create, Start,
        NewContext
  <2>3. CountersType'
    BY ConnectCallsType DEF IInv, TypeOK, InsideConnect, Create, Start,
        NewContext
  <2>4. CallType'
    BY ConnectCallsType DEF IInv, TypeOK, Create, Start, NewContext
  <2> QED BY <2>1, <2>2, <2>3, <2>4 DEF TypeOK
<1>2. OutcomeTrue'
  BY ConnectCallsType DEF IInv, TypeOK, OutcomeTrue, InsideConnect, Create,
      Start, NewContext
<1>3. OnlyRetriesLeak'
  BY ConnectCallsType DEF IInv, TypeOK, DescriptorsAccounted, OnlyRetriesLeak,
      InsideConnect, Create, Start, NewContext
<1>4. OwnsItsDescriptor'
  BY ConnectCallsType DEF IInv, TypeOK, DescriptorsAccounted, OwnsItsDescriptor,
      InsideConnect, Create, Start, NewContext
<1>5. InsideConnect'
  BY ConnectCallsType DEF IInv, TypeOK, DescriptorsAccounted, OwnsItsDescriptor,
      InsideConnect, Create, Start, NewContext
<1> QED BY <1>1, <1>2, <1>3, <1>4, <1>5 DEF IInv, DescriptorsAccounted

(* The application hands over a descriptor. *)
LEMMA ConnectFdKeepsIInv ==
  ASSUME IInv, NEW f \in Fds, ConnectFd(f)
  PROVE  IInv'
<1>1. TypeOK'
  BY DEF IInv, TypeOK, InsideConnect, ConnectFd, NewContext
<1>2. OutcomeTrue'
  BY DEF IInv, TypeOK, OutcomeTrue, InsideConnect, ConnectFd, NewContext
<1>3. OnlyRetriesLeak'
  BY DEF IInv, TypeOK, DescriptorsAccounted, OnlyRetriesLeak, InsideConnect,
      ConnectFd, NewContext
<1>4. OwnsItsDescriptor'
  BY DEF IInv, TypeOK, DescriptorsAccounted, OwnsItsDescriptor, InsideConnect,
      ConnectFd, NewContext
<1>5. InsideConnect'
  BY DEF IInv, TypeOK, DescriptorsAccounted, OwnsItsDescriptor, InsideConnect,
      ConnectFd, NewContext
<1> QED BY <1>1, <1>2, <1>3, <1>4, <1>5 DEF IInv, DescriptorsAccounted

(* The old socket is closed before a new one is asked for. *)
LEMMA ReconnectKeepsIInv ==
  ASSUME IInv, Reconnect
  PROVE  IInv'
<1>1. TypeOK'
  <2>1. ContextType'
    BY DEF IInv, TypeOK, InsideConnect, Reconnect, Start, Closed
  <2>2. TablesType'
    BY DEF IInv, TypeOK, InsideConnect, Reconnect, Start, Closed
  <2>3. CountersType'
    BY DEF IInv, TypeOK, InsideConnect, Reconnect, Start, Closed
  <2>4. CallType'
    BY DEF IInv, TypeOK, Reconnect, Start, Closed
  <2> QED BY <2>1, <2>2, <2>3, <2>4 DEF TypeOK
<1>2. OutcomeTrue'
  BY DEF IInv, TypeOK, OutcomeTrue, InsideConnect, Reconnect, Start, Closed
<1>3. OnlyRetriesLeak'
  BY DEF IInv, TypeOK, DescriptorsAccounted, OnlyRetriesLeak, InsideConnect,
      Reconnect, Start, Closed
<1>4. OwnsItsDescriptor'
  BY DEF IInv, TypeOK, DescriptorsAccounted, OwnsItsDescriptor, InsideConnect,
      Reconnect, Start, Closed
<1>5. InsideConnect'
  BY DEF IInv, TypeOK, DescriptorsAccounted, OwnsItsDescriptor, InsideConnect,
      Reconnect, Start, Closed
<1> QED BY <1>1, <1>2, <1>3, <1>4, <1>5 DEF IInv, DescriptorsAccounted

(* The context's socket is closed with it. *)
LEMMA FreeContextKeepsIInv ==
  ASSUME IInv, FreeContext
  PROVE  IInv'
<1>1. TypeOK'
  BY DEF IInv, TypeOK, InsideConnect, FreeContext, Closed
<1>2. OutcomeTrue'
  BY DEF IInv, TypeOK, OutcomeTrue, InsideConnect, FreeContext, Closed
<1>3. OnlyRetriesLeak'
  BY DEF IInv, TypeOK, DescriptorsAccounted, OnlyRetriesLeak, InsideConnect,
      FreeContext, Closed
<1>4. OwnsItsDescriptor'
  BY DEF IInv, TypeOK, DescriptorsAccounted, OwnsItsDescriptor, InsideConnect,
      FreeContext, Closed
<1>5. InsideConnect'
  BY DEF IInv, TypeOK, DescriptorsAccounted, OwnsItsDescriptor, InsideConnect,
      FreeContext, Closed
<1> QED BY <1>1, <1>2, <1>3, <1>4, <1>5 DEF IInv, DescriptorsAccounted

(* The socket goes to the caller. *)
LEMMA FreeKeepFdKeepsIInv ==
  ASSUME IInv, FreeKeepFd
  PROVE  IInv'
<1>1. TypeOK'
  BY DEF IInv, TypeOK, InsideConnect, FreeKeepFd
<1>2. OutcomeTrue'
  BY DEF IInv, TypeOK, OutcomeTrue, InsideConnect, FreeKeepFd
<1>3. OnlyRetriesLeak'
  BY DEF IInv, TypeOK, DescriptorsAccounted, OnlyRetriesLeak, InsideConnect,
      FreeKeepFd
<1>4. OwnsItsDescriptor'
  BY DEF IInv, TypeOK, DescriptorsAccounted, OwnsItsDescriptor, InsideConnect,
      FreeKeepFd
<1>5. InsideConnect'
  BY DEF IInv, TypeOK, DescriptorsAccounted, OwnsItsDescriptor, InsideConnect,
      FreeKeepFd
<1> QED BY <1>1, <1>2, <1>3, <1>4, <1>5 DEF IInv, DescriptorsAccounted

(* A refused option only sets the error. *)
LEMMA OptionFailsKeepsIInv ==
  ASSUME IInv, OptionFails
  PROVE  IInv'
<1>1. TypeOK'
  BY DEF IInv, TypeOK, InsideConnect, OptionFails, SetTimeoutFails,
      KeepAliveFails, SetError
<1>2. OutcomeTrue'
  BY DEF IInv, TypeOK, OutcomeTrue, InsideConnect, OptionFails, SetTimeoutFails,
      KeepAliveFails, SetError
<1>3. OnlyRetriesLeak'
  BY DEF IInv, TypeOK, DescriptorsAccounted, OnlyRetriesLeak, InsideConnect,
      OptionFails, SetTimeoutFails, KeepAliveFails, SetError
<1>4. OwnsItsDescriptor'
  BY DEF IInv, TypeOK, DescriptorsAccounted, OwnsItsDescriptor, InsideConnect,
      OptionFails, SetTimeoutFails, KeepAliveFails, SetError
<1>5. InsideConnect'
  BY DEF IInv, TypeOK, DescriptorsAccounted, OwnsItsDescriptor, InsideConnect,
      OptionFails, SetTimeoutFails, KeepAliveFails, SetError
<1> QED BY <1>1, <1>2, <1>3, <1>4, <1>5 DEF IInv, DescriptorsAccounted

(* Other code never touches a number that a context holds. *)
LEMMA OtherCodeKeepsIInv ==
  ASSUME IInv, OtherCode
  PROVE  IInv'
<1>1. TypeOK'
  <2>1. ContextType'
    BY LowestFreeIsFree DEF IInv, TypeOK, InsideConnect, OtherCode, Closed, Free
  <2>2. TablesType'
    BY LowestFreeIsFree DEF IInv, TypeOK, InsideConnect, OtherCode, Closed, Free
  <2>3. CountersType'
    BY LowestFreeIsFree DEF IInv, TypeOK, InsideConnect, OtherCode, Closed, Free
  <2>4. CallType'
    BY LowestFreeIsFree DEF IInv, TypeOK, OtherCode, Closed, Free
  <2> QED BY <2>1, <2>2, <2>3, <2>4 DEF TypeOK
<1>2. OutcomeTrue'
  BY LowestFreeIsFree DEF IInv, TypeOK, OutcomeTrue, InsideConnect, OtherCode,
      Closed, Free
<1>3. OnlyRetriesLeak'
  BY LowestFreeIsFree DEF IInv, TypeOK, DescriptorsAccounted, OnlyRetriesLeak,
      InsideConnect, OtherCode, Closed, Free
<1>4. OwnsItsDescriptor'
  BY LowestFreeIsFree DEF IInv, TypeOK, DescriptorsAccounted, OwnsItsDescriptor,
      InsideConnect, OtherCode, Closed, Free
<1>5. InsideConnect'
  BY LowestFreeIsFree DEF IInv, TypeOK, DescriptorsAccounted, OwnsItsDescriptor,
      InsideConnect, OtherCode, Closed, Free
<1> QED BY <1>1, <1>2, <1>3, <1>4, <1>5 DEF IInv, DescriptorsAccounted

(***************************************************************************)
(* A connect that fails and closes its socket: the number is given back,   *)
(* and the context forgets it.                                             *)
(***************************************************************************)
LEMMA FailClosingKeepsIInv ==
  ASSUME IInv, at \in HasSocket, FailClosing,
         UNCHANGED <<nonblock, want, addrs, reuses, opened, abandoned, connects>>
  PROVE  IInv'
<1>1. ctx \in Contexts /\ ctx.fd \in Fds
  BY DEF IInv, TypeOK, InsideConnect
<1>2. /\ owner' = [owner EXCEPT ![ctx.fd] = "free"] /\ at' = "app" /\ ret' = "err"
      /\ ctx' = [SetError(ctx) EXCEPT !.fd = -1]
  BY DEF FailClosing, CloseFd, Closed, Return
<1>3. ctx' \in Contexts /\ ctx'.fd = -1 /\ ctx'.err /\ ctx'.alive = ctx.alive
  BY <1>1, <1>2 DEF SetError
<1>4. TypeOK'
  <2>1. TablesType' /\ CountersType' /\ CallType'
    BY <1>1, <1>2 DEF IInv, TypeOK
  <2> QED BY <1>3, <2>1 DEF TypeOK
<1>5. OutcomeTrue'
  BY <1>2, <1>3 DEF OutcomeTrue
<1>6. OnlyRetriesLeak'
  BY <1>1, <1>2, <1>3 DEF IInv, TypeOK, DescriptorsAccounted, OnlyRetriesLeak
<1>7. OwnsItsDescriptor' /\ InsideConnect'
  BY <1>2, <1>3 DEF OwnsItsDescriptor, InsideConnect
<1> QED BY <1>4, <1>5, <1>6, <1>7 DEF IInv, DescriptorsAccounted

(***************************************************************************)
(* A connect that fails and leaves its socket, if it has one, in the       *)
(* context for redisFree() to close.                                       *)
(***************************************************************************)
LEMMA FailOpenKeepsIInv ==
  ASSUME IInv, at # "app", FailOpen, nonblock' \subseteq Fds,
         UNCHANGED <<want, addrs, reuses, opened, abandoned, connects>>
  PROVE  IInv'
<1>1. ctx \in Contexts
  BY DEF IInv, TypeOK
<1>2. owner' = owner /\ at' = "app" /\ ret' = "err" /\ ctx' = SetError(ctx)
  BY DEF FailOpen, Return
<1>3. ctx' \in Contexts /\ ctx'.fd = ctx.fd /\ ctx'.err /\ ctx'.alive = ctx.alive
  BY <1>1, <1>2 DEF SetError
<1>4. TypeOK'
  <2>1. TablesType' /\ CountersType' /\ CallType'
    BY <1>2 DEF IInv, TypeOK
  <2> QED BY <1>3, <2>1 DEF TypeOK
<1>5. OutcomeTrue'
  BY <1>2, <1>3 DEF OutcomeTrue
<1>6. OnlyRetriesLeak' /\ OwnsItsDescriptor'
  BY <1>2, <1>3 DEF IInv, DescriptorsAccounted, OnlyRetriesLeak, OwnsItsDescriptor
<1>7. InsideConnect'
  BY <1>2 DEF InsideConnect
<1> QED BY <1>4, <1>5, <1>6, <1>7 DEF IInv, DescriptorsAccounted

(* fcntl() or setsockopt() fails, or connect(2) does: the socket is closed. *)
LEMMA ClosingFailuresKeepIInv ==
  ASSUME IInv, SetNonBlockFails \/ ConnectRefused \/ FinishFails
  PROVE  IInv'
BY FailClosingKeepsIInv DEF SetNonBlockFails, ConnectRefused, FinishFails

(* No socket, no source address, or an error on the socket: it stays. *)
LEMMA OpenFailuresKeepIInv ==
  ASSUME IInv, AddressesExhausted \/ UnixSocketFails \/ BindFails \/ SocketError
  PROVE  IInv'
<1>1. nonblock \subseteq Fds
  BY DEF IInv, TypeOK
<1>2. nonblock' = nonblock \/ (nonblock' = nonblock \cup {ctx.fd} /\ at = "setup")
  BY DEF AddressesExhausted, UnixSocketFails, BindFails, SetNonBlock, SocketError
<1>3. at = "setup" => ctx.fd \in Fds
  BY DEF IInv, TypeOK, InsideConnect
<1>4. nonblock' \subseteq Fds
  <2> HIDE DEF Fds
  <2> QED BY <1>1, <1>2, <1>3
<1> QED
  BY <1>4, FailOpenKeepsIInv DEF AddressesExhausted, UnixSocketFails, BindFails, SocketError

(* A failed wait closes the socket; a successful one goes on with it. *)
LEMMA WaitReadyKeepsIInv ==
  ASSUME IInv, WaitReady
  PROVE  IInv'
<1>1. CASE FailClosing
  BY <1>1, FailClosingKeepsIInv DEF WaitReady
<1>2. CASE at' = "finish" /\ UNCHANGED <<ctx, owner, ret>>
  <2>1. TypeOK' /\ OutcomeTrue'
    BY <1>2 DEF IInv, TypeOK, OutcomeTrue, WaitReady
  <2>2. OnlyRetriesLeak' /\ OwnsItsDescriptor' /\ InsideConnect'
    BY <1>2 DEF IInv, DescriptorsAccounted, OnlyRetriesLeak, OwnsItsDescriptor,
      InsideConnect, WaitReady
  <2> QED BY <2>1, <2>2 DEF IInv, DescriptorsAccounted
<1> QED BY <1>1, <1>2 DEF WaitReady

(* A failed lookup opens nothing. *)
LEMMA ResolveKeepsIInv ==
  ASSUME IInv, Resolve
  PROVE  IInv'
<1> DEFINE saved == [ctx EXCEPT !.type = "tcp", !.source = want.source,
                                !.timeout = want.timeout]
<1>0. \/ ctx' = SetError(saved) /\ at' = "app" /\ ret' = "err" /\ addrs' = addrs
      \/ ctx' = saved /\ at' = "socket" /\ ret' = ret /\ addrs' \in 1 .. MaxAddrs
  BY DEF Resolve, Return
<1>1. TypeOK'
  <2>1. ContextType'
    <3>1. ctx \in Contexts /\ want \in Wants
      BY DEF IInv, TypeOK
    <3>2. want.source \in BOOLEAN /\ want.timeout \in Timeouts
      BY <3>1
    <3>3. saved \in Contexts /\ SetError(saved) \in Contexts
      BY <3>1, <3>2 DEF SetError
    <3> HIDE DEF saved
    <3> QED BY <1>0, <3>3
  <2>2. TablesType'
    BY DEF IInv, TypeOK, Resolve
  <2> HIDE DEF saved
  <2>3. CountersType'
    BY <1>0 DEF IInv, TypeOK, Resolve
  <2>4. CallType'
    BY <1>0 DEF IInv, TypeOK, Resolve
  <2> QED BY <2>1, <2>2, <2>3, <2>4 DEF TypeOK
<1>2. /\ ctx'.alive = ctx.alive /\ ctx'.fd = ctx.fd
      /\ at' \in {"app", "socket"} /\ (at' = "app" => ctx'.err /\ ret' = "err")
  <2>1. ctx \in Contexts
    BY DEF IInv, TypeOK
  <2>2. /\ saved.alive = ctx.alive /\ saved.fd = ctx.fd
        /\ SetError(saved).alive = ctx.alive /\ SetError(saved).fd = ctx.fd
        /\ SetError(saved).err
    BY <2>1 DEF SetError
  <2> HIDE DEF saved
  <2> QED BY <1>0, <2>2
<1>3. OutcomeTrue'
  BY <1>2 DEF OutcomeTrue
<1>4. OnlyRetriesLeak' /\ OwnsItsDescriptor'
  BY <1>2 DEF IInv, DescriptorsAccounted, OnlyRetriesLeak, OwnsItsDescriptor, Resolve
<1>5. InsideConnect'
  BY <1>2 DEF IInv, InsideConnect, Resolve
<1> QED BY <1>1, <1>2, <1>3, <1>4, <1>5 DEF IInv, DescriptorsAccounted

(* The new socket is a free number; the old one was abandoned or never there. *)
LEMMA SocketOpensKeepsIInv ==
  ASSUME IInv, SocketOpens
  PROVE  IInv'
<1>1. TypeOK'
  BY LowestFreeIsFree DEF IInv, TypeOK, InsideConnect, SocketOpens, Free
<1>2. OutcomeTrue'
  BY LowestFreeIsFree DEF IInv, TypeOK, OutcomeTrue, InsideConnect, SocketOpens,
      Free
<1>3. OnlyRetriesLeak'
  BY LowestFreeIsFree DEF IInv, TypeOK, DescriptorsAccounted, OnlyRetriesLeak,
      InsideConnect, SocketOpens, Free
<1>4. OwnsItsDescriptor'
  BY LowestFreeIsFree DEF IInv, TypeOK, DescriptorsAccounted, OwnsItsDescriptor,
      InsideConnect, SocketOpens, Free
<1>5. InsideConnect'
  BY LowestFreeIsFree DEF IInv, TypeOK, DescriptorsAccounted, OwnsItsDescriptor,
      InsideConnect, SocketOpens, Free
<1> QED BY <1>1, <1>2, <1>3, <1>4, <1>5 DEF IInv, DescriptorsAccounted

(* The next address is tried. *)
LEMMA SocketFailsKeepsIInv ==
  ASSUME IInv, SocketFails
  PROVE  IInv'
<1>1. TypeOK'
  BY DEF IInv, TypeOK, InsideConnect, SocketFails
<1>2. OutcomeTrue'
  BY DEF IInv, TypeOK, OutcomeTrue, InsideConnect, SocketFails
<1>3. OnlyRetriesLeak'
  BY DEF IInv, TypeOK, DescriptorsAccounted, OnlyRetriesLeak, InsideConnect,
      SocketFails
<1>4. OwnsItsDescriptor'
  BY DEF IInv, TypeOK, DescriptorsAccounted, OwnsItsDescriptor, InsideConnect,
      SocketFails
<1>5. InsideConnect'
  BY DEF IInv, TypeOK, DescriptorsAccounted, OwnsItsDescriptor, InsideConnect,
      SocketFails
<1> QED BY <1>1, <1>2, <1>3, <1>4, <1>5 DEF IInv, DescriptorsAccounted

(* The socket stays in the context, without an error. *)
LEMMA ReuseAddrFailsKeepsIInv ==
  ASSUME IInv, ReuseAddrFails
  PROVE  IInv'
<1>0. ctx.fd \in Fds
  BY DEF IInv, TypeOK, InsideConnect, ReuseAddrFails
<1>1. TypeOK'
  <2>1. ContextType'
    BY DEF IInv, TypeOK, ReuseAddrFails
  <2>2. TablesType'
    BY <1>0 DEF IInv, TypeOK, ReuseAddrFails, SetNonBlock, Return
  <2>3. CountersType'
    BY DEF IInv, TypeOK, InsideConnect, ReuseAddrFails, SetNonBlock, Return
  <2>4. CallType'
    BY DEF IInv, TypeOK, ReuseAddrFails, SetNonBlock, Return
  <2> QED BY <2>1, <2>2, <2>3, <2>4 DEF TypeOK
<1>2. OutcomeTrue'
  BY DEF IInv, TypeOK, OutcomeTrue, InsideConnect, ReuseAddrFails, SetNonBlock,
      Return
<1>3. OnlyRetriesLeak'
  BY DEF IInv, TypeOK, DescriptorsAccounted, OnlyRetriesLeak, InsideConnect,
      ReuseAddrFails, SetNonBlock, Return
<1>4. OwnsItsDescriptor'
  BY DEF IInv, TypeOK, DescriptorsAccounted, OwnsItsDescriptor, InsideConnect,
      ReuseAddrFails, SetNonBlock, Return
<1>5. InsideConnect'
  BY DEF InsideConnect, ReuseAddrFails, Return
<1> QED BY <1>1, <1>2, <1>3, <1>4, <1>5 DEF IInv, DescriptorsAccounted

(* The socket is non-blocking for connect(2). *)
LEMMA SetUpKeepsIInv ==
  ASSUME IInv, SetUp
  PROVE  IInv'
<1>0. ctx.fd \in Fds
  BY DEF IInv, TypeOK, InsideConnect, SetUp
<1>1. TypeOK'
  <2>1. ContextType'
    BY DEF IInv, TypeOK, InsideConnect, SetUp, SetNonBlock
  <2>2. TablesType'
    BY <1>0 DEF IInv, TypeOK, SetUp, SetNonBlock
  <2>3. CountersType'
    BY DEF IInv, TypeOK, InsideConnect, SetUp, SetNonBlock
  <2>4. CallType'
    BY DEF IInv, TypeOK, SetUp, SetNonBlock
  <2> QED BY <2>1, <2>2, <2>3, <2>4 DEF TypeOK
<1>2. OutcomeTrue'
  BY DEF IInv, TypeOK, OutcomeTrue, InsideConnect, SetUp, SetNonBlock
<1>3. OnlyRetriesLeak'
  BY DEF IInv, TypeOK, DescriptorsAccounted, OnlyRetriesLeak, InsideConnect,
      SetUp, SetNonBlock
<1>4. OwnsItsDescriptor'
  BY DEF IInv, TypeOK, DescriptorsAccounted, OwnsItsDescriptor, InsideConnect,
      SetUp, SetNonBlock
<1>5. InsideConnect'
  BY DEF IInv, TypeOK, DescriptorsAccounted, OwnsItsDescriptor, InsideConnect,
      SetUp, SetNonBlock
<1> QED BY <1>1, <1>2, <1>3, <1>4, <1>5 DEF IInv, DescriptorsAccounted

(* Nothing changes hands. *)
LEMMA ConnectStartedKeepsIInv ==
  ASSUME IInv, ConnectStarted
  PROVE  IInv'
<1>1. TypeOK'
  BY DEF IInv, TypeOK, InsideConnect, ConnectStarted
<1>2. OutcomeTrue'
  BY DEF IInv, TypeOK, OutcomeTrue, InsideConnect, ConnectStarted
<1>3. OnlyRetriesLeak'
  BY DEF IInv, TypeOK, DescriptorsAccounted, OnlyRetriesLeak, InsideConnect,
      ConnectStarted
<1>4. OwnsItsDescriptor'
  BY DEF IInv, TypeOK, DescriptorsAccounted, OwnsItsDescriptor, InsideConnect,
      ConnectStarted
<1>5. InsideConnect'
  BY DEF IInv, TypeOK, DescriptorsAccounted, OwnsItsDescriptor, InsideConnect,
      ConnectStarted
<1> QED BY <1>1, <1>2, <1>3, <1>4, <1>5 DEF IInv, DescriptorsAccounted

(* Nothing changes hands. *)
LEMMA ConnectInProgressKeepsIInv ==
  ASSUME IInv, ConnectInProgress
  PROVE  IInv'
<1>1. TypeOK'
  BY DEF IInv, TypeOK, InsideConnect, ConnectInProgress
<1>2. OutcomeTrue'
  BY DEF IInv, TypeOK, OutcomeTrue, InsideConnect, ConnectInProgress
<1>3. OnlyRetriesLeak'
  BY DEF IInv, TypeOK, DescriptorsAccounted, OnlyRetriesLeak, InsideConnect,
      ConnectInProgress
<1>4. OwnsItsDescriptor'
  BY DEF IInv, TypeOK, DescriptorsAccounted, OwnsItsDescriptor, InsideConnect,
      ConnectInProgress
<1>5. InsideConnect'
  BY DEF IInv, TypeOK, DescriptorsAccounted, OwnsItsDescriptor, InsideConnect,
      ConnectInProgress
<1> QED BY <1>1, <1>2, <1>3, <1>4, <1>5 DEF IInv, DescriptorsAccounted

(* The socket is closed and the next address tried. *)
LEMMA HostUnreachableKeepsIInv ==
  ASSUME IInv, HostUnreachable
  PROVE  IInv'
<1>1. TypeOK'
  <2>1. ContextType'
    BY DEF IInv, TypeOK, InsideConnect, HostUnreachable, Closed
  <2>2. TablesType'
    BY DEF IInv, TypeOK, InsideConnect, HostUnreachable, Closed
  <2>3. CountersType'
    BY DEF IInv, TypeOK, InsideConnect, HostUnreachable, Closed
  <2>4. CallType'
    BY DEF IInv, TypeOK, HostUnreachable, Closed
  <2> QED BY <2>1, <2>2, <2>3, <2>4 DEF TypeOK
<1>2. OutcomeTrue'
  BY DEF IInv, TypeOK, OutcomeTrue, InsideConnect, HostUnreachable, Closed
<1>3. OnlyRetriesLeak'
  BY DEF IInv, TypeOK, DescriptorsAccounted, OnlyRetriesLeak, InsideConnect,
      HostUnreachable, Closed
<1>4. OwnsItsDescriptor'
  BY DEF IInv, TypeOK, DescriptorsAccounted, OwnsItsDescriptor, InsideConnect,
      HostUnreachable, Closed
<1>5. InsideConnect'
  BY DEF IInv, TypeOK, DescriptorsAccounted, OwnsItsDescriptor, InsideConnect,
      HostUnreachable, Closed
<1> QED BY <1>1, <1>2, <1>3, <1>4, <1>5 DEF IInv, DescriptorsAccounted

(* A retry abandons the socket, fewer than Retries times. *)
LEMMA AddressNotAvailableKeepsIInv ==
  ASSUME IInv, AddressNotAvailable
  PROVE  IInv'
<1>1. TypeOK'
  <2>1. ContextType'
    BY DEF IInv, TypeOK, InsideConnect, AddressNotAvailable, Return
  <2>2. TablesType'
    BY DEF IInv, TypeOK, InsideConnect, AddressNotAvailable, Return
  <2>3. CountersType'
    BY DEF IInv, TypeOK, InsideConnect, AddressNotAvailable, Return
  <2>4. CallType'
    BY DEF IInv, TypeOK, AddressNotAvailable, Return
  <2> QED BY <2>1, <2>2, <2>3, <2>4 DEF TypeOK
<1>2. OutcomeTrue'
  BY DEF IInv, TypeOK, OutcomeTrue, InsideConnect, AddressNotAvailable, Return
<1>3. OnlyRetriesLeak'
  BY DEF IInv, TypeOK, DescriptorsAccounted, OnlyRetriesLeak, InsideConnect,
      AddressNotAvailable, Return
<1>4. OwnsItsDescriptor'
  BY DEF IInv, TypeOK, DescriptorsAccounted, OwnsItsDescriptor, InsideConnect,
      AddressNotAvailable, Return
<1>5. InsideConnect'
  BY DEF IInv, TypeOK, DescriptorsAccounted, OwnsItsDescriptor, InsideConnect,
      AddressNotAvailable, Return
<1> QED BY <1>1, <1>2, <1>3, <1>4, <1>5 DEF IInv, DescriptorsAccounted

(* The socket blocks as the caller asked. *)
LEMMA FinishKeepsIInv ==
  ASSUME IInv, Finish
  PROVE  IInv'
<1>1. TypeOK'
  BY DEF IInv, TypeOK, InsideConnect, Finish, SetBlockingAsAsked, Return
<1>2. OutcomeTrue'
  BY DEF IInv, TypeOK, OutcomeTrue, InsideConnect, Finish, SetBlockingAsAsked,
      Return
<1>3. OnlyRetriesLeak'
  BY DEF IInv, TypeOK, DescriptorsAccounted, OnlyRetriesLeak, InsideConnect,
      Finish, SetBlockingAsAsked, Return
<1>4. OwnsItsDescriptor'
  BY DEF IInv, TypeOK, DescriptorsAccounted, OwnsItsDescriptor, InsideConnect,
      Finish, SetBlockingAsAsked, Return
<1>5. InsideConnect'
  BY DEF InsideConnect, Finish, Return
<1> QED BY <1>1, <1>2, <1>3, <1>4, <1>5 DEF IInv, DescriptorsAccounted

(* Every step of the application, the connect and the rest of the process. *)
LEMMA NextKeepsIInv == IInv /\ [Next]_vars => IInv'
<1> SUFFICES ASSUME IInv, [Next]_vars PROVE IInv'
  OBVIOUS
<1>1. ASSUME NEW ask \in ConnectCalls, NEW t \in Timeouts, Create(ask, t) PROVE IInv'
  BY <1>1, CreateKeepsIInv
<1>2. ASSUME NEW f \in Fds, ConnectFd(f) PROVE IInv'
  BY <1>2, ConnectFdKeepsIInv
<1>3. CASE Reconnect \/ FreeContext \/ FreeKeepFd \/ OptionFails \/ OtherCode
  BY <1>3, ReconnectKeepsIInv, FreeContextKeepsIInv, FreeKeepFdKeepsIInv,
      OptionFailsKeepsIInv, OtherCodeKeepsIInv
<1>4. CASE Connecting
  BY <1>4, ResolveKeepsIInv, SocketOpensKeepsIInv, SocketFailsKeepsIInv,
     ReuseAddrFailsKeepsIInv, SetUpKeepsIInv, ConnectStartedKeepsIInv,
     ConnectInProgressKeepsIInv, HostUnreachableKeepsIInv, AddressNotAvailableKeepsIInv,
     WaitReadyKeepsIInv, FinishKeepsIInv, ClosingFailuresKeepIInv,
     OpenFailuresKeepIInv
  DEF Connecting
<1>5. CASE UNCHANGED vars
  BY <1>5 DEF vars, IInv, TypeOK, OutcomeTrue, DescriptorsAccounted,
      OnlyRetriesLeak, OwnsItsDescriptor, InsideConnect
<1> QED BY <1>1, <1>2, <1>3, <1>4, <1>5 DEF Next

(* The inductive invariant holds in every reachable state. *)
LEMMA IInvHolds == Spec => []IInv
<1>1. IInv /\ [Next]_vars => IInv'
  BY NextKeepsIInv
<1> QED BY InitIInv, <1>1, PTL DEF Spec

(***************************************************************************)
(* The variables keep their types: the address loop of                     *)
(* _redisContextConnectTcp() never runs past the end of servinfo and gives *)
(* up at the REDIS_CONNECT_RETRIES-th EADDRNOTAVAIL.                       *)
(***************************************************************************)
THEOREM TypeCorrect == Spec => []TypeOK
<1>1. IInv => TypeOK
  BY DEF IInv
<1> QED BY IInvHolds, <1>1, PTL

(***************************************************************************)
(* What a connect or reconnect returned is true of the context it left,    *)
(* whatever the other code of the process did with its descriptors.        *)
(***************************************************************************)
THEOREM OutcomeIsTrue == Spec => []OutcomeTrue
<1>1. IInv => OutcomeTrue
  BY DEF IInv
<1> QED BY IInvHolds, <1>1, PTL

(***************************************************************************)
(* No error path of net.c loses a socket, except the EADDRNOTAVAIL retry   *)
(* (and number 0), and the number in c->fd is the context's own except     *)
(* after a reconnect that failed before it had a socket.                   *)
(***************************************************************************)
THEOREM DescriptorsAlwaysAccounted == Spec => []DescriptorsAccounted
<1>1. IInv => DescriptorsAccounted
  BY DEF IInv
<1> QED BY IInvHolds, <1>1, PTL

=============================================================================
