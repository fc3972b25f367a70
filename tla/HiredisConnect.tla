--------------------------- MODULE HiredisConnect ---------------------------
(***************************************************************************)
(* The life of a hiredis context as far as its socket is concerned         *)
(* (net.c, the first part of the context functions of hiredis.c): made by  *)
(* one of the redisConnect*() calls, reconnected, freed.  The descriptor   *)
(* table is the process's: other code opens and closes descriptors between *)
(* any two system calls of a connect, and a number that was closed is      *)
(* handed out again.  What a system call answers is a choice.  Hosts,      *)
(* ports, paths and error texts are left out, and allocation succeeds.     *)
(***************************************************************************)
EXTENDS Integers

CONSTANTS
  MaxFd,          \* descriptors are 0 .. MaxFd
  MaxAddrs,       \* most addresses getaddrinfo() returns
  Retries,        \* REDIS_CONNECT_RETRIES
  MaxConnects     \* bound on connects and reconnects

ASSUME BoundsAssumption ==
  /\ MaxFd \in Nat \ {0} /\ MaxAddrs \in Nat \ {0}
  /\ Retries \in Nat \ {0} /\ MaxConnects \in Nat \ {0}

Fds == 0 .. MaxFd

(* The redisConnect*() calls, and what each asks for. *)
Asks(type, block, timed, source, reuse) ==
  [type |-> type, block |-> block, timed |-> timed, source |-> source, reuse |-> reuse]
ConnectCalls ==
  {Asks("tcp", TRUE, FALSE, FALSE, FALSE),     \* redisConnect
   Asks("tcp", TRUE, TRUE, FALSE, FALSE),      \* redisConnectWithTimeout
   Asks("tcp", FALSE, FALSE, FALSE, FALSE),    \* redisConnectNonBlock
   Asks("tcp", FALSE, FALSE, TRUE, FALSE),     \* redisConnectBindNonBlock
   Asks("tcp", FALSE, FALSE, TRUE, TRUE),      \* redisConnectBindNonBlockWithReuse
   Asks("unix", TRUE, FALSE, FALSE, FALSE),    \* redisConnectUnix
   Asks("unix", TRUE, TRUE, FALSE, FALSE),     \* redisConnectUnixWithTimeout
   Asks("unix", FALSE, FALSE, FALSE, FALSE)}   \* redisConnectUnixNonBlock

(* A timeout redisContextWaitReady() refuses is "invalid". *)
Timeouts == {"none", "valid", "invalid"}

VARIABLES
  owner,        \* the descriptor table: who holds each descriptor
  nonblock,     \* the sockets with O_NONBLOCK set
  ctx,          \* the redisContext
  want,         \* the arguments of the connect in progress
  at,           \* where that connect is; "app" when there is none
  addrs,        \* addresses left in servinfo, the current one included
  reuses,       \* the local variable of that name
  ret,          \* what the last connect or reconnect returned; "given" for a
                \* context that redisConnectFd() made
  opened,       \* history: it has set c->fd
  abandoned,    \* history: sockets that an EADDRNOTAVAIL retry left behind
  connects      \* connects and reconnects so far

vars == <<owner, nonblock, ctx, want, at, addrs, reuses, ret, opened, abandoned, connects>>

Contexts ==
  [alive : BOOLEAN, fd : Fds \cup {-1}, err : BOOLEAN, block : BOOLEAN, reuse : BOOLEAN,
   connected : BOOLEAN, type : {"tcp", "unix"}, source : BOOLEAN, timeout : Timeouts]
Wants == [type : {"tcp", "unix"}, source : BOOLEAN, timeout : Timeouts]

(* redisContextInit(): calloc() makes the descriptor 0 and the type TCP. *)
NewContext(block, reuse) ==
  [alive |-> TRUE, fd |-> 0, err |-> FALSE, block |-> block, reuse |-> reuse,
   connected |-> FALSE, type |-> "tcp", source |-> FALSE, timeout |-> "none"]

(* Descriptor 0 is standard input, unless the process closed it. *)
Init ==
  /\ \E o \in {"app", "free"} : owner = [f \in Fds |-> IF f = 0 THEN o ELSE "free"]
  /\ nonblock = {} /\ abandoned = {}
  /\ ctx = [NewContext(FALSE, FALSE) EXCEPT !.alive = FALSE]
  /\ want = [type |-> "tcp", source |-> FALSE, timeout |-> "none"]
  /\ at = "app" /\ addrs = 0 /\ reuses = 0 /\ ret = "none"
  /\ opened = FALSE /\ connects = 0

Free == {f \in Fds : owner[f] = "free"}
LowestFree == CHOOSE f \in Free : \A g \in Free : f <= g

(* close(2): whoever holds the number loses it. *)
Closed(f) == [owner EXCEPT ![f] = "free"]

SetError(c) == [c EXCEPT !.err = TRUE]

(* Mutant: the number is kept after the close. *)
CloseFdKeepsNumber == owner' = Closed(ctx.fd) /\ ctx' = SetError(ctx)
(* An error is set, and redisContextCloseFd() closes the socket of this call. *)
CloseFd == owner' = Closed(ctx.fd) /\ ctx' = [SetError(ctx) EXCEPT !.fd = -1]

Return(r) == at' = "app" /\ ret' = r
FailClosing == CloseFd /\ Return("err")
(* goto error with the socket left for redisFree() to close. *)
FailOpen == ctx' = SetError(ctx) /\ Return("err") /\ UNCHANGED owner

-----------------------------------------------------------------------------
(* What the application calls. *)

Start(w) ==
  /\ connects < MaxConnects /\ connects' = connects + 1
  /\ want' = w /\ at' = (IF w.type = "tcp" THEN "resolve" ELSE "socket")
  /\ addrs' = 1 /\ reuses' = 0 /\ ret' = "none" /\ opened' = FALSE

(* redisConnect() and the seven like it. *)
Create(ask, timeout) ==
  /\ at = "app" /\ ~ctx.alive /\ (timeout # "none") = ask.timed
  /\ ctx' = NewContext(ask.block, ask.reuse)
  /\ Start([type |-> ask.type, source |-> ask.source, timeout |-> timeout])
  /\ UNCHANGED <<owner, nonblock, abandoned>>

(* redisConnectFd(): any descriptor of the application, 0 and non-blocking *)
(* ones included, becomes that of a context that says it blocks.           *)
ConnectFd(f) ==
  /\ at = "app" /\ ~ctx.alive /\ owner[f] = "app"
  /\ ctx' = [NewContext(TRUE, FALSE) EXCEPT !.fd = f, !.connected = TRUE]
  /\ owner' = [owner EXCEPT ![f] = "ctx"] /\ ret' = "given" /\ opened' = TRUE
  /\ UNCHANGED <<nonblock, want, at, addrs, reuses, abandoned, connects>>

(* redisReconnect() up to the connect.  Its last branch is for a type that *)
(* is neither TCP nor Unix: no context has one.                            *)
Reconnect ==
  /\ at = "app" /\ ctx.alive
  /\ ctx' = [ctx EXCEPT !.err = FALSE]
  /\ owner' = (IF ctx.fd > 0 THEN Closed(ctx.fd) ELSE owner)
  /\ Start([type |-> ctx.type, source |-> ctx.source /\ ctx.type = "tcp",
            timeout |-> ctx.timeout])
  /\ UNCHANGED <<nonblock, abandoned>>

(* redisFree(). *)
FreeContext ==
  /\ at = "app" /\ ctx.alive
  /\ owner' = (IF ctx.fd > 0 THEN Closed(ctx.fd) ELSE owner)
  /\ ctx' = [ctx EXCEPT !.alive = FALSE] /\ ret' = "none"
  /\ UNCHANGED <<nonblock, want, at, addrs, reuses, opened, abandoned, connects>>

(* redisFreeKeepFd(): the caller has the descriptor from now on. *)
FreeKeepFd ==
  /\ at = "app" /\ ctx.alive
  /\ owner' = [f \in Fds |-> IF f = ctx.fd /\ owner[f] = "ctx" THEN "app" ELSE owner[f]]
  /\ ctx' = [ctx EXCEPT !.alive = FALSE, !.fd = -1] /\ ret' = "none"
  /\ UNCHANGED <<nonblock, want, at, addrs, reuses, opened, abandoned, connects>>

(* redisSetTimeout() of a blocking context, or redisEnableKeepAlive():     *)
(* setsockopt() fails.                                                     *)
SetTimeoutFails == ctx.block /\ ctx' = SetError(ctx)
KeepAliveFails == ctx' = SetError(ctx)
OptionFails ==
  /\ at = "app" /\ ctx.alive /\ (SetTimeoutFails \/ KeepAliveFails)
  /\ UNCHANGED <<owner, nonblock, want, at, addrs, reuses, ret, opened, abandoned, connects>>

(* The rest of the process uses descriptors too. *)
OtherCode ==
  /\ \/ Free # {} /\ owner' = [owner EXCEPT ![LowestFree] = "app"]
     \/ \E f \in Fds : owner[f] = "app" /\ owner' = Closed(f)
  /\ nonblock' = nonblock \ Free
  /\ UNCHANGED <<ctx, want, at, addrs, reuses, ret, opened, abandoned, connects>>

-----------------------------------------------------------------------------
(* _redisContextConnectTcp() and redisContextConnectUnix(). *)

(* The parameters are saved for a reconnect, and the host is looked up.    *)
Resolve ==
  /\ at = "resolve"
  /\ LET saved == [ctx EXCEPT !.type = "tcp", !.source = want.source,
                              !.timeout = want.timeout]
     IN \/ ctx' = SetError(saved) /\ Return("err") /\ UNCHANGED addrs
        \/ ctx' = saved /\ at' = "socket" /\ addrs' \in 1 .. MaxAddrs /\ UNCHANGED ret
  /\ UNCHANGED <<owner, nonblock, want, reuses, opened, abandoned, connects>>

(* socket(2) gives a descriptor.  One of an earlier attempt that is still  *)
(* in c->fd is overwritten.                                                *)
SocketOpens ==
  /\ at = "socket" /\ addrs > 0 /\ Free # {}
  /\ owner' = [owner EXCEPT ![LowestFree] = "ctx"] /\ nonblock' = nonblock \ {LowestFree}
  /\ ctx' = [ctx EXCEPT !.fd = LowestFree] /\ opened' = TRUE /\ at' = "setup"
  /\ UNCHANGED <<want, addrs, reuses, ret, abandoned, connects>>

(* The loop over servinfo goes on with the next address. *)
SocketFails ==
  /\ at = "socket" /\ addrs > 0 /\ want.type = "tcp" /\ addrs' = addrs - 1
  /\ UNCHANGED <<owner, nonblock, ctx, want, at, reuses, ret, opened, abandoned, connects>>
AddressesExhausted ==
  /\ at = "socket" /\ addrs = 0 /\ FailOpen
  /\ UNCHANGED <<nonblock, want, addrs, reuses, opened, abandoned, connects>>
(* redisCreateSocket(): there is only the one address. *)
UnixSocketFails ==
  /\ at = "socket" /\ want.type = "unix" /\ FailOpen
  /\ UNCHANGED <<nonblock, want, addrs, reuses, opened, abandoned, connects>>

(* redisSetBlocking(c,0). *)
SetNonBlock == nonblock' = nonblock \cup {ctx.fd}
SetNonBlockFails ==
  /\ at = "setup" /\ FailClosing
  /\ UNCHANGED <<nonblock, want, addrs, reuses, opened, abandoned, connects>>

(* The source address cannot be looked up or bound. *)
BindFails ==
  /\ at = "setup" /\ want.source /\ SetNonBlock /\ FailOpen
  /\ UNCHANGED <<want, addrs, reuses, opened, abandoned, connects>>
(* A refused SO_REUSEADDR is an error that is not put in c->err. *)
ReuseAddrFails ==
  /\ at = "setup" /\ want.source /\ ctx.reuse /\ SetNonBlock /\ Return("err")
  /\ UNCHANGED <<owner, ctx, want, addrs, reuses, opened, abandoned, connects>>

(* Ready to connect; a Unix context saves its parameters only now. *)
SetUp ==
  /\ at = "setup" /\ SetNonBlock /\ at' = "connect"
  /\ ctx' = [ctx EXCEPT !.type = want.type, !.timeout = want.timeout]
  /\ UNCHANGED <<owner, want, addrs, reuses, ret, opened, abandoned, connects>>

(* connect(2), by its answer. *)
ConnectStarted ==        \* it succeeded, or is in progress in a non-blocking context
  /\ at = "connect" /\ at' = "finish"
  /\ UNCHANGED <<owner, nonblock, ctx, want, addrs, reuses, ret, opened, abandoned, connects>>

ConnectInProgress ==     \* EINPROGRESS in a blocking context
  /\ at = "connect" /\ ctx.block /\ at' = "wait"
  /\ UNCHANGED <<owner, nonblock, ctx, want, addrs, reuses, ret, opened, abandoned, connects>>

(* Mutant: the same address is tried again. *)
HostUnreachableSameAddress ==
  /\ at = "connect" /\ want.type = "tcp"
  /\ owner' = Closed(ctx.fd) /\ ctx' = [ctx EXCEPT !.fd = -1] /\ at' = "socket"
  /\ UNCHANGED <<nonblock, want, addrs, reuses, ret, opened, abandoned, connects>>
HostUnreachable ==       \* EHOSTUNREACH: the next address; no error is set
  /\ at = "connect" /\ want.type = "tcp"
  /\ owner' = Closed(ctx.fd) /\ ctx' = [ctx EXCEPT !.fd = -1]
  /\ addrs' = addrs - 1 /\ at' = "socket"
  /\ UNCHANGED <<nonblock, want, reuses, ret, opened, abandoned, connects>>

(* EADDRNOTAVAIL with REDIS_REUSEADDR: the same address again with a new   *)
(* socket, the old one left open, or an error that is not in c->err.  The  *)
(* failure that makes REDIS_CONNECT_RETRIES of them is not retried.        *)
AddressNotAvailable ==
  /\ at = "connect" /\ want.type = "tcp" /\ ctx.reuse
  /\ reuses' = reuses + 1
  /\ \/ reuses' >= Retries /\ Return("err") /\ UNCHANGED abandoned
     \/ /\ reuses' < Retries /\ at' = "socket"
        /\ abandoned' = abandoned \cup {ctx.fd} /\ UNCHANGED ret
  /\ UNCHANGED <<owner, nonblock, ctx, want, addrs, opened, connects>>

(* Any other errno: redisContextWaitReady() sets the error and closes. *)
ConnectRefused ==
  /\ at = "connect" /\ FailClosing
  /\ UNCHANGED <<nonblock, want, addrs, reuses, opened, abandoned, connects>>

(* redisContextWaitReady() of a connect in progress: a timeout out of      *)
(* range, a failed or timed-out poll(), or ready.                          *)
WaitReady ==
  /\ at = "wait"
  /\ \/ FailClosing
     \/ ctx.timeout # "invalid" /\ at' = "finish" /\ UNCHANGED <<ctx, owner, ret>>
  /\ UNCHANGED <<nonblock, want, addrs, reuses, opened, abandoned, connects>>
(* redisCheckSocketError(): SO_ERROR is set; the socket stays open. *)
SocketError ==
  /\ at = "wait" /\ ctx.timeout # "invalid" /\ FailOpen
  /\ UNCHANGED <<nonblock, want, addrs, reuses, opened, abandoned, connects>>

(* Mutant: the socket stays non-blocking. *)
SetBlockingAsAskedNot == UNCHANGED nonblock
SetBlockingAsAsked == nonblock' = IF ctx.block THEN nonblock \ {ctx.fd} ELSE nonblock
(* redisSetBlocking(c,1) and, for TCP, redisSetTcpNoDelay(). *)
FinishFails ==
  /\ at = "finish" /\ (ctx.block \/ want.type = "tcp") /\ FailClosing
  /\ UNCHANGED <<nonblock, want, addrs, reuses, opened, abandoned, connects>>
Finish ==
  /\ at = "finish" /\ SetBlockingAsAsked
  /\ ctx' = [ctx EXCEPT !.connected = TRUE] /\ Return("ok")
  /\ UNCHANGED <<owner, want, addrs, reuses, opened, abandoned, connects>>

Connecting ==
  \/ Resolve \/ SocketOpens \/ SocketFails \/ AddressesExhausted \/ UnixSocketFails
  \/ SetNonBlockFails \/ BindFails \/ ReuseAddrFails \/ SetUp
  \/ ConnectStarted \/ ConnectInProgress \/ HostUnreachable \/ AddressNotAvailable
  \/ ConnectRefused \/ WaitReady \/ SocketError \/ FinishFails \/ Finish

Next ==
  \/ \E ask \in ConnectCalls, t \in Timeouts : Create(ask, t)
  \/ \E f \in Fds : ConnectFd(f)
  \/ Reconnect \/ FreeContext \/ FreeKeepFd \/ OptionFails \/ OtherCode
  \/ Connecting

Spec == Init /\ [][Next]_vars
(* The thread inside a connect goes on, and the kernel answers a poll().   *)
FairSpec == Spec /\ WF_vars(Connecting)

-----------------------------------------------------------------------------
(* The variables have their types; the address loop never counts below     *)
(* zero, and a connect meets EADDRNOTAVAIL at most REDIS_CONNECT_RETRIES   *)
(* times (net.c:371), so it is retried once less than hiredis.h:79 says.   *)
TypeOK ==
  /\ owner \in [Fds -> {"free", "app", "ctx"}] /\ nonblock \subseteq Fds
  /\ ctx \in Contexts /\ want \in Wants
  /\ at \in {"app", "resolve", "socket", "setup", "connect", "wait", "finish"}
  /\ addrs \in 0 .. MaxAddrs /\ reuses \in 0 .. Retries
  /\ ret \in {"none", "ok", "err", "given"} /\ opened \in BOOLEAN
  /\ abandoned \subseteq Fds /\ connects \in 0 .. MaxConnects

(* A context whose connect returned REDIS_OK, and that has seen no error   *)
(* since, holds a descriptor of its own that is open and blocks exactly    *)
(* when the caller asked for it, however many addresses, retries and       *)
(* reconnects it took; when it returned REDIS_ERR, c->err says so, unless  *)
(* the context was made with REDIS_REUSEADDR.  A context that was given    *)
(* its descriptor holds it too, but redisConnectFd() does not look whether *)
(* it blocks.                                                              *)
OutcomeTrue ==
  at = "app" /\ ctx.alive =>
    /\ ret \in {"ok", "given"} /\ ~ctx.err =>
         ctx.connected /\ ctx.fd >= 0 /\ owner[ctx.fd] = "ctx"
    /\ ret = "ok" /\ ~ctx.err => (ctx.fd \in nonblock) = ~ctx.block
    /\ ret = "err" => ctx.err \/ ctx.reuse

(* A socket that a connect opened and no context refers to any more was    *)
(* left behind by an EADDRNOTAVAIL retry, or has the number 0, which       *)
(* redisFree() and redisReconnect() take for none.                         *)
OnlyRetriesLeak ==
  \A f \in Fds : owner[f] = "ctx" /\ (ctx.alive => f # ctx.fd) => f \in abandoned \cup {0}

(* What redisFree() or redisReconnect() will close belongs to the context, *)
(* except after a reconnect that closed the old descriptor and returned    *)
(* before it had a new one.                                                *)
OwnsItsDescriptor ==
  ctx.alive /\ ctx.fd > 0 /\ opened => owner[ctx.fd] = "ctx"

(* Every descriptor is accounted for: none is lost on an error path, and   *)
(* none is closed under whoever the number went to next.                   *)
DescriptorsAccounted == OnlyRetriesLeak /\ OwnsItsDescriptor

(* Every connect and reconnect returns: the retries and the addresses run  *)
(* out.                                                                    *)
ConnectReturns == at # "app" ~> at = "app"
=============================================================================
