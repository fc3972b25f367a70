# TLA+ models of the LtRAM policy bench

LtRAM is a memory tier for data that is read far more often than it is written. This repository is a bench for placement policies: a kernel with a zone `ZONE_LTRAM` on NUMA node 1, a module that moves a page back to DRAM when it is written, a smoke test for the zone, and the workloads that run in a QEMU guest, YCSB-C with its databases and the hiredis client among them. This directory holds TLA+ models of the parts that keep state and run concurrently, the TLC runs that check them on small instances, and TLAPS proofs of most of the safety properties for instances of any size.

`PROJECT.json` lists components, runs, mutants, the source lines behind each definition, findings, hazards and theorems. To repeat a run: `tlc -workers 2 -config <cfg> <MC module>`; to check the proofs about module `M`: `tlapm MProofs.tla` (the longest, `HiredisAsyncProofs`, takes some minutes).

## The system

| Part | State it keeps | Operations | What is hard about it |
|---|---|---|---|
| `ltram_module/ltram.c` | three counters; uses the page cache, page tables and zones | `ltram_page_mkwrite()` on the first write to a read-only LtRAM page | several processes fault on one page with no lock of the module's own; migration fails and is retried |
| `ltram_module/ltram_smoketest.c` | folios held, pass and fail counts | six tests at `insmod`, nothing at `rmmod` | early returns in mid-test; other users of the zone; defects it should detect |
| YCSB-C `db/hashtable_db.cc` over `lib/lock_stl_hashtable.h` | a locked table of locked tables of C strings | `Read`, `Scan`, `Update`, `Insert`, `Delete` | one lock per table call, none across calls; pointers leave the lock |
| YCSB-C `ycsbc.cc`, `core/` | key counters, the key chooser, operations left per thread | load phase, join, transaction phase, join, report | shared counters, division among threads, redrawing of keys |
| hiredis `async.c` | callback lists, pub/sub dictionaries, context flags, output buffer | commands, disconnect, free, read and write events | callbacks that re-enter the library; partial reads and writes; broken connections; mode changes in flight |
| hiredis `read.c` | byte buffer, cursor, stack of tasks | `redisReaderFeed`, `redisReaderGetReply` | replies cut anywhere, nested arrays, the limit of the stack |
| hiredis `adapters/` | the events registered with an event library | add and delete read and write interest, call the handlers | one-shot events, two handlers in one call, errors that are dropped |
| hiredis `net.c` and the context functions of `hiredis.c` | socket, flags and error of a context, the parameters of its last connect | connect (eight forms), reconnect, free, set options | addresses, retries and timeouts in one loop; a descriptor number that was closed belongs to somebody else |
| hiredis `hiredis.c`, commands | format, argument vector, output buffer | format and append a command, `redisGetReply()` | a small language parsed by hand; allocations that fail half-way |
| hiredis `dict.c`, `sds.c` | hash table, byte strings | container operations | nothing concurrent |
| YCSB-C `redis_client.h`, `redis_db.*` | one connection for all client threads | the `DB` interface over Redis | no lock around the connection; replies carry no identifier; a second reply for WAIT |
| guest scripts (`overlay/`, `run_profile.sh`, `monitoring/`) | pid file, log | start a workload, log `meminfo`, power off | logger and workload run side by side |
| host scripts, configurations | none | set-up | nothing concurrent |

How they interact: a workload's loads and stores reach the kernel as page faults, and the kernel calls the module's `page_mkwrite`. In YCSB-C, `main()` starts threads that call `Client`, which draws keys from the shared `CoreWorkload` and calls one shared `DB`, either the in-memory hash tables or Redis. The Redis `DB` uses the blocking half of hiredis. The asynchronous half is driven by an event loop, which calls its handlers; these feed the reply reader and run the application's callbacks, which call back in.

## Modules

| Module | Models | Extended or used by |
|---|---|---|
| `Ltram` | `ltram.c` and, marked external, the kernel services it calls | `MCLtram`, `LtramProofs` |
| `LtramSmoketest` | `ltram_smoketest.c` and, external, the page allocator | `MCLtramSmoketest`, `LtramSmoketestProofs` |
| `RecordStore` | what `core/db.h` promises of a database | `HashtableDB` (refinement) |
| `HashtableDB` | `hashtable_db.cc`, `lock_stl_db.h`, the locked hash table | `MCHashtableDB`, `HashtableDBProofs` |
| `YcsbDriver` | `ycsbc.cc`, `client.h`, `core_workload.*`, the generators' ranges | `MCYcsbDriver`, `YcsbDriverProofs` |
| `HiredisAsync` | `async.c`, the adapters for five event libraries and, external, the libraries, the server and the socket | `MCHiredisAsync`, `HiredisAsyncProofs` |
| `HiredisReader` | `read.c`, the reply objects of `hiredis.c` | `MCHiredisReader`, `HiredisReaderProofs` |
| `HiredisConnect` | `net.c` and the life of a context in `hiredis.c` | `MCHiredisConnect`, `HiredisConnectProofs` |
| `RedisClient` | `redis_db.*`, `redis_client.h` and the blocking calls of `hiredis.c`, composed with an external server | `MCRedisClient`, `RedisClientProofs` |
| `HiredisFormat` | `redisvFormatCommand()`, `redisFormatCommandArgv()`, `redisFormatSdsCommandArgv()` | `MCHiredisFormat` |
| `LtramProofs`, `LtramSmoketestProofs`, `HashtableDBProofs`, `YcsbDriverProofs`, `HiredisAsyncProofs`, `HiredisReaderProofs`, `HiredisConnectProofs`, `RedisClientProofs` | the proofs about the module each one extends | |

Each MC module only gives values to constants. Definitions whose comment begins with "Mutant:" are wrong variants of the definition that follows them. They take no part in any specification; `PROJECT.json` says which property each one must violate when it takes the place of the original.

### Ltram

A file page has one frame in the page cache (`cache`); each process maps it or not (`pteF`), writable or not (`pteW`). A first read is routed to a free LtRAM frame and mapped read-only. `StoreFault` captures `vmf->page`, as the kernel does before it calls `page_mkwrite`; from then on the process is a small program (`pc`) whose steps interleave with everything else. `WrongZone`, `CallMigrate`, `RepatFail` and `RepatDone` are the four pieces of `ltram_page_mkwrite()` between its calls. `ltram_migrate_from()` is two steps, isolating the folio and moving it, each of which may fail. The move is one step because migration entries stop every access to the page until it is over. A frame returns to the free list when neither the cache nor a fault refers to it, and is then reused. Writeback, unmapping and `drop_caches` may happen at any time. The content of a page is abstracted to the process that wrote it last. Counters wrap at `CounterMod`.

### LtramSmoketest

One action per piece of a test between two allocator calls; `EXPECT` is a return without `folio_put()`. The machine has any subset of six defects (allocation falls back to DRAM, kernel allocations land in LtRAM, freed pages are lost, cells read back wrong, LtRAM has no kernel address, no memory for the array), chosen at the start, and another user takes and returns frames in between. `bulk_count` ranges over negative, zero, fitting and exhausting values. Test 3 checks the address it gets from `folio_address()`, test 6 does not: a NULL there is a kernel oops, which ends the behaviour with the folio held.

### HashtableDB and RecordStore

Every call of a hash table locks that table's mutex and is one step. Between two calls nothing is locked. Strings and field tables are heap cells that are live or free and are reused; using a free cell is recorded in `ub`. A table's own copies of its keys are not cells: `lostKeys` records which calls have lost one (`LosesKey`), because a lost copy is never used again. An insert that a table refuses keeps its copy of the value for one more step (`InsertConflict`), in which another thread may allocate. A workload (which keys each thread loads, which operations it then calls on which keys) is chosen at the start. `RecordStore` is the abstract database: fields reach a record one at a time, a call that returns kOK has written all of them, and a conflicting insert stops. The refinement mapping reads the record through `key_table_`, so a write to a table that no key names is invisible to the abstract store; a history count in the thread's locals (`stored`) says how many fields of the call reached the record.

### YcsbDriver

`main()` and the client threads, in both phases. Drawing a key and calling the database are separate steps. The choosers are modelled by the set of keys they can return, not by their probabilities. The 64-bit hash is an injective function; `HashInjective` is an assumption.

### HiredisAsync

The library is single-threaded, so `at` says where the one thread is: in the event loop, in a handler, in `redisProcessCallbacks()`, in `__redisAsyncFree()`, or in an application callback called by one of the last two, where the application may issue commands, disconnect or free. A reply is tagged with the command it answers, which the code cannot see. Reads and writes take any number of replies or commands, none included. The local variable `cb` of `redisProcessCallbacks()` is part of the state because it survives from one turn of the loop to the next. A failed assert is the state `at = "assertionFailed"`. `issued` is history: what each command was, whether the reply to every earlier UNSUBSCRIBE had been taken when it was issued (`waited`), and, for an UNSUBSCRIBE, whether its topic had a callback (`known`).

`loop` is the adapter. What the libraries do is modelled from how the adapters use them: libevent's events are gone once they have fired, because the adapter does not ask for `EV_PERSIST`; ae's and ivykis's stay; libuv and GLib report both events to one function of the adapter, which calls the two handlers one after the other (read first in `redisLibuvPoll()`, write first in `redis_source_dispatch()`). If the first handler frees the context, the second is called with freed memory and the behaviour ends (`at = "useAfterFree"`). A status other than zero from libuv means that polling has stopped, until an event is added again. libev and Qt register events as ae does.

### HiredisReader

The wire is a sequence of bytes (a decimal number is one symbol) that is cut anywhere. `Feed` is `redisReaderFeed()`; `GetReply` and the actions after it are the loop of `redisReaderGetReply()`: read the type, process an item by kind, move to the next task, discard consumed bytes, return. The reply the code builds in place is collected in the stack's entries. `MaxDepth` stands for the eight levels the code allows and `DiscardAt` for its 1024 bytes.

The end of the module says which messages are of the protocol (`Grammatical`), independently of the parser and without recursion: a message carries, for each place where an item starts, the item's level, value, end and the places of its elements (`items`), and each entry must agree with the bytes at its place (`LineItem`, `BulkItem`, `EmptyItem`) and with the entries of its elements (`ArrayItem`). A bad item starts with an unknown byte, is an array too deep, or is an array whose last entry is bad (`BadItem`).

### HiredisConnect

The process's descriptor table is part of the state: `socket(2)` hands out the lowest free number, and other code opens and closes descriptors between any two system calls of a connect. A connect is a small program (`at`): resolve, socket, set-up, `connect(2)`, wait, finish. Every system call may fail at every point where the code checks it; each error path is an action of its own, because they differ in whether the socket is closed, whether `c->err` is set and what is saved for `redisReconnect()`. `opened` and `abandoned` are history: whether the current connect has set `c->fd`, and which sockets an `EADDRNOTAVAIL` retry left behind.

### RedisClient

The threads of YCSB-C share one context. A call of the database appends its commands to the output buffer and goes through `redisGetReply()` step by step: reader, write until the buffer is empty, read, reader. Commands and replies are two bytes long, so each can be cut in half. The model lets a second thread enter while the first is inside; that is a data race on the buffers, its outcome is undefined and the behaviour ends there. So the properties speak of what happens short of a race, which includes all hand-overs from one call, and one thread, to the next. The process ends as the code ends it: `exit(1)`, `exit(2)`, a failed assert, `SIGPIPE`.

### HiredisFormat

One step is one turn of the loop over the format; conversions are parsed as the code does, flag by flag. Values are lengths. Each allocation may fail. The reference (`Items`, `Meaning`, `Written`) cuts a format into spaces, characters and conversions by what a conversion is, not by scanning, and counts the bytes that are printed.

## Runs

Runs that pass:

| Run | Instance | What it shows |
|---|---|---|
| `ltram` | 2 processes, 2 pages, 1 LtRAM and 2 DRAM frames, counters modulo 3 | no store is lost and no stale PTE survives a migration (`LastStoreVisible`); concurrent faults never move one folio twice (`OneMigrationPerFolio`); counters match what happened (`CountersAgree`); an LtRAM frame in use never changes (`LtramNeverWritten`); the handler never moves a DRAM page (`DramPagesStay`) |
| `ltram_live` | 2 processes, 1 page | every store completes in spite of the endless retry (`StoresComplete`) |
| `smoketest` | 2 + 2 frames, all 64 combinations of defects | a frame has one owner; failed tests leak at most one folio each; what ALL TESTS PASSED lets one conclude (`VerdictSound`: where the folios of tests 1, 2, 4 and 5 were, that the folio of test 3 was usable, that test 6 got LtRAM, and nothing about a defect that did not show); on a sound machine a test fails only for want of memory (`NoFalseAlarm`) |
| `hashdb` | 2 threads, 2 keys, 2 fields, three workloads | no use after free and no dangling pointer (`MemorySafe`), no value or table lost and keys lost only by `Insert` and `Delete` (`NothingLeaked`), and the refinement of `RecordStore` |
| `ycsb` | 2 threads, 4 records, 4 operations, three distributions, all operations | keys to insert are never handed out twice; transactions name loaded records only; printed figures are true; the benchmark ends |
| `async` | 3 commands of any kind, 1 topic, 1 pushed message or line, the libuv adapter | pipelining keeps callbacks and replies in step; regular callbacks run exactly once; asserts, disconnect reports, subscribers' last message |
| `async_live` | 3 regular commands, with or without callback, four adapters | every callback runs and every requested disconnect ends, whatever the adapter, unless libuv's adapter dropped an error |
| `reader` | 2 replies out of 14 shapes | what comes out is what was sent, as soon as it is complete; errors only on bad input; the stack is the path to the item being read (`TypeOK`) |
| `connect` | 4 descriptors, 2 addresses, 3 retries, 2 connects of any form | the outcome reported is the true one (`OutcomeTrue`); no descriptor is lost or closed under its new owner, with the exceptions named below (`DescriptorsAccounted`); every connect returns (`ConnectReturns`) |
| `redis` | 3 calls of 2 threads, with and without WAIT | a call reads the replies to its own commands (`OwnReply`); a write that returned kOK was answered, and so was its WAIT (`UpdatesAnswered`); no call waits for ever (`CallsReturn`) |
| `format` | every format of up to 4 of 12 characters and 7 longer ones, values of 4 lengths | the arguments are what the format means and the length is exact (`CommandRight`); whatever allocation fails, every string is freed (`NothingLeaked`) |

The type invariants of `Ltram`, `LtramSmoketest`, `HashtableDB`, `YcsbDriver`, `HiredisAsync`, `HiredisConnect` and `RedisClient` are not part of a run; they are theorems (below).

The run in which TLC refutes what the repository says of the code (the finding):

| Run | Claim | What happens |
|---|---|---|
| `ltram_wrong_zone` | the comment at the zone check: such a fault means the mapping was set up wrong | a page already repatriated for one process faults outside `ZONE_LTRAM` for the next |

### Other disagreements met while modelling

Each of these follows from the same models; the definition named is in the module, with the constants that show it.

- `MemFreeRestored` (`LtramSmoketest`, `AllDefects = {"bad_cells"}`, five LtRAM frames): the README says that node 1's `MemFree` is back after `rmmod`; a test that fails in `EXPECT` keeps its folio.
- `Test6CatchesLostPages` (same, `{"loses_freed"}`): test 6 passes on a kernel that loses every freed LtRAM page, as long as another one is free.
- `LtramSmoketest`, test 3: its comment says that it "Confirms the LtRAM page is actually backed by usable memory" (`ltram_smoketest.c:117`), but the test never looks at the zone. On a kernel that falls back to DRAM all tests pass with LtRAM that is unmapped or does not keep its contents; `VerdictSound` therefore concludes that LtRAM is usable only where the kernel never falls back.
- `LatestTracksInserts` (`YcsbDriver`, `Distributions = {"latest"}`): the latest chooser reads `insert_key_sequence_`, which inserts do not advance, so new records are never read.
- `ReadsOneField` (`YcsbDriver`, `ReadAllFields = FALSE`): the field asked for has the prefix `field` twice and is never found.
- `ImplementsRecordStore` (`HashtableDB`) fails for a workload in which two threads update the same missing key: both create a table, one of them is lost, and both calls return kOK.
- `StlHashtable::Insert()` copies the key (`stl_hashtable.h:63`) before it looks, and nobody frees the copy of a refused insert; nor does `DeleteFieldHashtable()` (`lock_stl_db.h:38-44`) free the copies of the fields' names: it deletes the values and the table. `NothingLeaked` says which calls do this and that no other does.
- `HashtableDB` with `Delete` on a record another thread uses frees a table in use. The driver never calls `Delete`, so no run includes this.
- `ResultsAreValues` (`HashtableDB`, `Workloads <- ReadUpdate`): `core/db.h:35` says that results hold the field/value pairs read; a read copies a string that another thread's update has freed.
- `TransactionKeysInserted` (`YcsbDriver`, `RecordCount = 3`): `recordcount / threads` drops the remainder (`ycsbc.cc:62`), so transactions name records that were never loaded, which the comment at `core_workload.cc:146` rules out.
- `AssertsHold` (`HiredisAsync`, the constants of `async`): SUBSCRIBE, UNSUBSCRIBE and one more command in flight make the assert at `async.c:463` fail, against the comment above it. The mode a command is queued for is the client's, the mode it is executed in is the server's, and the two differ while an UNSUBSCRIBE is in flight. An application that waits for its reply never meets this (`AssertsHoldIfWaited`, proved).
- `HiredisAsync`, adapters: with libuv and GLib the second handler of one call uses a context that the first has freed (`libuv.h:27`, `glib.h:100`). With libuv, callbacks never run after an error that the adapter drops (`libuv.h:19`); without `\/ loop.stopped` both liveness properties fail.
- `HiredisConnect`: after a failed connect with `REDIS_REUSEADDR`, `c->err` may be zero (`net.c:372`), although the comment at `hiredis.c:671` tells callers to look there; `OutcomeTrue` therefore excludes such contexts. A reconnect that fails before `socket(2)` keeps the number of the descriptor it closed, and `redisFree()` closes it again, whoever has it by then; without `opened`, `OwnsItsDescriptor` fails. A descriptor 0 is never closed. The retry after `EADDRNOTAVAIL` leaks the socket it replaces. `hiredis.h:79` calls `REDIS_CONNECT_RETRIES` the number of times a connect is retried; `net.c:371` counts the failure before it compares, so there are that many attempts and one retry fewer (`TypeOK` has the limit of the code). `redisConnectFd()` sets `REDIS_BLOCK` without looking at the socket (`hiredis.c:771`), so a non-blocking one makes a context that says it blocks; `OutcomeTrue` promises of such a context only that it holds its descriptor (`ret = "given"`). A Unix context whose `socket(2)` failed is reconnected over TCP, as its type is still the zero of `calloc()`; for the same reason the branch "Not enough information to reconnect" cannot be reached.
- `RedisClient`: `RedisDB::Read()` returns kOK when the connection is lost (`redis_db.cc:30`), where `core/db.h` has an error code. `Command()` ignores error replies, so a refused update counts as done. Command texts are used as formats, and the random field values contain `%`. `Command()` frees a reply pointer that was never set when `redisGetReply()` fails.
- `HiredisFormat`: a format that ends inside a conversion (`"%5"`) makes the loop step past its NUL (`hiredis.c:301`). A conversion with no room in `_format` is taken as text after its value has been consumed. `redisFormatSdsCommandArgv()` loses its empty string when it cannot be enlarged. `CommandRight` and `NothingLeaked` name these cases.
- `HiredisAsync`: in subscribed mode the error reply to a regular command closes the connection instead of reaching its callback (`async.c:455`). With two topics, a pub/sub reply without a callback runs the callback of the reply before it (`async.c:389`). In monitor mode a line may go to another command's callback (`async.c:429`). A disconnect outside a callback does not wait for unwritten pub/sub commands (`async.c:360`). A callback that frees the context during an error makes `onDisconnect` report `REDIS_OK` (`async.c:308`). A command issued while an UNSUBSCRIBE is in flight may be answered to another command's callback. This is why `PipelineInOrder`, `CalledOnce` and `CleanDisconnect` speak of regular commands, why `RepliesMatch` leaves monitor mode out, and why it and `SubscribersToldTheEnd` speak of applications that wait for the reply to an UNSUBSCRIBE (`Waited`) and, the former, unsubscribe only from topics that have a callback (`Known`). `SubscribersToldTheEnd` also leaves out a subscriber whose callback a later SUBSCRIBE to its topic replaced (`Replaced`), which is told nothing, and, once MONITOR was used, an unsubscribed one (`Unsubscribed`): `async.c:429` pushes the callback that ran last among the regular ones again, this may be the subscriber's, and it is then run with a line of output after its unsubscribe message.

## Bounds

- `Ltram`: two processes are enough for every race on one page (both before the zone check, one migrating while the other holds a reference). One LtRAM frame for two pages makes routing fall back to DRAM, and DRAM runs out while references are held. `CounterMod` is small so that counters wrap. The proofs cover all sizes, except for liveness.
- `LtramSmoketest`: two frames per zone let one allocation succeed and the next fail; `bulk_count` reaches one past exhaustion only with a frame taken by the other user.
- `HashtableDB`: two threads, two keys and two fields give conflicts on the key, on the field and across fields; the heap has a table for each key and, for each thread, one string more than the database can hold, so cells are reused at once. A scan is bounded by `ScanLen`.
- `YcsbDriver`: counts divisible by the number of threads, as `TransactionKeysInserted` fails otherwise (above). `NewKeys` makes the zipfian range larger than the records, so that keys are rejected. The zipfian and latest choosers need at least two and three items, as the code asserts.
- `HiredisAsync`: `MaxCommands`, `MaxPushes` and `MaxQueue` (which bounds the list that monitor mode lengthens with every empty read). With three commands one is outstanding on each side of a disconnect. The safety properties also hold with four commands and two topics (789,347 states, regular and pub/sub commands only, an unbroken connection), with three commands, two topics and a push on a connection that may break (1,495,997) and with four commands, MONITOR included, one topic and a push (12.98 million). Without libuv's double reports all properties of `async` also hold with NULL callbacks allowed there (19 million states). `async` uses libuv because its steps include those of ae; `async_live` adds one-shot events, GLib's order and ivykis, which polls for reads before anything is written.
- `HiredisReader`: two replies, so that the end of one and the start of the next share a piece; arrays down to one level past the limit. It also passes with three replies (3.5 million states).
- `HiredisConnect`: two addresses and three retries, so that the address loop goes on, ends, and mixes with retries; four descriptors, so that the abandoned ones of a connect use up the table; `MaxConnects = 2` gives one reconnect after every outcome of a connect.
- `RedisClient`: two threads hand the context over, three calls let an error of the first show in the third; a third thread adds no case while only one may be inside.
- `HiredisFormat`: `Alphabet` has one character of each class the code distinguishes. `FormatRoom` is 9 in place of 14, so that over-long conversions fit the bound. Lengths 0, 9, 1000 and 10000 sit at the boundaries of `countDigits()`.

`CHECK_DEADLOCK FALSE` is used where the system ends: after `rmmod`, after the report of the benchmark, once a context is freed, when the bound on connects or calls is reached, and when a command is formatted. Symmetry is used only in runs without liveness, over sets whose members the model never tells apart.

## Fairness

- `Ltram`: weak for each process inside a store or the handler, since a CPU keeps executing. Strong for isolating, for moving and for the retried store: returning `VM_FAULT_RETRY` on any error relies on neither failing for ever and on writeback not winning every race. Programs need not go on. With several pages and DRAM full of pages that nobody drops, `Move` is never enabled and a store is retried for ever; that is what the code does, and `ltram_live` therefore has DRAM for its page.
- `YcsbDriver`: weak for each thread and for `main()`; strong for drawing a key inside the records, because draws are random with positive probability.
- `HiredisAsync`: weak for what the client's thread does next and for the server; strong for event handlers, for reads that complete a reply and for writes that write a command, as an event loop serves every ready descriptor and a socket does not stay stuck. The application is never forced to act, and the connection need not break.
- `HiredisConnect`: weak for the thread inside a connect. Every system call returns; a `poll()` without timeout relies on the kernel giving up on its own.
- `RedisClient`: weak for each thread inside a call and for the server. The server need not close the connection, and no thread need make another call. For the server to answer includes the answer to WAIT, which `redis_client.h:56` sends with timeout 0: the replicas it waits for are assumed to acknowledge. With fewer replicas than asked for a real server never answers it, and `CallsReturn` says nothing of that.

## What is proved

Each theorem holds for every value of the constants that meets the assumptions of its module, so for any number of processes, threads, pages, frames, keys, commands, topics, addresses and retries; the runs check the same definitions on small instances. Every inductive invariant was checked with TLC on such an instance before it was proved. The proofs have one lemma per action or group of actions, and the last step of each theorem combines them.

| Module | Theorem | States | Hypotheses besides the module's |
|---|---|---|---|
| `LtramProofs` | `TypeCorrect` | `Spec => []TypeOK` | |
| | `LastStoreAlwaysVisible` | `Spec => []LastStoreVisible` | |
| | `MigrationIsExclusive` | `Spec => []OneMigrationPerFolio` | |
| | `NoStoreReachesLtram` | `Spec => LtramNeverWritten` | |
| | `OnlyLtramPagesMove` | `Spec => DramPagesStay` | |
| | `CountersAlwaysAgree` | `Spec => []CountersAgree` | |
| `LtramSmoketestProofs` | `TypeCorrect` | `Spec => []TypeOK` | |
| | `FramesHaveOneOwner` | `Spec => []OneOwner` | |
| | `LeakIsBounded` | `Spec => []LeakBoundedByFails` | |
| | `VerdictIsSound` | `Spec => []VerdictSound` | |
| | `NoAlarmIsFalse` | `Spec => []NoFalseAlarm` | |
| `HashtableDBProofs` | `TypeCorrect` | `Spec => []TypeOK` | |
| | `MemoryIsSafe` | `Spec => []MemorySafe` | all workloads are `Separate` |
| | `NothingIsLeaked` | `Spec => []NothingLeaked` | all workloads are `Separate` and `Undisputed` |
| | `RecordStoreImplemented` | `Spec => ImplementsRecordStore` | all workloads are `Separate` and `Undisputed` |
| `YcsbDriverProofs` | `TypeCorrect` | `Spec => []TypeOK` | |
| | `KeysAreUnique` | `Spec => []SequenceKeysUnique` | records divide among threads |
| | `TransactionsFindTheirKeys` | `Spec => []TransactionKeysInserted` | records divide, keys start at 0 |
| | `FiguresAreTrue` | `Spec => []FiguresTrue` | records and operations divide, keys start at 0 |
| `HiredisAsyncProofs` | `TypeCorrect` | `Spec => []TypeOK` | |
| | `DisconnectIsReported` | `Spec => []DisconnectReported` | |
| | `AssertsNeverFail` | `Spec => []AssertsHoldIfWaited` | |
| | `RepliesInOrder` | `Spec => []PipelineInOrder` | |
| | `CallbacksRunOnce` | `Spec => []CalledOnce` | |
| | `DisconnectsCleanly` | `Spec => []CleanDisconnect` | |
| | `RepliesAreForTheirCallbacks` | `Spec => []RepliesMatch` | |
| | `SubscribersAreTold` | `Spec => []SubscribersToldTheEnd` | |
| `HiredisReaderProofs` | `TypeCorrect` | `Spec => []TypeOK` | |
| | `RepliesComeAsSent` | `Spec => []RepliesAsSent` | all messages are `Grammatical` |
| | `NothingIsHeldBack` | `Spec => []NothingHeldBack` | all messages are `Grammatical` |
| | `OnlyBadRepliesFail` | `Spec => []FailsOnlyOnBadReply` | all messages are `Grammatical` |
| `HiredisConnectProofs` | `TypeCorrect` | `Spec => []TypeOK` | |
| | `OutcomeIsTrue` | `Spec => []OutcomeTrue` | |
| | `DescriptorsAlwaysAccounted` | `Spec => []DescriptorsAccounted` | |
| `RedisClientProofs` | `TypeCorrect` | `Spec => []TypeOK` | |
| | `RepliesAreOwn` | `Spec => []OwnReply` | |
| | `UpdatesAreAnswered` | `Spec => []UpdatesAnswered` | |

### Assumptions

- `Ltram`: the two sets of frames are disjoint, `None` is not a frame, page or process, `Zero` is not a process, the counter modulus is above 1. `LtramSmoketest`: the same of its frames, and `bulk_count` is an integer.
- `HashtableDB`: `BuildValues()` names every field, once (`FieldsAssumption`); `NULL` is no thread, cell, key, operation or call (`NULLIsNothing`). `Separate`: no thread deletes a record that another one uses, nor updates one that another one reads. `Undisputed`: a record is loaded by one thread, and two threads write the same record only if it was loaded. Both say what the tables' locks do not protect; without them the properties are false (see the disagreements above). `MCHashtableDB` asserts that the run's workloads meet them (`WorkloadsApart`).
- `YcsbDriver`: there is at least one record, because with none the unsigned `Last()` (`counter_generator.h:23`) and `record_count_ - 1` (`core_workload.cc:140`) wrap around to 2^64 - 1 and every key is taken; the hash is injective on the key numbers in use; the choosers have the items their asserts ask for. The three hypotheses about counts are needed: a remainder of `recordcount / threads` is not loaded, and an update then creates a record that an insert may meet; with another start than 0 the choosers name records below it.
- `HiredisAsync`: the kinds of command and the adapters are those of the model. What the properties leave out is in their statements (`RegularOnly`, `Waited`, `Known`, `Replaced`, and `Unsubscribed` together with MONITOR).
- `HiredisReader`: `TypeCorrect` needs nothing but that the wire is made of bytes, so it covers ill-formed input of every kind. The other three need messages of the protocol (`Grammatical`), or malformed in the two ways that `read.c` detects: it takes a line with a byte that is no digit for -1 and one without digits for 0, and it does not look at the two bytes after a string, so other malformed messages come out as replies and the properties have nothing to say of them. `MCHiredisReader` asserts that the run's messages are `Grammatical` and that exactly its well-formed ones are `ok` (`MessagesGrammatical`).
- `HiredisConnect`, `RedisClient`: the bounds are natural numbers.

### The arguments

- `Ltram`. `IInv` adds three facts to the type invariant, `LastStoreVisible` and `OneMigrationPerFolio`. `OneFramePerPage`: no two pages share a frame, without which a store to one page would change another. `NoWritableLtram`: a writable PTE points into DRAM. `FaultFrame`: the frame a process captured when it faulted is still the frame of the page it stores to, or of no page, because a referenced frame is not reused; this makes the stale `vmf->page` harmless. The action properties follow from `IInv` and one step. `CountersInv` adds to `CountersAgree` that only finitely many processes are in the handler; the rest is arithmetic modulo the width of the counter.
- `LtramSmoketest`. A leaked folio is one held that is neither in the local variable nor in the tracking array (`Leaked`), and each failed test adds at most one (`LeakInv`). `Tracking` ties the array of test 2 to what the test has seen; `SeenInv` and `Explained` say what a run without failures has seen, and why a sound machine can fail a test. `Written` says what such a run knows of the folios it wrote to, and `NoFallback` that a kernel without fallback serves LtRAM requests from LtRAM; together they carry the result of test 3 over to LtRAM.
- `HashtableDB`. `TInv` gives the locals of each operation at each place. `SInv`: what a thread has in its hands between two locks is allocated, a table in the key table is in the hands of calls with that key only, and no two threads hold a string that is to be freed or a table that is to be destroyed. `LInv`: a loaded record is complete, a thread about to insert a field finds it missing, and each cell is in a table or in one thread's hands. The inserts whose results the code ignores therefore never fail, and lose no copy of a key either (`LosesByCall`). For the refinement, `RInv` says that only an insert that was refused has a string in its hands: it is over for its client, and `AInv` adds that a string in use holds what a thread wrote, that the fields a writing call has stored and those it has still to deal with make up its list, and that a string about to be inserted is its thread's own. Then each step of a thread is one step of `RecordStore` (`AttachSim` creates the record, `Wrote` writes the field, `RemoveSim` removes the record) or changes nothing in its state: the deletions of strings and tables touch no record.
- `YcsbDriver`. `Enough` counts the keys handed out and those still to be drawn, the latter as the cardinality of a set of pairs; their sum never exceeds what the phases may insert. `Keys`: numbers below the counter are in the database or in the hands of exactly one client, those above in neither, and after the load phase no record is missing. `Tally`: operations done, under way and left make up each client's share, and `main()` has added up the shares of those it joined.
- `HiredisAsync`. A reply has no identifier, so the invariant is about everything between the two ends: `Incoming`, the replies read or on their way, and `Outgoing`, the commands on their way or not written. `FlowInv` says that, as long as an UNSUBSCRIBE is waited for and there is no MONITOR, the queue of callbacks matches the regular replies and commands in order (`RegularFirst`, `OnlyRegular`), pub/sub ones come after the regular ones that were issued before them (`ThenPubSub`), and the modes of client and server agree up to what is in flight (`SubscribedMode`, `UnsubscribeTrue`). Relative to it, `Once` (a callback is pending or has been called, never both), `Clean`, `Matched` and `Informed` are inductive.
- `HiredisReader`. `Stack`: the tasks nest, each with a place left in its parent, and there are at most `MaxDepth + 1`; an item that is still to be read has no elements. This shows that the check of `processMultiBulkItem()` comes in time for the push after it, whatever the nesting. For the replies, `PInv` says where in the messages the parser is. `Layout`: there is an offset for each message such that the bytes in the buffer past the cursor, followed by those still on the wire, are the bytes of the messages from there on; `Feed` and the discarding of consumed bytes leave the offsets alone, reading shifts them. `Parse`: the parser is before a message, after one whose value is in `r->reply`, or within one, and then the stack is a path of items of that message (`Path`): each entry below the top is an array whose finished elements have the values the protocol gives them, and the cursor is at the start of the item at the top, after its type byte, or after all of it. With the bytes of an item known, the first CR LF that `seekNewline()` finds in the buffer is the item's own (`LineSeen`), although a string may contain others, because the parser never looks for one from inside a string; and when all bytes have been fed no item is incomplete (`Ready`). Values are compared one level at a time, which is why no induction over replies is needed.
- `HiredisConnect`. `InsideConnect`: before `socket(2)` the number in `c->fd` is not the context's, after it the number is its own; an address and a retry are left at each system call.
- `RedisClient`. Short of a race one thread is inside the context (`OneInside`). The bytes in the reader, those on their way back, those on their way out and those in the output buffer are, in this order, what is left of the commands of its call (`Pipeline`), and the buffers are empty when nobody is inside (`Drained`). After an error nothing is read any more, so a broken connection never leaves a reply to a later call.

### Only model-checked

- Liveness (`StoresComplete`, `Terminates`, `EveryCallbackRuns`, `DisconnectCompletes`, `ConnectReturns`, `CallsReturn`): the prover has no rules for fairness and `ENABLED`.
- `CommandRight` of `HiredisFormat`: it compares what the code does with an encoding defined by recursion over the format, and proving that needs induction over data, which the prover cannot do.
- `NothingLeaked` of `HiredisFormat`: not proved; a formatter is one sequential call, and the run covers every format and every failing allocation up to its bounds.

## Not modelled, and why

- The kernel and buildroot: submodules whose code is not in the repository. What `ltram.c` and `ltram_smoketest.c` call is modelled from those calls and their comments.
- `dict.c` and `sds.c`: sequential container libraries; the models take dictionaries as functions and strings as sequences.
- The TBB tables: `HashtableDB` over another library whose calls are atomic too.
- `BasicDB`, the factory, properties, timers: no shared state.
- Probabilities, field contents, log texts and plots: no property is about them.
- The macOS adapter, and attach functions that fail. hiredis's examples and tests are callers of the library.
- The LRW and migration designs in `docs/`: not implemented, apart from the path that `Ltram` models.
- Out of memory in hiredis, except while a command is formatted; UNSUBSCRIBE without arguments; `connect()` reported as in progress more than once.

## Plan

1. Models, done: `Ltram`, `LtramSmoketest`, `HashtableDB` with `RecordStore`, `YcsbDriver`, `HiredisAsync` with the adapters, `HiredisReader`, `HiredisConnect`, `RedisClient`, `HiredisFormat`.
2. Proofs, done: the safety invariants, the action properties and the refinement listed above. Every safety property of a run is proved but the two of `HiredisFormat`.
3. If there is room for more models: `dict.c` against a function, with growth and iteration; the stress workload's order of phases over `Ltram`; the start and stop of the guest's logger.
