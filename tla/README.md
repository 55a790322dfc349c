# A TLA+ verification of WittonBell/demo

The repository is a collection of small systems, each in its own directory, most of them in C.
Few of them share code. This project models the ones that have state worth arguing about:
a stackful coroutine library, an open-addressing hash table, exceptions for C, three servers built on
Windows I/O completion ports, a client and a server on gRPC's completion queue, a session server on C++ coroutines, a
remote-procedure-call library with its server, and a library of big integers. It checks the models with TLC on
small instances and proves the most important invariants with TLAPS for instances of any size.

`PROJECT.json` is the machine-readable index: every modelled definition with its source lines, every
run, every property with a mutant of the code that breaks it, the findings, the hazards and the theorems.

## 1. Inventory

### Modelled

| component | source | state | operations | what makes it hard |
|---|---|---|---|---|
| coroutine library | `cmake/coroutine/src/co.c`, `ctx.c`, `swap_ctx_x64.asm` | thread-local environment: array of coroutine objects, `cap`, `nco`, `running_id`; ONE stack shared by all coroutines; per object a status, a context and a private copy of the stack | `co_open`, `co_close`, `co_new`, `co_resume`, `co_swap`, `co_join`, `co_wait`, and `_co_main`, in which a coroutine ends | every coroutine overwrites the stack the others were suspended on; slots are freed and reused while loops walk over them; coroutines create coroutines while the array is being waited on; any allocation may fail |
| SwissMap | `cmake/swissmap/swissmap.h` | control bytes with a sentinel and a copy of the first group, slots, `m_num`, `m_growthInfo` | `operator[]`, `insert`, `erase`, `find`, `rehash` | groups that wrap around; deletion marks; an insertion that rehashes in the middle; unsigned counters |
| try/catch for C | `cmake/c_try_catch/ctry` | a global array of jump buffers and its depth; the signal mask | `TRY`, `CATCH`, `EXCEPT`, `THROW`, the handler of SIGSEGV and SIGFPE | C lets a program leave a block in ways the macros do not see; a jump may lead into a function that has returned; faults arrive as signals |
| IOCP echo server, accept | `cmake/iocp/server.c` | `IoData` objects, sockets, the completion port, `IsExit` | accept loop of main, `WorkerThread`, `PostRead`, `PostWrite`, `CloseConn`, `OnSignal` | several threads, completions in any order, handle values that are reused, failing calls that free what the caller still names |
| IOCP echo server, AcceptEx | `cmake/iocp/server_ex.c` | the same, plus `curAcceptSock` | the same with AcceptEx, and a signal handler that closes a socket | the handler runs beside everything else and goes by a global that every `CloseConn` resets |
| IOCP echo server in Go | `go/iocp/main.go` | `IOData` objects under a garbage collector | `workThread`, `postRead`, `postWrite`, `closeIO`, main | the kernel's references are invisible to the collector |
| gRPC C example | `xmake/grpc-c` | the server's tags, the calls they hold, the completion queue; on the client what the stages have created and received | `request_new_call`, `handle_new_call`, main's event loop, shutdown and drain; the client's stages, its time-out and its ten early returns | the library completes operations in any order and late; shutdown meets batches in flight; every early return releases by hand |
| asio session | `cmake/asio/net` | sessions kept alive by two coroutines, a timer between them, descriptors | `initNet`, the listener, `reader`, `writer`, `stop`, the signal | the writer is woken only by `stop`; sessions are released by reference counts; descriptors run out |
| RPC library | `cmake/rpc_c` | the client's serial number, request buffer and result; the server's table of handlers, the connection it handles and its answer, `is_running`; the TCP connections | `rpc_call`, `rpc_get_rsp`, `rpc_rsp_release`; `rpc_server_register`, `rpc_server_run`, `handle_client`, `on_sig`; the handlers `sum`, `concat`, `login` | words arrive in pieces, late or never; either end may close or die between any two of the eight writes; one stalled client holds up all the others; the result is not initialised |
| big integers | `cmake/bigint/src` | signed integers over vectors of 64-bit words | `BigIntAdd`, `BigIntSub`, `BigIntMul`, `BigIntDiv`, `BigInt2Text`, and under them the arithmetic on words and vectors | several algorithms for one operation, chosen by thresholds no test reaches; karatsuba in one workspace; estimated quotient words; carries at word boundaries; uninitialised and freed memory in division |

The three IOCP servers share the model of Windows in `IocpPort` and differ in how they accept, how they
stop and who frees an `IoData`.

### Left out

The wrappers of C11 threads for MinGW, the IOCP client (it is the servers' environment), the io_uring example, object-oriented C, the package
reader, the googletest example, C++20 modules, the cgo example, the gRPC examples in Go and C++, the mupdf
tools, the MCP example, the calendar program, the protobuf declarations and the build demonstrations are
sequential, keep no state between calls, or consist of build files. `PROJECT.json` gives the reason for each.

What makes each of them correct is what its properties say; section 4 has them, run by run.

## 2. Plan

Done, in this order: `Coroutine` with its abstract specification `CoPrivate` and its proofs; `SwissMap`
with `AbstractMap`; `IocpPort`, `IocpServer` with its proofs, `IocpServerEx`, `IocpGo`; `Rpc` with `RpcWire` and its abstract
specification `RpcCall`; `Words`, `Nats`, `NatText` and `BigInt`; `GrpcCore`, `GrpcServer` and `GrpcClient`, composed in
`Grpc`; `CTry`; `AsioSession`; the recursive division in `Nats`.

Then the proofs: `CoroutineProofs`, `IocpServerProofs`, `IocpPortProofs` with `IocpServerExProofs`, `CTryAsioGoProofs`, `GrpcProofs`, `RpcProofs` and
`SwissMapProofs`, among them the three refinements.

Nothing of the plan is left. What could be added: `base.c` without `Bitwise` and without recursion, so that its products and sums can be proved for every width of a word.

## 3. The modules

### Coroutine

The model is the default build (no `USE_NATIVE_CO`, assertions on) and one thread, since the environment
is thread-local. The thread is either in its main function (`running = -1`) or in one coroutine.

* Variables are named after the fields (`cap`, `nco`, `running`, `slot`, `status`, `size`). `bcap` and `buf` are a
  coroutine's `cap` and `stack`; `stack` and `depth` are the shared stack and the stack pointer. `past` is the word
  in memory right behind the array: `co_new` can read and write it. `env` can be `"dangling"`, because `co_open`
  frees the environment on failure without resetting the pointer. `abort` records how the process died.
* A stack cell stands for a frame or a local. `_co_main` keeps its own `co` in cell 1, and `Finish` reads it from
  there: a stack that was restored wrongly makes the wrong coroutine finish, as in the code.
* `CoOpen`, `CoOpenFails`, `CoClose*`, `CoNew`, `CoNewDies`, `CoResume`, `CoResumeDies`, `CoJoin`/`JoinStep`,
  `CoWait`/`WaitStep`/`WaitAgain`, `CoSwap` and `Finish` are the library's functions. `Resume` is the switch of
  `co_resume`, one disjunct per branch, and is shared by the three callers. `Push` and `Pop` are the
  coroutine's own calls and returns.
* What the program does between calls is unconstrained, except that the main function alone calls
  `co_open`, `co_close`, `co_join` and `co_wait` (a coroutine that calls `co_resume` dies in its assertion, which is modelled).

`CoPrivate` is what the library promises: every coroutine has a stack nobody else touches, and one runs
at a time. `PrivateSpec` maps a running coroutine's frames to the shared stack and a suspended one's to its buffer.

### SwissMap

The control bytes are a function on `0..cap+kWidth-1`: slots, sentinel, copies. `kWidth`, 16 in the code, is a
constant. The hash is two constant functions, `H1` and `H2`, and `HashXor` with `Addr` is the salt taken from the
address of `m_ctrl`, which changes with every rehash. `cap` is of the form 2^k - 1, so `& m_cap` is the remainder modulo
`cap + 1`. Calls are atomic, except that `rehash` is one step per slot, so that its intermediate states are visible to
the invariants. `Diverges` is the infinite loop of `findIndex`: no group holds the key or an empty byte.
`pc = "hung"` is a call that never returns, `"nested"` a rehash inside a rehash. `AbstractMap` is a map with the result of the
last call; `MapSpec` says the table implements it.

### CTry

The build for Linux, under every program that enters and leaves blocks, calls and returns, throws and faults. `depth`, `buf` and `mask` are
what the library and the kernel keep. `open` and `active`, the blocks and functions being executed, are what the compiler's
stack knows and the library does not; the properties compare the two. `Raise` is the end of `THROW` and of the signal handler: it takes
the depth back and jumps through the element it finds there, which restores the mask. `BreakOut` leaves a block by `break` or
`goto`, `ReturnFunction` by `return`; neither touches the depth. `fate` says how the behaviour became undefined, and nothing happens afterwards.

### IocpPort, IocpServer, IocpServerEx, IocpGo

`IocpPort` is external: it is Windows as the servers use it. A handle value is free again as soon as its socket is
closed; outstanding operations are cancelled then and complete later; an operation that was accepted yields one packet,
if its socket was bound to the port; packets are first in, first out. Numbers of bytes are zero or one.

A worker's `Get` and `Handle` are separate steps, so that any number of threads may be between the return of
`GetQueuedCompletionStatus` and what they do with the packet. `CloseConn` is one step: of its calls, other
threads see only `closesocket` and, in `server_ex.c`, the reset of `curAcceptSock`, and splitting the two leads to the
same outcomes. Every call that can fail has its failing alternative. The process ends when main returns, and its threads with it.

In `server_ex.c` the signal handler is a thread of its own with two steps, the test of `curAcceptSock` and the close. The
model shows two consequences that the properties state precisely. The handler can close an established connection,
because `curAcceptSock` still names it; from then on an `IoData` may be lost and a handle have two owners, and `HandleOwned` is
conditional on it. `Owned`, that nothing is freed twice or used after it was freed, holds even then. And a signal that comes after some worker's `CloseConn` has reset the global finds nothing and is lost,
so `AbortedAcceptExits` promises an exit only when AcceptEx was really aborted.

`WaitFails` frees an `IoData` whose AcceptEx may be outstanding (`server_ex.c:245-249`). AcceptEx reports to an event and not to the port, so it is not among `pend`, and
`Owned` does not speak of it; the defect is listed in section 6.

`IocpGo` adds Go's collector, which spares what a goroutine works on and nothing else. A comment in the code intends a printed pointer
to keep an `IOData` alive while its operation is outstanding; it does not, so `Collect` may take one that is in flight, and `astray` remembers that it did. The program goes on: the memory
gets other contents (`Reuse`) or becomes a new `IOData` (`OpenSocket`), a worker gets the old address with a packet and works on whatever is there, and the runtime may stop the program (`Crash`). `Intact`
is what the comment claims, and a run refutes it; `Owned` is conditional on `~astray`.

### GrpcCore, GrpcServer, GrpcClient, Grpc

`GrpcCore` is external: how far each call has come between its client and the server. `GrpcServer` is `server.c`, with the library's side of its queue
(`MatchCall`, `FailRequest`, `BatchDone`, `ShutdownDone`); `GrpcClient` is `client.c`, with the reception of its batch. `Grpc` runs
one server and several clients.

* A tag has an address; `type` and `call` are its fields, `"free"` if nothing is allocated there. The library knows tags by address
  (`posted`, `queue`), as in C, so a tag freed too early would be used under its next owner. `HandleNewCall` is the function together with the
  `request_new_call` that follows it: the finish tag is allocated before the request's tag is freed, and a failed batch releases its call there.
* `Drain` takes what comes before GRPC_QUEUE_SHUTDOWN without looking at it, as the code does.
* `has` is what a client would have to release: what it created, and what the library has hung into its variables. `ReleasedAt` has the
  releases of the early returns, in the order of the stages. `ReturnTimedOut` is the path after a wait that timed out.
* Of a response and a status only their presence and their being good are kept. An OK status may come without a message: `Usable` has the three tests before the
  response is read, the comparison with NULL among them, and `read` records what was then unpacked, the message or a null pointer. `UnpackFails` is a response that the reader or the decoder refuses.

### AsioSession

A step takes one coroutine from one `co_await` to the next; `io_context::run` has one thread, so nothing finer is visible. A session exists as long as one of its
coroutines does; `sockets` are the connections whose socket is open. `Accept` starts both coroutines, `Stop` closes the socket and cancels the timer, which wakes
a writer that waits and is without effect on one that does not yet. A peer that leaves before it is accepted stays in the backlog (`Queued`) and is accepted like any other. `AcceptFails` is an accept that throws: the exception ends the
listener, which is detached. A message is a length and a body; a body of less than two bytes gives the parser a negative length.

### RpcWire, RpcCall, Rpc

The build for Linux. `RpcWire` has the messages and what the handlers answer. Of an argument only the type is kept, since the
handlers decide by types; of an answer, how it is laid out, because the client reads every answer as if it were of the one layout
`RPC_MAKE_RSP` writes. `Rpc` has the clients, the server and TCP.

* `cpc` and `spc` say where a client and the server are, `cstep` and `sstep` which of the four fields of a message (magic number, serial
  number, length, body) comes next. Every `write` and every `read` of a field is a step of its own.
* A stream is the sequence of fields written and not yet read. A read takes the next field, or fails: because only a piece of a header field was
  there, because the field is late, at the end of the stream, or after a reset. After `NetworkFails` nothing arrives, not even the end.
* Closing an end with something unread, or writing to a closed end, resets the connection; then the other end's next writes fail or raise SIGPIPE.
* `Release` is `rpc_rsp_release` on a `data.type` that may never have been set: it may free what is no pointer, and kill the client.
* `ExecuteCrashes` is the handler of `sum` on 64-bit Linux, see section 6. `KilledBy` lists everything that can kill the server or a client; these two crashes occur and are on
  its list, so the property bounds them and does not exclude them.

`RpcCall` is what a caller may expect: a call is executed at most once, and if it succeeds it was executed and has the handler's answer. It may
have been executed although it failed; that is the nature of the protocol, and `RpcCall` allows it.

### Words, Nats, NatText, BigInt

Pure algorithms, one module per layer: `base.c`; `nat.c`, `natadd.c`, `natsub.c`, `natmul.c` and `natdiv.c`; `natconv.c`; `bigint.c`. The width of a
word and all thresholds (`karatsubaThreshold`, `basicSqrThreshold`, `karatsubaSqrThreshold`, `divRecursiveThreshold`, `leafSize`, the 32 of `addVW`) are constants. A vector is a
sequence of words, the lowest first. What the code writes through a pointer is a second field of the result. Vectors that are
overwritten in place are passed on as values; `karatsuba` works in one workspace as in the code, with the same parts at the same offsets.

* The field `bad` records what a result does not show. `"ripple"`: `addVW` or `subVW` took a carry through a second word. `"overrun"`: words behind
  a vector were touched. `"wild"`: the recursive division wrote over foreign memory. `"shared"`: the result is an operand itself. `"assert"`: an assertion failed.
* `natDivRecursiveStep` divides the high words of a portion of the dividend by the high words of the divisor, multiplies the estimate with the low words
  and corrects both (`AddBack`); `Portions` is its loop and the part behind the loop, which are the same but for an assertion.
* `BigInt` is a caller with one or two integers, who makes a call and frees the result; if the result shares the words of an operand, that operand dangles
  from then on (`BigIntFree`). `Div` chooses what the code reads from freed or unset
  memory, the sign of the remainder and, for a divisor of 1, the remainder itself; `DivDies` is what happens when the vectors that `QuoRem` does not
  initialise are not zero by luck.
* Since the model checker's integers have 32 bits, results are compared with integer arithmetic by residues for as many primes
  below 2^15.5 as it takes for their product to exceed the results.
* These modules use RECURSIVE operators and `Bitwise` and are for TLC only.

## 4. The runs

| run | instance | shows |
|---|---|---|
| `coroutine_slots` | 4 objects, capacity 1 growing to 3 and 7, one stack cell, 2 853 000 states | slots, identifiers and counter agree; an identifier keeps its coroutine, but for `cap`, which is handed out twice; `co_new` runs into its `assert(0)` only for the two reasons `NcoIsLive` names; `co_join` and `co_wait` return only when they should |
| `coroutine_stack` | 2 objects, capacity 1 growing to 3, 3 cells, allocations may fail, 1 709 000 states | the inductive invariant; the shared stack implements private stacks; `co_wait` starves no coroutine |
| `swissmap` | 4 keys, 3 of them colliding, groups of 4, capacities 0, 1, 3, 7, two addresses, 57 000 states | the table implements a map; control bytes, counters and probing stay consistent |
| `swissmap_find_returns` | 3 colliding keys, groups of 8, capacity 7 | violation: looking up an absent key never returns |
| `try_go` | exceptions with 4 blocks, 2 calls, an array of 3; the Go server with 2 handles, 2 `IOData`, 2 workers; 693 000 and 2 457 000 states | exceptions: an exception or a fault arrives in the innermost block; what can go wrong goes wrong only for the reasons stated; a second fault is caught like the first. Go: ownership under the collector, until it takes an `IOData` in flight |
| `iocp_server` | 2 handles, 2 `IoData`, 2 workers, 34 000 states | ownership of `IoData` and handles; departed peers are cleaned up; SIGINT ends the server |
| `iocp_server_ex` | the same, 310 000 states | the same for AcceptEx and the signal handler; every worker gets its exit packet |
| `iocp_go_kept` | the Go server as in `try_go` | violation: an `IOData` is collected while its operation is outstanding |
| `grpc` | 2 calls, 3 tags, 240 000 states | every tag and every call has one holder while the loop runs; every path of the client but the timed-out one releases everything; what is unpacked was received, and success means answered; clients return and a shutdown with batches in flight ends |
| `asio` | 3 connections, 2 descriptors, 394 000 states | a socket is open until its reader fails, and then the writer ends; peers are accepted while the listener lives; early leavers are released |
| `rpc` | 2 clients with one call each, 7 requests, a backlog of 1, 212 000 states | at most once; no socket or buffer is left behind; what can kill the server or a client; calls return, everyone is served, SIGINT ends the server |
| `bigint` | words of 4 bits, 76 operands, all pairs, 208 pairs of up to 16 words, 4 bases, 47 000 states | the word primitives are exact; sums and differences are wrong exactly if a carry ripples; products, squares, powers, quotients and numerals are right otherwise |

`try_go` checks two systems that have nothing to do with each other; `MCTryGo` lets the initial state choose one and leaves the other in its initial state. It does not check deadlock, because a program
with exceptions may stop at any point.

### Bounds

`MaxCap` bounds the capacities; handles, keys, sockets and `IoData` are finite sets, so a model run stops allocating when
they are used up. Everything else is unbounded in the code and finite in the model by construction.

* Four coroutine objects are the least with which an array of three slots holds a finished coroutine, two that live and one behind the array and must then grow to seven; that is
  where identifier `cap` is handed out a second time. Two are enough for `co_wait`: one waits for its turn while the other
  ends, is created anew and resumed again.
* Three stack cells and four keys: with fewer, some of the mutants of the save and restore code, and of the probing, survive.
* Groups of 4 are the least width for which some tables are smaller than a group and some larger, which
  is what decides whether empty bytes remain behind the copies.
* Two handles and two `IoData` suffice for reuse: a handle comes back while an older packet still names its first
  owner. Two workers suffice for two packets about the same connection to be in different hands, if that could happen.
* Two clients suffice for one to stall and one to wait behind it; a backlog of 1 is full while it does. One call each is enough because
  every call has a connection of its own and the server keeps nothing from one to the next. `MaxFailures` is 1: the network fails on one
  connection, and the other client must not suffer for ever. The requests are one for each way `handle_client` and `rpc_get_rsp` can go.
* Four blocks over an array of three reach the fourth nested block, which overruns it, and leave one block to be entered after another was left by a jump; two calls suffice
  for a function to return while the array still names its block. The unsigned depth has three bits, so that it wraps visibly.
* Two calls and three tags are the most tags two calls can need (two answers and a request). The allocator takes any free address by `CHOOSE`: free addresses are alike, and
  an address comes back as soon as it is free. Three connections with two descriptors run out of descriptors.
* The operands of `bigint` are all single words, both forms of zero, vectors of two to five words made of the edges 0, 1, 8 and 15, and negative ones of each length. The
  thresholds are 2, 3 and 4 words: two levels of `karatsuba`, operands of unequal and odd length, and each of the four ways to square occur. A `leafSize` of 1
  gives tables of two divisors. Base 8 has digits that straddle two words, 3 and 10 need the table. The same operands were run
  through the C code with the same thresholds: 70 of the 784 products of vectors of three to five words 0 and 15 (there 0 and 2^64 - 1) are wrong in both.
* The recursive division starts at 6 words in place of 100, the least for which the low part of a divisor has two words; with one, `natMul` would take a path that it never takes
  from there. The divisors have 6, 7 and 10 words, the last for a second level of recursion. The C code, with the same thresholds and 64-bit words, divides all of the 208 pairs
  right in which no carry ripples and no portion of the dividend is used up, and of the others one.
* Coroutine objects, and in `try_go` and `iocp_go_kept` handles, `IOData` and workers, are symmetric: the allocator, the kernel and the scheduler may pick any.
  In `swissmap` the two keys with equal hash and values are. Runs that check liveness use no symmetry.

### Fairness

* Coroutine: `WF(MainStep)`: the thread goes on executing the loops of `co_join` and `co_wait`. `WF(YieldStep)`: a running
  coroutine calls `co_swap` or returns in the end; the library is cooperative, and a coroutine that never yields starves the rest by design.
* IOCP: every thread of the process keeps running (weak fairness on main's own work and on every worker, and on the second step
  of the signal handler), and an operation on a dead or closed connection completes, which Windows guarantees. Nothing
  makes clients connect, send or leave, or the user press Ctrl-C.
* RPC: the server and every client keep running, and a read with a time-out ends. Nothing makes the network deliver, a client call or
  the user stop the server.
* gRPC: both programs run, time passes, and the library completes batches and the shutdown. Nothing makes a request fail or a call arrive, and nothing makes the server's loop end.
* asio: `run` executes what is ready, for the listener and each coroutine. Nothing makes peers connect, send or leave.
* Go, SwissMap, CTry and BigInt are checked for safety only.

## 5. The proofs

Every safety property that the runs check for these components is proved for every value of the constants, but for the ones listed at the end of this section. The
assumptions are the named ASSUMEs of the modules; TLC evaluates them in every run.

| module | theorems | for any |
|---|---|---|
| `CoroutineProofs` | `Invariance` (`IndInv`), `TypeCorrect`, `RunningIsUnique`, `DefaultUnreachable`, `WaitIsComplete` (`WaitPost`), `JoinIsComplete` (`JoinPost`), `IdsAreStable` (`IdStable`), `CoroutinesAreCounted` (`NcoIsLive`), `StacksArePrivate` (`PrivateSpec`) | objects, stack size, capacities, failing allocations |
| `SwissMapProofs` | `Inductive`, `BytesMirror` (`Mirror`), `KeysAreFound` (`Findable`), `CountersAccount` (`Accounted`), `ImplementsMap` (`MapSpec`), `HangsOnlyOnDeleted` | keys, values, hash functions, salts, group width of at least 4, capacities |
| `IocpServerProofs` | `TypeCorrect`, `IoDataIsOwned` (`Owned`), `HandleIsOwned` (`HandleOwned`) | handles, `IoData` addresses, workers |
| `IocpServerExProofs` | `IoDataIsOwned` (`Owned`), `HandleIsOwned` (`HandleOwned`), `WorkersAreReleased` (`WorkersReleased`) | the same |
| `GrpcProofs` | `TagsAreOwned` (`TagsOwned`), `ClientsRelease` (`NothingKept`), `SuccessMeansAnswered` (`SuccessIsAnswered`) | clients, tags |
| `CTryAsioGoProofs`, `CTry` | `HandlersStayNested` (`HandlersNested`), `CaughtByInnermost` | size of the array, codes, signals, programs |
| `CTryAsioGoProofs`, `AsioSession` | `SessionsKeptExactly` (`KeptExactly`), `OnlyReaderCloses` | connections, descriptors |
| `CTryAsioGoProofs`, `IocpGo` | `GoDataIsOwned` (`Owned`) | handles, `IOData`, workers |
| `RpcProofs` | `NothingIsLeftOpen` (`NothingLeftOpen`), `KilledByTheseOnly` (`KilledBy`), `ExecutedAtMostOnce` (`AtMostOnce`) | clients, calls, requests, handlers, backlog, network failures, with and without time-outs |

`IocpPortProofs` has lemmas only.

### CoroutineProofs

None of the properties is inductive alone. `OneRunning` fails at `Finish` unless cell 1 of the shared stack names the
running coroutine, which holds after `Continue` only if the buffer that is copied back ends in its owner, which `CoSwap` must have
established. Hence `Inv`:

* `SlotInv`: an object is in one slot at most, and allocated;
* `RunInv`: `OneRunning`, and the stack's outermost cell names the running coroutine;
* `SaveInv`: the saved context and size agree and the buffer's outermost cell names its owner;
* `LoopInv`: while `flag` is unset, `co_wait` has run nothing in this round and the slots behind it are empty;
* `NoDefaultAssert`.

`IndInv == TypeOK /\ Inv` is checked by TLC in `coroutine_stack` and proved inductive with one lemma per
group of operations. The assumptions on the constants: capacities are positive
and of the form 2^k - 1, the stack has at least one cell, the null pointer is neither an object nor a value.

`CoroutinesAreCounted` adds `CountInv` and `AssertInv`. Its statement is conditional on `~AllocMayFail`, because `co_new` counts an object it could not
allocate (section 6). That the scan of `co_new` fails for two
reasons only is an argument about all its probes: they visit the word behind the array and every slot but `nco - 1`, and if that slot were taken too, by a coroutine that is not finished
like all the others, there would be `cap` of them, which is more than `nco` counts.

`StacksArePrivate` maps every coroutine to its private state and frames and shows, operation by operation, that one object's part of the mapping changes as
`CoPrivate` says and all the others stay. The heart is `SwapMaps` and `ResumeMaps`: what `co_swap` copies out, at the depth it has then, is what `co_resume` copies back. `BufInv`, that a
buffer is missing only after a failed allocation, is needed for the frames a failed `co_swap` loses.

### SwissMapProofs

`Findable` is not inductive: that a key is found depends on what is probed before its group. `Reached` says instead that no group before the one that holds
the key has an empty byte. Insertions and erasures keep that since they never write an empty byte; the exception is a rehash, which starts from an empty
table. Beside it, `IndInv` has

* `Unique`: no key is in two slots;
* `CapOK`: the capacity plus one is 1, 2, 4 or leaves 8 or 16 modulo 24, which is as much of 2^k as the limits depend on;
* `Counted`: `m_num` is the number of keys and, with `m_growthInfo`, makes up `Limit(cap)`;
* `Rehashing`: while `rehash` runs, no byte of the new table is deleted, what is left in the old table still fits the old limit, and no key is in both.

`Limit(n)` is the closed form of the recurrence that `init` and the reinsertions produce; `LimitStep` proves that recurrence from it. The lemma `Covered` (loads of
`w` bytes one behind the other in a circle see every byte of it) shows that probing finds an empty byte if there is one; with `Rehashing` that makes every
`findIndex` of a rehash return, and leaves it room, so that a rehash never starts another. Outside a rehash `findIndex` may not return (section 6), and `Spec` then stays in `"hung"`;
the theorems say nothing is wrong in the table even then. `HangsOnlyOnDeleted` says on which tables that happens: a table with more than half as many places as a group is wide, that is, one of 15 slots or more in the code, in which no slot's byte
is empty and one is deleted. The table cannot be full of keys instead, because `Counted` keeps `m_num` below the capacity. `ImplementsMap` maps the slots, and during a rehash those of the old table as well, to a map.

Assumptions: a group has at least 4 bytes (the code has 16), hash values are natural numbers, the second part of a hash fits in seven bits, and `None` is neither a value nor an entry. The
salt of the address is an arbitrary function.

### IocpPortProofs, IocpServerProofs, IocpServerExProofs

`IocpPortProofs` says what the external port does to outstanding operations and packets: which `IoData` they name, each once, and that closing or completing an
operation moves it and loses none whose socket was bound.

For `server.c`, `Owned` says that the
`IoData` in main's hands, in the workers' hands, in outstanding operations and in packets are disjoint and together
are exactly the allocated ones. It needs two strengthenings. `Hands` ties what a thread holds to where it is: a worker that
waits for a packet holds nothing, main between accept and the first read holds a socket or an `IoData`. `Ported`
says that the connections served are bound to the port: an operation on any other completes unseen and
its `IoData` would be lost. `HandleOwned` is needed in turn, because closing one connection must not close, or unbind,
another one. `PostKeeps` states once what `CloseConn`, `PostRead` and `PostWrite` do to an `IoData` in hand (the kernel
takes it over, or it is freed) and serves both main and the workers.

For `server_ex.c` the argument splits at the moment in which the signal handler closes a socket. `Owned`, without the part that nothing is lost, is kept by every step whatever the handler
has closed; `HandleOwned` and `Ported` hold until then, and only until then. `WorkersReleased` needs `Unposted`: there is no exit packet and no worker has ended
before main leaves its loop. From then on every packet taken and every worker that ends leave both numbers equal.

The assumption is `PortAssumption`: the null values are outside their sets, and the sets are finite.

### GrpcProofs

`ServerInv` describes the heap of tags as the library and main see it: `Heap` (what is posted or queued is allocated, once; a request has a call exactly when it succeeded; no call is
in two tags), `AllNamed` while the loop runs, and who listens. `RoomForAnswer` shows that `HandleNewCall` always finds an address for its finish tag: every other allocated tag has a call of its own.
`Carried` relates the tags to the network: the call of a tag is matched, and answered only once its batch is complete. `ClientAt` says what a client holds at each stage of
`main`; the client's reports follow from it and from `Carried`.

Assumptions: finite sets of calls and tags, and more tags than calls, since a C heap does not run out here (section 7).

### CTryAsioGoProofs

The three systems have only the module in common; that is why the specifications of the last two have names of their own, `AsioSpec` and `GoSpec`.

**Exceptions.** `HandlersNested` relates the array of jump buffers to the blocks that are open, and is not inductive: an exception takes the depth back to some element, and what is below that one must
fit the blocks around the block it arrives in, for a program that may since have left blocks in ways the macros do not see. Hence, beside the types,

* `Nesting`: the open blocks lie one inside the other, each in a function that is still active, and the same held for every block at the time it was entered (`Chain`);
* `Elements`: every open block has an element below the depth (`Held`), and wherever an exception takes the depth back to, the blocks around the one it arrives in have their elements below that
  (`Reachable`). Leaving a block by `return`, `break` or `goto` keeps this, since it only leaves elements too many;
* `Straight`: until that happens, the elements below the depth are the open blocks, one for one, so an exception outside every block is the only jump through foreign memory, and a block nested deeper than the array
  is long the only overrun.

`CaughtByInnermost` is an action property from the same invariant, what a programmer relies on: `HandlersNested` speaks of states, this of the step that `THROW` or the handler takes. The assumption is `SizeAssumption`.

**asio.** `Agree` ties socket, reader and writer of a session together, also before `initNet`. `OnlyReaderCloses` is an action property from the same invariant: while `run` runs, a session
loses its socket only by its own reader, in the middle of a message whose peer has left.

**Go.** In `main.go` the collector takes the place of `free`. It may take whatever no goroutine works on, also what is in flight, and the program goes on after it has. `GoSafe` therefore has two parts.
Whatever was collected, the types, `GoHands` and `GoEnds` hold (`GoStays`). As long as nothing in flight was collected (`~astray`), so does `GoInv`: everything in flight is alive (`Intact`), `GoHeld` says what a
goroutine works on is alive and its alone, and `GoOwn` that every `IOData` is in hand or in flight once and has an open socket nobody else has. `GoHands` ties what main holds to where it is, and `GoEnds` says that a packet without `IOData` has no bytes, so that
no worker echoes for a null pointer. Nothing like `Ported` is needed: an `IOData` whose completion goes astray is collected. `GoPost` states what `postRead`, `postWrite` and `closeIO` do, and `GoLetsGo` what
is left when a goroutine lets go of its `IOData`.

### RpcProofs

The invariant looks at the state as one call sees it: where its caller is (`Phase`), what the server does with it (`Serving`), and, for each direction, which fields of the message were written,
read, and are between the two (`Part`). `Caller` and `Conn` say for every call that

* the stream towards the server is the request's own fields, from the one the server reads next to the one the caller wrote last, and the stream back is the fields of the answer to this request;
* the handler has run, once, exactly if the server answers or part of an answer was sent;
* the ends are open exactly where the two programs are in the middle of the call, and a connection waits in the backlog exactly until it is accepted;
* a result is a failure, or the answer of the handler.

Since no step touches the streams of two calls, a step of one caller or of the server needs to be looked at for one call only. `ExecutedAtMostOnce` maps this to `RpcCall`.

`RpcAssumption`: the bounds are natural numbers, the backlog has room for one, `rpc_server_register` is called for the three handlers of `main.c` in any order and number, and requests are records of the form that `RpcWire`
describes.

### Only model-checked

* The liveness properties (`NoStarvation`, `PeerGoneIsClosed`, `SignalStops`, `AbortedAcceptExits`, `CallReturns`,
  `EveryoneIsServed`, `ClientReturns`, `ServerSettles`, `PeersAttended`): fairness and ENABLED are out of the prover's reach.
* `BigInt` and the modules under it: they are recursive, and use `Bitwise`; what a recursive definition computes for every input needs induction over data.

## 6. Findings

Two disagreements have a run of their own.

* `swissmap.h:188`: deletion marks accumulate in tables of at least `kWidth - 1` slots, because `erase` gives
  the place back to the growth budget but insertion goes to empty bytes; when no byte is empty, `findIndex` loops for ever on an absent key. `HangsOnlyOnDeleted` proves that this is the only way for a call not to return.
* `main.go:218`: the comment at `main.go:216` says that printing the pointer keeps `data` from the collector. It does so until `Printf` returns; while WSASend or WSARecv is outstanding only the kernel refers to the
  `IOData`, and it can be collected (`Intact`).

The models contain the following defects as well; the properties name them as the exceptions they are.

Coroutines
* `co.c:261`: `co_new` reaches `assert(0)`. A finished coroutine no longer counts in `nco` but keeps its slot until it is resumed once more,
  so the array can be full without being grown; and slot `nco - 1` is never probed (`NcoIsLive`).
* `co.c:254`: the scan index `(i + nco) & cap` of `co_new` can be `cap`, one behind the array. When that word is zero the
  coroutine is stored there and its identifier, `cap`, is refused by `co_resume`. If the array grows later, `co_new` returns `cap` once more (`co.c:250`), for another coroutine (`IdStable`).
* `co.c:249`: when a coroutine object cannot be allocated, `co_new` stores NULL, counts it and returns an identifier.

Exceptions (`HandlersNested`)
* `except.h:22`: leaving a block by `return`, `break` or `goto` leaves the depth one too high; a later exception outside every block then jumps into it, or into a function
  that has returned.
* `except.h:38`: `THROW` or a fault outside every block takes the unsigned depth below zero and jumps through foreign memory. `except.h:16`: `TRY` does not compare the depth with 256.

IOCP
* `main.go:253`: a worker ends with the first connection that closes; after `NumCPU` of them nobody serves.
* `server_ex.c:113`, `server_ex.c:120`: see section 3.
* `server_ex.c:248`: when the wait for AcceptEx fails, its `IoData` is freed while the operation may be outstanding; closing the socket cancels it, and Windows reports that into freed memory.

gRPC (`TagsOwned`, `NothingKept`, `ServerSettles`)
* `server.c:47`: after a refused request for a new call nobody listens, and main waits in its loop.
* `server.c:193`: the tags of answers that complete during the drain, and the calls they hold, are never released; nor are the server's credentials on any path.
* `client.c:192`: after a time-out the client releases everything without taking the completion from the queue, although the comment at `client.c:181` says it must be taken; the response, and what is delivered
  later, is kept.

asio (`KeptExactly`, `PeersAttended`)
* `net.cc:96`: a session that has served its message is never released, because its writer waits for a timer nobody cancels. Served sessions use up the descriptors, `async_accept` throws, and the listener ends
  while the process goes on.
* `net.cc:53`: for a message of less than two bytes the length given to the parser is negative, and the command number is read from memory that was not set.

RPC
* `main.c:31`: `sum_handler` hands an `int64_t` to `RPC_MAKE_RSP`. On 64-bit Linux that is a `long`, a type the macro does not list, and the
  macro goes on to ask whether the number is the address of a protobuf message. The server dies, of a segmentation fault or,
  for the sum 0, of a failed assertion. On Windows `int64_t` is a `long long`, which is listed. `KilledBy` names it.
* `rpc_client.c:27`: `rpc_call` does not free the request when it cannot connect, which is why `NothingLeftOpen` speaks of calls that connected.

Big integers
* `natadd.c:36`, `natsub.c:39`: the carry of a word is added twice to the next, because `oc` is not reset. 2^128 - 1 + 5 * 2^128 plus 1 is 7 * 2^128, and
  2^128 - 1 fails the assertion at `natsub.c:59`. `SumExact` says when.
* `natadd.c:19`, `natsub.c:20`: the copy of `addVWlarge` and `subVWlarge` is too long by the words already done.
* `natadd.c:51`, `natsub.c:49`: when the other operand is empty, the result is the operand itself; freeing one leaves the other with freed memory.
* `natmul.c:59`, `natmul.c:159`: a product with zero is one word 0 and not the empty vector; -5 * 0 is a negative zero, and its text is "-". The text of
  `BigIntNewU(0)` is empty (`natconv.c:318`). `ProductExact` and `TextExact` name the exceptions.
* `bigint.c:127`: `BigIntDiv` moves its quotient by one through `BigIntAdd` or `BigIntSub`, so the doubled carry reaches quotients too, and it goes by the sign of a remainder it has freed: if that still reads as it was, the
  result is the quotient of division with a remainder that is not negative; if not, it is that of division towards zero or off by one. `QuotientExact` says so.
* `natdiv.c:172`, `natdiv.c:200`: when a portion of the dividend is used up, the estimate is empty and its product with the divisor is that one word 0, which `natCmp` takes for more than
  an empty vector; the correction then subtracts 49 words or more from a vector of one. A divisor of 100 words shifted left by 60 words and divided by itself
  overruns the heap. `QuotientExact` excludes these (`"wild"`).
* `bigint.c:107`, `bigint.c:126`, `natdiv.c:68`: division starts from uninitialised vectors, looks at a freed remainder, and leaves
  the remainder unset if the divisor is 1.

## 7. What the models leave out

* Coroutine: the native build (fibers, ucontext), the 32-bit assembly, registers other than the stack pointer, and the question of
  how deep below `co_swap` the compiler places `_save_stack`. A second `co_open` leaks the first environment, which is modelled; its memory is not.
* SwissMap: iteration, which only reads; constructors and destructors of keys and values; the SIMD comparison, modelled by its result.
* IOCP: event handles, byte counts and buffer contents, partial sends, the completion key, failing initialisation before the accept loop.
* RPC: the Windows build, failing allocations, buffers that grow, argument values, the memory `parse_arg` leaves unfreed, writes that block on a full socket buffer.
* gRPC: failing allocations of the server, which it does not test; events that cannot occur (a time-out of a wait without deadline, the shutdown of a queue nobody shuts down); the text of requests and
  answers; deadlines of single calls on the server's side.
* asio: `async_write`, since nothing ever enters a session's queue of messages; the handlers of messages, which print; the contents of messages.
* Exceptions: the Windows build, in which `setjmp` saves no mask; code between CATCH and the end of its block is program code like any other.
* Big integers: powers with a modulus, which nothing calls; capacities and failing allocations. `DigitBound` is the
  rounded quotient of logarithms taken exactly.
* In all: logging and command lines.
