# A verification of quick-server

quick-server is a C library for Windows on which a program builds a TCP server:
it accepts connections, sends and receives asynchronously over an I/O completion
port, and calls the program back from a pool of threads. All of its own logic is
in `src/qs_lib/qs_lib.cpp` (line numbers below are of that file, if they name no
other); every context of a connection comes from the allocator nedmalloc, whose source
is in the same directory: `nedmalloc.c`, with pools and thread caches, on top of
`malloc.c.h`, a dlmalloc.

These TLA+ modules model the storage of connections, the running server, the life of
the server object, its idle timer, its listen address, and the allocator. TLC checks
them on small instances, and TLAPS proves for every instance all of the safety properties and
refinements of the server, its storage, its timer and its life, and of the allocator's
locks, pool, thread caches, recognition of blocks and heaps, with one exception that is
stated with `ENABLED`.

## The system

| Component | State | Operations |
|---|---|---|
| connection storage (93-174) | `connections[]`, `count`, `size`, critical section `cs` | new, is_full, add, delete, traverse, free |
| worker threads (700-803) | per thread the packet it works on and `accepts` | the loop over `GetQueuedCompletionStatus` and its branches |
| accepting (219-251, 661-680) | contexts, sockets, `sockets_count` | `alloc_context`, `socket_create`, `init_accept`, `socket_close`, `free_context` |
| client API (555-624) | `ended_operation` of the connection's context | `qs_send`, `qs_recv`, `qs_send_file`, `qs_close_connection`, `qs_post_message_to_pool` |
| walks (503-518, 635-642) | `last_activity`, the timer | `idle_check`, `clean_timer_callback`, `qs_enum_connections` |
| lifecycle (253-320, 432-553) | `status`, port, listener, threads, timer, parameters | `qs_create`, `qs_start`, `qs_stop`, `qs_delete` |
| listen address (322-430) | none | `parse_port_string`, `parse_ipvX_addr_string` |
| statistics (626-633) | `qs_info` | `qs_query_qs_information` |
| allocator: pool (`nedmalloc.c`) | `nedpool`: `m[]`, `caches[]`, `threads`, `mutex`; a value per thread | `InitPool`, `GetThreadCache`, `AllocCache`, `GetMSpace`, `FindMSpace`, `neddisablethreadcache` |
| allocator: thread cache (`nedmalloc.c`) | `threadcache`: bins of lists, `frees`, `freeInCache` | `threadcache_malloc`, `threadcache_free`, `RemoveCacheEntries`, `ReleaseFreeInCache` |
| allocator: recognition (`nedmalloc.c`) | `leastusedaddress`, `largestusedblock` | `CallMalloc`, `nedblkmstate`, `nedpfree2` |
| allocator: mspace (`malloc.c.h`) | chunks, bins, `dv`, `top`, segments | `mspace_malloc`, `mspace_free`, `internal_realloc`, `sys_alloc`, `sys_trim` |
| allocator: lock (`malloc.c.h`) | `MLOCK_T`: `threadid`, `c`, `l` | `win32_acquire_lock`, `win32_try_lock`, `win32_release_lock` |
| rest | none | `cry` (messages), socket options, address text, `DllMain` |

How they interact:

- An `io_context` is an `OVERLAPPED`, the `connection` the client sees, and
  `ended_operation`, which tells what the `OVERLAPPED` is in use for. It is passed
  from the code that starts an operation, to the system, to the completion port, to
  whichever worker dequeues it, to a callback, and so to the client, which starts the
  next operation. There is no count of references and no lock on a context.
- The workers share the storage, guarded by `cs`, with the timer's thread and the
  threads of the program that call `qs_enum_connections`; the callbacks of a walk
  run while `cs` is held.
- Each worker has its own `accepts`, the number of accepts it believes to be
  outstanding. The worker that takes the start packet posts the initial accepts;
  every worker that takes a new connection posts a replacement unless the storage
  is full.
- The server object itself is written by `qs_create`, `qs_start` and `qs_stop` and read
  by the workers and the timer's thread without any lock; what keeps it alive is the
  order in which these three make and destroy things.
- A worker that allocates or frees a context goes through its own thread cache, which
  needs no lock; when that has nothing, through an mspace of the pool, whose lock it
  holds meanwhile; and the mspace gets its memory from the system.

What is hard: packets of one context handled by different workers while the callback
that started the operation has not returned; the idle timer shutting a connection down
at any moment; a peer that closes or breaks the connection at any moment; operations
that fail at once or later; the storage overflowing; accepts that are lost; stopping
while all of this is under way; ticks and counters that wrap; socket handles that mean
another connection a moment later; and, in the allocator, unlocked reads beside locked
writes, and data structures that lie in the very memory they manage. `PROJECT.json`
lists these hazards, each at its line.

What makes each component correct:

- *Storage*: it behaves as a bounded set whatever the interleaving; it never refers to
  a freed connection; a walk visits what is stored; the critical section is released.
- *Workers and client API*: a context has one holder; no holder has a freed one; the
  tag says what completed; the client sees on_connect first, one thing at a time, and
  on_disconnect last and once.
- *Accepting*: sockets are counted; how the number of outstanding accepts evolves.
- *Walks*: what is shut down was idle, and what is idle is shut down in the end.
- *Lifecycle*: stop ends; while a server serves it has all it needs; which use of freed
  memory is possible and when; a server serves once.
- *Listen address*: what is documented is accepted and means what it says.
- *Allocator*: blocks never overlap; each layer finds again what it was given back; locks
  exclude and are never all waited for.

## Modules

| Module | What it is |
|---|---|
| `ConnectionSet` | abstract: the bounded set of connections that the storage promises |
| `ConnectionStorage` | the array, `count` and `cs`, one step per store to shared memory; refines `ConnectionSet` |
| `ConnectionStorageProofs` | invariants and refinement of `ConnectionStorage`, proved |
| `ConnectionLifecycle` | abstract: what the client may observe of one connection |
| `QuickServer` | workers, contexts, port, client, walks, peers; uses `ConnectionSet` for the storage; refines `ConnectionSet` and `ConnectionLifecycle` |
| `QuickServerProofs` | ownership, typing and both contracts of `QuickServer`, proved |
| `MCQuickServer` | values of the constants for TLC |
| `IdleCheck` | ticks, stamps and socket handles: `idle_check` beside the workers |
| `IdleCheckProofs` | its safety properties, proved |
| `ServerContract` | abstract: a server is created, serves once, is deleted |
| `ServerLifecycle` | `qs_create`, `qs_start`, `qs_stop`, `qs_delete` beside workers and timer; refines `ServerContract` |
| `ServerLifecycleProofs` | its safety properties and the refinement, proved |
| `ListenAddress`, `MCListenAddress` | the parser of `listen_adr` as operators on positions in a text |
| `RecursiveLock` | abstract: a lock that its owner may take again |
| `SpinLock` | the lock of `malloc.c.h`, one step per access to memory; refines `RecursiveLock` |
| `CacheBin` | abstract: one bin of a thread cache, a sequence of blocks |
| `ThreadCache`, `MCThreadCache` | the linked lists, sizes and ages of one thread cache; refines `CacheBin` |
| `ThreadCacheProofs` | all of its properties, with the refinement, proved |
| `AllocatorPool`, `MCAllocatorPool` | how threads get a cache and a locked mspace |
| `AllocatorPoolProofs` | its invariants, proved |
| `HeapDetection` | how the allocator knows a block as its own |
| `LockFreeProofs` | what is read and written without a lock: the properties of `SpinLock` and `HeapDetection`, proved |
| `HeapContract` | abstract: blocks in mapped memory that do not overlap |
| `Mspace` | chunks, bins, `top` and segments of one mspace; refines `HeapContract` |
| `MspaceProofs` | all of its properties, with the refinement, proved |

### ConnectionStorage

`connections`, `count` and `cs` are the fields of `connection_storage`. A thread enters
an operation when `cs` is free and has `pc`, `arg` (its `connection` argument) and `i`
(its loop variable) until it leaves. `AddStore` is line 122 and `AddCount` line 123;
`ScanHit` is line 161 and `DeleteMove` line 162; each early return is an action
(`DeleteEmpty`, `DeleteLast`). `life` records what the callers do with a connection:
they add it once, when it was accepted, and delete it once, before freeing it, as
`working_thread` does. `connection_storage_is_full` changes nothing, but it enters `cs`
and leaves it by one of two returns (`FullTrue`, `FullFalse`); its answer is `IsFull` of
`ConnectionSet`, which the workers of `QuickServer` use.

### QuickServer

- `allocated`, `op`: contexts and their `ended_operation`. `opened`, `sockets_count`:
  sockets. `pending`: operations given to the system. `queue`: the completion port.
- `pc`, `cur`, `accepts`: a worker's place in the loop of `working_thread`, the packet
  it dequeued, and its local variable. A step is the code between two points at which
  another thread can notice a difference: a change of shared state, or a callback.
- `stored` is the content of the storage. Because `ConnectionStorage` implements
  `ConnectionSet`, an add, a delete and a test are single steps here
  (`Storage!Added`, `Storage!Deleted`, `Storage!IsFull`). A walk is not: it holds `cs`
  (`traversing`) while it visits the connections in `todo` one by one.
- `link` is the external part of a connection: `up`, `fin` (the peer has closed), `shut`
  (the idle timer has called `shutdown`), `down` (broken, or disconnected by
  `DisconnectEx` or `TF_DISCONNECT`), `detached` (the socket could not be associated
  with the port, lines 752-755, so nothing on it produces a packet).
- `turn[c]` says after which callback the client may call. A client gets the turn when a
  callback is entered and gives it up with a call, from any thread, before or after the
  callback returns. A call that returns an error leaves it the turn. This is how
  `qs_lib_test.cpp` uses the library and the only use the library supports: nothing in
  it protects a context from two operations at once.

`Faults` selects what may go wrong: `"reset"` (connections break), `"accept"` (`AcceptEx`
fails at once or later), `"associate"` (see above), `"empty"` (operations that transfer
nothing). `ClientCalls` says what the client may call after which callback.

### IdleCheck

`phase` is how far the workers are with a context, `last_activity` its field, `handle`
the value of its `SOCKET` and `owner` whose open socket has that value now: line 730
frees the value while the connection is still in the storage with it, until line 731.
`idle_check` is three steps, as it reads the clock (506), subtracts (507) and calls
`shutdown` (509), and a worker may do anything on the connection between them except
take it out of the storage. The clock is a variable modulo `TickModulus` that starts
anywhere. The timer's thread is late by at most `Latency` ticks unless the previous
callback is still running; then another thread of the timer queue runs the next one,
which waits for `cs`. `age`, `age_read` and `raced` are not in the code: they say how
long the connection has truly been idle.

### ServerLifecycle

One action for each step of a call that other threads can see: `Start` is lines 440-452,
`StartBind` 453-471, `StartStorage` 473-479, `StartThread` and `StartTimer` 481-495, `StartPost`
497-501; `StopTimer` to `StopReset` are 526-553. `storage` numbers the storages that `qs_start`
made, `live` holds those that are not freed: a thread that uses another one sets `broken`,
which ends the behaviour. `thread` is a worker's place, reduced to what it needs of the
server object; what it does with a packet is in `QuickServer`. `tick_pc` is the timer's
callback, which reads `server->storage` first and enters its critical section later.
`Misuse` lets the program call `qs_stop` from a callback of a worker or of an enumeration.

The mapping to `ServerContract`: a server is *serving* when `status` says so, its port is
open, the socket library is started and no `qs_stop` is in progress; it is *spent* when
the port or the library is gone.

### ListenAddress

A text is a sequence of tokens, of which a number is one. The `sscanf` formats are
operators on positions (`ScanBracketed`, `ScanColon`, `ParseQuad`, `ParseBare`), with
what a blank in a format does, where `%40[^:]` stops, and the test of `%n` against the
end. The only variables are the text, which grows by pieces, and the build (`ipv6`).

### The allocator

`SpinLock` is lines 2145-2212 of `malloc.c.h`: `threadid`, `c` and `l` are the fields of the
lock, and each read or write of them is a step. A thread that has the lock is *taken* in
`RecursiveLock` from its exchange on `l` to its store to `l`.

`AllocatorPool` has a program counter for each thread that goes through `nedpmalloc2`,
`nedpfree2` or `neddisablethreadcache` of the system pool. A step is the code between two
accesses to what other threads write: `m` and `threads` are read without a lock (1885, 1613)
and written under `mutex`; `caches` is scanned under `mutex`, one entry in a step, and
cleared without it; the lock of an mspace is tried, or waited for. `tls` is the thread's value: a cache, an mspace,
or nothing. Mspaces that could not be made, and caches, are choices.

`ThreadCache` is one cache, which needs no lock: its bins are `head` and `tail`, its
blocks' links `next` and `prev`, with the sizes the cache believes (`size`) beside the ones
the mspace knows (`memsize`) and the program asked for (`asked`). `RemoveOldest` and `NextBin`
are the loops of `RemoveCacheEntries`; `release_age` is the age that `ReleaseFreeInCache`
halves. `frees` wraps at `FreesModulus`. `waited`, which does not wrap, is not in the code.
The abstract bin is what a walk along `next` finds (`Listed`).

`HeapDetection` is `CallMalloc` after its block was allocated, test and write of
each of the two variables apart, and `nedpfree2` with the comparison that ends the program.
`tested` and `raced` are not in the code: they say whether a write has overwritten another.

`Mspace` is one heap behind its lock, so each of its operations is one step. `chunks` maps
the address of a chunk to its header: `size`, the two bits `cinuse` and `pinuse`, and
`prev_foot`, which is the last word of the chunk before. `binned`, `dv`, `dvsize`, `top`,
`topsize`, `seg`, `trim_check` and `release_checks` are fields of `malloc_state`. Each path of
`mspace_malloc_implementation`, `mspace_free` and `internal_realloc` is an action; where above
the first segment the system puts new memory, and whether it takes memory back, are
choices, so that segments are appended, prepended, added, trimmed and released in every
order. `given` is what the
program holds and `extra` the remainders that `internal_realloc` frees after it. `seg` is the
set of the segments, each with the place of its record: the one whose record is in the
`malloc_state` is the first of the list. The order of the others is not kept, since a loop
over the list stops at the one segment that meets its test (`AppendsTo`, `PrependsTo`) or
visits them all (`release_unused_segments`).

## Runs

| Run | Instance | Question |
|---|---|---|
| `storage` | 3 threads, 4 connections, 3 cells | Is the array a bounded set, and `cs` always released? |
| `server` | 2 workers, 3 contexts, 1 accept, 1 cell, any calls, all faults | Are contexts owned and freed properly, tags true, sockets counted, the lifecycle kept? |
| `two_accepts` | 2 workers, 3 contexts, 2 accepts, 1 cell, any calls, accepts may fail | How do accepts evolve when the storage overflows; do the workers use the storage as it expects? |
| `server_liveness` | 2 workers, 3 contexts, 1 accept, the client of `qs_lib_test.cpp` | Is a closed connection freed; does stop end? |
| `keep_alive` | 1 worker, 2 contexts, connections break | Does the server close a broken connection? (It does not.) |
| `idle` | 2 connections, 1 handle, 2 timer threads, clock modulo 6, timeout 2 | Which connection does the idle timer shut down, and does it always? |
| `lifecycle` | 2 or 3 workers of which 2 can be waited for, 2 starts, 2 startups, 1 client, stop from anywhere | What can a stop pull away from whom; does it return; can a server serve again? |
| `listen` | texts of up to 5 of 13 pieces, both builds, octets of 2 bits, ports of 3 | Is what is documented accepted, and is what is accepted what was written? |
| `thread_cache` | 3 blocks, bins for sizes 1, 2 and 4, a counter modulo 4 | Are the lists lists, sizes enough, space counted, old blocks released? |
| `pool` | 3 threads, 2 mspaces, 2 caches | Do unlocked reads of the pool see what they need; do threads ever jam? |
| `mspace` | 90 words in 5 granules, 4 sizes and 2 resizes, 2 blocks | Does the heap keep its own structure, lose nothing, and never hand out memory twice? |
| `block_size` | 2 threads, 2 mspaces, 3 sizes | Does `largestusedblock` bound every block? (It does not.) |

What they show:

- `storage`: `ArrayIntact` (within its bounds, nothing twice), `NoDanglingPointer` and
  `TraversalComplete` hold between any two stores; `ImplementsSet` is the refinement;
  `CriticalSectionReleased` is liveness, over every return of the four operations.
  Four connections in three cells reach the overflow, the delete of a connection that
  was never stored, the empty storage, and a swap of every pair of cells. Three threads
  are one inside and two that would interfere if they could.
- `server`: `NoUseAfterFree`, `SoleHolder`, `TagTruthful`, `SocketsAccounted` and the
  refinement `FollowsLifecycle`. Two workers are enough for the race that matters: one
  worker is still in the callback, or in the loop after it, while the other handles the
  next packet of the same connection and frees it. Three contexts let one address be
  used again while another connection lives.
- `two_accepts`: with two accepts and one cell a second client connects while the storage
  is full, so that add drops the connection. `UsesStorageProperly` says that the workers
  add and delete in the order the storage expects. `AcceptPoolNeverGrows` and
  `DisconnectNeverRefills` state how the server degrades: a worker that finds the storage
  full counts the accept it did not post (lines 758-761), a failed accept is not replaced
  (715-719, 674-678), and the loop after a disconnect (733-736) always finds
  `accepts = max_accepts`. So a server that was once full, or whose accepts have failed,
  accepts fewer connections from then on, down to none.
- `server_liveness`: `ClosedPeerReaped` and `StopTerminates`. Faults are off because with
  them the first does not hold, which is what `keep_alive` is about.
- `keep_alive` is expected to fail. The comment at lines 456-461 says that TCP keep-alive
  lets the server close the connection of a client that is gone. When the probe fails,
  the pending receive completes with an error, and lines 715-719 report the error and
  forget the packet: no `on_disconnect`, no `closesocket`, no entry leaves the storage.
- `idle`: `JustifiedShutdown` names the one way in which an active connection is shut down:
  a worker stamps it after line 506 has read the clock, and the subtraction of line 507
  wraps. The wrap of the clock itself does no harm. `ShutdownHitsVisited` names the one way
  to shut down another connection than the one visited: its handle was closed by line 730
  and given to a new socket before line 731. `IdleReaped` says that an idle connection is
  shut down in the end, although callbacks overlap and the walk has to get `cs`.
- `lifecycle`: `WorkersOutlived` and `OnlyLateTimerDangles` are the two ways to use freed
  memory: more workers than `WaitForMultipleObjects` takes (537), and a timer callback
  that line 528 does not wait for. `OnlyCreateCriesBlind`: only a `qs_create` that fails
  calls an `on_error` nobody has set. `ServingWorks` and the refinement `ServesOnce`: while
  a server serves it has all of its parts; after `qs_stop`, or after an address that
  does not parse, `qs_start` may report success again and nobody serves. `StopReturns`:
  a `qs_stop` of the program returns, unless it is called while `qs_enum_connections`
  holds `cs`.
- `listen`: `DocumentedAccepted` compares the parser with `[IP_ADDRESS:]PORT[s|p]` (line 450),
  `AcceptedNamesItsStart` says, of a build for IPv4, that no scan finds its address
  elsewhere than at the start, and `FamilyMatches` that the listener has the family of the sockets that
  accept on it, an IPv4 address in a build for IPv6 excepted.
- `thread_cache`: `ImplementsBins` (forwards, as `threadcache_malloc` reads the lists) and
  `CacheConsistent` (backwards, as `RemoveCacheEntries` does; each block in one bin; the
  space counted). `LargeEnough`: rounding sizes up when a block is taken and down when it is
  put back never gives a block that is too small. `AgeingWorks`: what is old is released,
  unless a block has waited until the counter wrapped.
- `pool`: `PoolConsistent` (nobody gets past line 1885 before there is an mspace; `m` is
  filled from the start; a cache has one owner; a taken entry is held or was lost with
  its thread), `LockedForUse` (what `GetMSpace` returns is locked by the caller), and
  `NeverJammed` (of the threads inside, one waits for no lock that is taken) and
  `OnlyLocksStop` (such a lock is all that stops a thread; `Waits` lists them). Three threads
  can have one mspace each in use, or be installing the second one while two wait for
  the first.
- `mspace`: `CheckedState` is what the debug build asserts (`do_check_malloc_state` and what
  it calls), in every state between two calls; `NothingLeaks`: a chunk in use is somebody's;
  `ImplementsHeap`: blocks lie in mapped memory and do not overlap, and a call changes no
  other block; `SystemIsLast`: memory comes from the system only when no free chunk is
  large enough. The sizes are a small one, one that is half of a granule, the largest
  for which one granule is enough, and one for which the system has to give two.
- `block_size` is expected to fail. Line 590 of `nedmalloc.c` says "size should never exceed
  largestusedblock" and `nedpfree2` ends the program for a block that does. Two threads that
  allocate from different mspaces both pass the test of line 360, and the smaller size is
  written last.

Observations that no run states: `active_connections_count` is set to -1 and 0 and never
counts a connection (`qs_lib.h` 87, line 549). A text that goes on after a valid address,
such as a port followed by `s` and anything, is accepted (421). A thread whose cache
belongs to the first mspace gets 0 as its new value from `neddisablethreadcache`
(`nedmalloc.c` 1837), which means that it has nothing yet: its next call makes a new
cache, although `nedmalloc.h` 564 says that the cache is disabled.

### Bounds

- `QuickServer`: `RoomToReplace` is the only bound in a guard: a client connects only while
  enough contexts are free to replace every accept that is being replaced, since the model
  has no failing allocation. `stops` counts to the number of workers because `qs_stop`
  posts that many packets. A context whose operations were lost stays allocated, as in
  the code.
- `IdleCheck`: `Ages` end at `TickModulus`, where an age cannot be told from a younger one.
  Modulus 6 with timeout 2 lets the clock wrap during a comparison, and an idle time
  exceed the modulus. One handle for two connections makes every reuse happen.
- `ServerLifecycle`: `MaxStarts` bounds the storages, `MaxStartups` the calls of `WSAStartup`
  that nothing undoes, `MaxClients` the clients. `MaxWaitObjects` is 2, 64 in Windows: what
  matters is that the number of workers can be on either side of it.
- `ListenAddress`: `MaxChunks`; the pieces are such that five of them make every documented
  form, with a number out of range and one token too many.
- `ThreadCache`: `waited` stops at `FreesModulus`. Three blocks make a list with a middle.
- `AllocatorPool`: `MaxThreads` mspaces and `MaxCaches` caches are limits of the code, set to
  2; `Mspaces` has one more, for a thread that makes an mspace and finds the pool full.
- `Mspace`: `Memory` and `MaxBlocks`. In five granules segments of one or two come about
  in any order, touching or apart. Two blocks, with what `internal_realloc` has yet to
  free, lie on either side of every kind of free chunk, and every path of every
  operation is taken. The first segment begins at address 0, so memory directly below
  that one segment is never mapped; below the others it is. Sizes are in words; the
  constants keep the order of those of the code.

Deadlock is not checked in the runs of `QuickServer`: a server whose workers have exited,
or whose only connections are stuck, does stop. Nor in `lifecycle`, where a `qs_stop` called
from a callback waits for itself and broken memory ends the behaviour; in `idle`, where a
timer whose period is zero fires once; in `listen`, which ends with the longest texts;
and in `block_size`. In the others it is checked.

The symmetry of workers and contexts, of blocks, and of threads and mspaces is used in
`two_accepts`, `thread_cache` and `pool`, which have no liveness property.

### Fairness

- Workers: weak fairness of each thread's steps, because threads are scheduled and
  callbacks return. Strong fairness of entering the critical section: it is taken for
  short times only (an add or a delete, or a walk twice per idle timeout), although
  Windows does not promise an order.
- System: an operation that can complete does; except an accept, for which a client has
  to come.
- Client: it makes the call its turn calls for, as `qs_lib_test.cpp` does.
- Walks end. Nothing makes a walk start, a peer close, or anybody stop the server.
- `storage`: a thread inside an operation goes on. No thread is forced to enter.
- `idle`: time passes, a timer that is due fires, and of the threads in a callback one that
  can go on does. Nothing makes a worker or a client do anything.
- `lifecycle`: a `qs_stop` in progress goes on when it can, the timer's callback does, and
  some worker does. Of the workers that wait for `cs` one gets it, and of those that wait
  for a packet one gets a packet of `qs_stop`, if there is a chance again and again
  (strong fairness): the port gives its packets out in order, while clients may keep the
  workers busy for any time. Workers are taken together: no single one is promised
  anything.

## Proofs

`ConnectionStorageProofs`, for any `Threads`, `Connections` and `Size > 0`, from
`SizeAssumption`, `GarbageAssumption` and `ThreadAssumption`:

- `Invariance`: `IInv` is inductive. `NoDanglingPointer` alone is not: it says nothing of
  a thread halfway through a delete. `IInv` adds `Exclusion` (the owner of `cs` is the
  one thread that is inside), `ArgumentsOK` (the connection of an add is not yet live,
  that of a delete is being deleted) and `ProgressOK` (what is known of the array at
  each control point: after a scan of `k` cells none of them holds the connection;
  between the decrement and the move, cell `i` holds it and cell `count` is still in
  use). The steps are grouped by operation: `EnterIInv`, `AddIInv`, `DeleteReturnIInv`,
  `ScanIInv`, `FullIInv`, `TraverseIInv`.
- `TypeCorrect`, `StoredOnce`, `NothingDangles`, `TraversalReachesAll`: the invariants of
  the run `storage`.
- `Refinement`: the array implements `ConnectionSet`. `CountIsCardinality` turns
  `NoDuplicates` into a bijection from `1..count` to the set, so that the test on `count`
  is a test on the set (`FullIsExact` says so of `connection_storage_is_full`); `AddRefines` and `DeleteRefines` map the last step of each
  operation to the atomic one, `Stutter` the others to none.

`QuickServerProofs`, for any workers, contexts, number of accepts, capacity, client that
calls in turn, and faults, from the assumptions of `QuickServer`:

- `Invariance`: `IInv` is inductive. Its core is ownership: every packet in the port,
  pending operation, worker and client that refers to a context refers to an allocated
  one (`QueueOK`, `PendingOK`, `WorkersOK`, `ClientOK`), whose tag agrees with the packet
  or operation (`PacketOK`), and no two of them refer to the same one (`SoleHolder`).
  Neither half is inductive without the other: freeing a context is safe because its
  worker is the sole holder, and the tag stays true because only the sole holder writes
  it. `StoreOK` keeps the storage inside the allocated contexts, which needs that a
  context about to be freed has left the storage and that a delete finds no walk.
  `AcceptsOK` says where `accepts = max_accepts`.
- `TypeCorrect` (among others, `--accepts` at line 742 does not go below zero),
  `MemorySafety`, `ExclusiveUse`, `DispatchesTruly`, `RefillIsDead`: the properties
  `TypeOK`, `NoUseAfterFree`, `SoleHolder`, `TagTruthful`, `DisconnectNeverRefills`.
- `SocketsCounted`: `SocketsAccounted`, from `IInv` and `SocketsOK`. The count is the
  cardinality of `opened`, and what is allocated and not open is on its way through
  lines 731-732 with one worker; the ownership in `IInv` says that it is only one.
- `StorageUse` and `ClientView`: the refinements `UsesStorageProperly` and
  `FollowsLifecycle`. A worker decides once, by the tag, whether it begins or ends a
  connection, and acts on it several steps later. `DecidedOK` (theorem `Decided`) says that
  the tag still agrees with the decision; without it a step of one context may look
  like a step of the other kind. `NextContracts` maps each step to one of the contract
  or none, for all contexts at once; `LiveKept` and `ViewKept` say which steps cannot be
  seen at all.
- `PoolNeverGrows`: the action property `AcceptPoolNeverGrows`. It counts two sets, the
  contexts with an outstanding accept and the workers that owe one. `PoolOK` says that
  they are finite and that a worker owes at most one, so that an accept it posts is paid
  for (`PoolPaid`, `PoolTaken`, with the arithmetic in `PoolSizes`).

`IdleCheckProofs`, for any connections, handles, timer threads, modulus, timeout below it
and lateness:

- `IInv` is inductive. `JustifiedShutdown` is about a difference of ticks, so the
  invariant says what the ticks are differences of: `StampOK` (`last_activity` is `age`
  ticks ago, modulo `TickModulus`) and `ReadOK` (the same for the clock as it was read,
  unless a worker wrote since). The lemmas `ElapsedSince`, `NextTick` and `ElapsedZero` are
  the arithmetic of a clock that wraps. `WalkOK` (one thread walks, over connections that
  stay in the storage) and `HandleOK` (an open socket has its handle for itself) are for
  the action property.
- `Justified` and `HitsVisited`: `JustifiedShutdown` and `ShutdownHitsVisited`;
  `TypeCorrect`.

`ServerLifecycleProofs`, for any workers, counts of them, limits and misuse:

- `IInv` is inductive. `CallOK` says which call can be in progress and what it finds,
  `ThreadsOK` which threads exist at each point of a call (after the wait of line 537 none,
  unless `overfull`), `ExitsOK` and `CallerOK` that a worker exits only for a stop, and not
  while it is the one that stops, `TimerOK` what a callback of the timer has read.
- `Outlived`, `LateTimer`, `BlindCry`, `Works`: the invariants of the run `lifecycle`.
  Proved without a run: `FoundServer` (a thread finds the parameters, the storage and the
  listener it reads, whenever it starts to run) and `SelfStop` (a `qs_stop` called from
  the callback of a worker never gets past line 537).
- `Refinement`: `ServesOnce`. `StepServer` maps every step to one of `ServerContract` or none.

`LockFreeProofs` is about what threads share without a lock, with the `Parameters` of each
model as hypothesis:

- The spin lock, for any number of threads and depth. `IInv` says what `l`, `c` and `threadid`
  tell of the thread that has the lock (`LTells`, `CountOK`, `OwnerOK`), and `DepthOK` what each
  control point knows. It gives `MutualExclusion`, `OwnerCleared` (an assertion of the code),
  `Recursion` (the owner never waits for itself, although it reads `threadid` without a lock)
  and `Refinement` to `RecursiveLock`.
- The recognition of blocks, for any number of threads, mspaces and sizes: `AbortNeedsRace`
  (the allocator rejects a block of its own only after a write that overwrote another
  thread's) and `Widens`, from `UpToDate`: until such a write, what a thread tested is still
  the value when it writes.

`AllocatorPoolProofs`, for any number of threads, mspaces and entries of `m` and `caches`:

- `IInv` is inductive. None of the three parts of `PoolConsistent` is so alone, since a
  thread reads `threads`, `m` and its own cache without a lock and uses what it read later.
  `InitOK` says what holds before and after `threads` is set (the first mspace is in `m`
  first), `MspaceOK` which mspaces exist for what a thread has read, `TempOK` that an
  mspace which is made and not yet in `m` is one thread's, `CacheOK` that a cache in a
  thread's value is that thread's, `MutexOK` who holds the mutex. `Accounted` counts the
  entries that are taken, the threads that hold one, and those lost with a thread.
- A step of one thread must leave alone what the others know: `OthersKept` and `StepIInv`
  say it once, from `m` only being filled and `caches` only being changed by the owner or
  under the mutex, and the lemma of each action has only its own thread to look at.
- `TypeCorrect`, `AllocatesLocked` and `Consistent`: `TypeOK`, `LockedForUse`, `PoolConsistent`.
- `PoolNeverJams`: `NeverJammed`, from `Owners`, an invariant on top of `IInv`: a lock that is
  taken has an owner who is between taking and releasing it. The owner of an mspace waits
  for nothing; if no mspace is locked, the owner of the mutex goes on; if nobody has that, the
  owner of the global lock does. `MovesKeep` says once what a step may do to the locks.

`ThreadCacheProofs`, for any finite set of blocks and any bins and limits, from the
assumptions of `ThreadCache`. `PowerAssumption` is there for the provers, which know
nothing of `^`; TLC evaluates it. The invariant has layers, each proved from those before:

- `IInv` (theorem `Invariance`): the places and sizes of the blocks, and `Links`, in which the lists
  are described link by link: `next` and `prev` are inverse, stay in one bin, and end where
  `head` and `tail` say. This has no recursion and is inductive; `TakeLinks`,
  `RemoveLinks` and `PutLinks` are the pointer assignments at either end. It gives `FitsRequest`
  (`LargeEnough`) and `ListsLinked`.
- `SpaceCounted` (theorem `SpaceIsCounted`): `freeInCache` is `Total(size, Cached)`, a sum over a finite
  set. `SumsExist`, `SumsAgree` and `SumsSplit` show that such a sum exists, does not depend
  on the order, and can be split at any element.
- `HasLists`: there is a sequence for each bin that a walk along `next` from `head` follows.
  `Path` describes it without recursion, `AlongPath` says that the recursive function
  `Along` of the model returns it, from either end. It gives `Consistent`
  (`CacheConsistent`) and `Refinement` (`ImplementsBins`): a block that is put or taken at
  an end of the list is put or taken at that end of the sequence.
- `Ages`: until the counter has wrapped, the difference of line 1177 is the true age; blocks are
  ever older along `next`; only one is new. `PassOK`: a pass of `RemoveCacheEntries` leaves
  behind nothing that is as old as asked. `BoundOK`: what `ReleaseFreeInCache` leaves. A bin
  is *guarded* when its oldest block has waited until the counter wrapped: the pass does not see
  behind it, which is the exception that `AgeingWorks` names and the reason why `PassOK`
  and `BoundOK` leave guarded bins out. With these, `Ageing` is `AgeingWorks`.
- The induction that all this takes (on the size of a set, on the length of a list) is
  done without the induction theorems of the library, which have an operator as parameter:
  `LeastNatural` takes the least element of a set of counterexamples.

`MspaceProofs`, for any memory, granularity, sizes and requests, from the assumptions of
`Mspace`: sizes of chunks are what the code pads them to, and a granule has room for the
`malloc_state`, the end of a segment and a chunk large enough for a tree. The proof has
three layers:

- `Heap` is what chunks, segments and `top` have to do with each other. It says more
  than `CheckedState`. *Geometry*: headers lie apart, each in a segment, and a chunk is
  followed by another one, or ends its segment as `top` or as the last fencepost does.
  *Tags*, forward and back: a cleared `pinuse` leads by `prev_foot` to the chunk before,
  which is free; without the way back, `mspace_free` could join a chunk with anything.
  *TopOK* and *RecordsOK*: `top` is in the segment whose record is in the `malloc_state`; behind
  the record of any other there are only fenceposts. That is why a segment whose first
  chunk is free and reaches its end (`Unused`) holds nothing else, and can be unmapped.
- `Heap` changes in few ways: a chunk is taken, vacated or cut, joined with the one behind or
  before it or with `top`; `top` is cut or shifted, its segment grows or shrinks (`MovingFoot`);
  a segment is prepended, added or released. Each way is a predicate on headers before and
  after (`Taking`, `Vacating`, `Cutting`, `Absorbing`, `JoiningBack`, `CuttingTop`, `Prepending`,
  `Adding`, `Releasing`, ...), and a lemma (`Take`, `Vacate`, ...) says that a heap stays a
  heap and which chunks are then used and which free. A path of an operation is a chain of
  them; the headers that the chain passes through are those of no state.
- `IInv` adds `Roles` (a free chunk is in a bin, or is `dv`) and `Blocks` (a used chunk is
  one block of the program, which it fits, or a remainder of `internal_realloc`). There is a
  lemma for each path of `Next`.

`Invariance` is `Spec => []IInv`. From it follow `TypeCorrect`, `HeapChecked` (`CheckedState`),
`NoChunkLeaks` (`NothingLeaks`), `HeapImplemented` (`ImplementsHeap`: what `Malloc` hands out was
free or not mapped, and what is unmapped was nobody's) and `SystemAskedLast`
(`SystemIsLast`: which chunks the three searches pass over).

Only model-checked: liveness (`CriticalSectionReleased`, `ClosedPeerReaped`,
`StopTerminates`, `IdleReaped`, `StopReturns`) and `OnlyLocksStop`, which need fairness or
`ENABLED` and are outside what the prover does; and `ListenAddress`
(`DocumentedAccepted`, `AcceptedNamesItsStart`, `FamilyMatches`), whose octets are masked with an
operator that the proof system does not have. Every other property of a run that is
expected to pass is proved for all values of the constants. `SpinLock` has no run of its
own: it is only proved, as are the theorems above that are said to be.

The operators named as faulty variants in the modules (for example
`StorageDeleteUnlocked`) are plausible mistakes in the code; substituted for the
definition they vary, each breaks the property that `PROJECT.json` pairs it with. No
action uses them.

## Not modelled

- In `qs_lib.cpp`: formatting and output (`cry`, `sockaddr_to_string`; the report of line 722
  has a `%s` without an argument, which is undefined, just before its thread ends), socket
  options (no control flow depends on them; the overlapped `WSAIoctl` of `set_keep_alive`, line
  694, completes at once, on a socket that is not yet associated with the port, and posts
  no packet), `DllMain` (does nothing), allocations of the library that
  fail (it writes through the null pointer before it tests it, 221-222). A client that uses
  a connection from two threads at once, or after on_disconnect, is outside the contract.
- In `nedmalloc.c`: pools of the program's own, user values, the statistics, aligned and
  indexed allocation, the adapters to other allocators and the debug build's logs and
  checks. The server library calls `nedmalloc`, `nedcalloc`, `nedfree` and
  `neddisablethreadcache` alone; `ThreadCache` has `nedprealloc2` as well.
- In `malloc.c.h`: the trees inside the large bins (a set here: a search returns a chunk of
  the best size), blocks that are mapped directly (from `mmap_threshold` on),
  `internal_memalign`, `ialloc`, `mallinfo` and `mallopt`, MORECORE, footers, a system that is
  out of memory. A realloc that has to move is a malloc and a free. About half of the
  file is the configuration for other systems, its documentation, and the same functions
  once more for a global heap that this build does not use.
- The allocator benchmark, which is no part of the server. Its directory holds copies of
  `malloc.c.h`, `nedmalloc.c` and `nedmalloc.h` that are the same byte for byte; the modules
  name the lines of those in `qs_lib`. That, and the files' headers full of options, is why
  the definitions stand for a small share of the lines of the repository, although for
  most of the lines of `qs_lib.cpp`.

What would be next: the trees of `malloc.c.h` as a module of its own under `Mspace`, shown
to find a chunk of the best size as the set of the bins does; and footers, with which the
mspace of a block is found.
