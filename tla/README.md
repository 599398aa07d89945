# VoltNet in TLA+

A formal model of the VoltNet library (`src/volt_net`), its model checks and
its proofs. VoltNet sends whole messages over TCP connections with Boost.Asio:
a message is a byte vector with escape framing, a `network` owns the
connections and a pool of io threads, and an application exchanges messages
with it through writers, readers and callbacks.

Paths below are relative to `src/volt_net/src/volt/net/` and
`src/volt_net/include/volt/net/`.

## 1. The system

| Component | State | Operations | Talks to |
|---|---|---|---|
| `net_con` (`net_con.cpp`) | socket, `con_open`, read buffer with `current_index`, `next_is_escape`, `recv_msg`, two callbacks | `send_msg`, `handle_write`, `schedule_read_handler`, `handle_read`, `close_con` | the kernel through Asio handlers on `recv_strand` and `send_strand`; `network` through the callbacks `add_connection` installs |
| framing (`net_serialize.hpp`, `volt_net_defs.hpp`) | none | `write_byte`, `end_msg`, undone by `handle_read` | the message buffers |
| `msg_pool` | stack of buffers, `mut` | `get_message`, `return_message` (a `shared_ptr` deleter) | everybody that holds a `message_ptr` |
| `msg_rec_pool` | queue of messages, queue of ids, `mut`, `defer_msg_signal` | `submit_message`, `notify_listeners` | called by io threads under `connections_mut`; calls the application |
| `network` | `running`, `connections` under a recursive `connections_mut`, `next_id`, threads, callbacks | `server_connect`, `start_listening`, `add_connection`, `get_con`, `close`, `~network`, `process_new_msgs` | owns all of the above |
| `listener` | two acceptors, `listener_open` | `accept_v4`, `accept_v6`, `close_listener` | calls `network::add_connection` |
| serialization (`serialization_ext.cpp`) | a message and an iterator | `write_into`, `read_into` | `msg_writer`, `msg_reader` |
| `AsyncStateHandler` | one atomic | `SetState`, `GetState` | `server_connect` and its caller |

### What is hard here

* Every io thread, the application's thread and `~network` may close the same
  connection. `close_con` tests and sets its flag in two steps, and then runs a
  callback that takes a mutex and destroys a connection.
* Handlers hold a raw `this`, and a connection is destroyed by its own closed
  callback, inside its own `close_con`.
* TCP cuts writes and reads anywhere, an escape sequence may be split between
  two reads, and the reader's state lives across calls of `handle_read`.
* `async_write` is a composed operation: several may be in flight on a socket.
* Two queues in `msg_rec_pool` must stay in step, and one is looked at without
  the mutex.
* Two mutexes are taken in an order that depends on the thread, with user code
  running under one of them.
* The accept handlers run for ever, on errors and on closed acceptors too,
  bound to a raw `this`, while another thread constructs, closes and destroys
  the listener.
* Several threads take connection ids without a lock, and ids wrap.
* `server_connect` reports through an atomic that its caller polls.
* Members are destroyed in an order that only works if everything was closed
  before: `connections_mut` before `connections`, an `io_context` before the
  last socket that uses it.
* A message buffer passes through two `shared_ptr` lives with two deleters.

`PROJECT.json` lists each hazard with its line under `hazards`.

### What makes each component correct

* connection: what is received is what was sent, whole, in order, once, and
  until somebody closes nothing is forgotten;
* `msg_pool`: a buffer has one holder or several that know of each other, is
  never used after it was freed, is given out empty, is not leaked;
* `msg_rec_pool`: a FIFO queue of messages with their ids, no pop of an empty
  queue, no deadlock, no two callbacks at once;
* `network`: the list holds live connections, a connection that has gone leaves
  it, nothing is destroyed in use, shutdown ends;
* `listener`: while it says it is open it accepts, whatever errors it meets; no
  handler outlives it, and no acceptor is cancelled twice;
* `server_connect`: its status settles, and `Connected` means listed;
* serialization: what is read is what was written.

## 2. The modules

| Module | Models | Notes |
|---|---|---|
| `MessageLayer` | what one direction of a connection promises | abstract specification |
| `NetCon` | framing, `send_msg`, the writes, the kernel's stream, `handle_read`, `close_con` | implements `MessageLayer` |
| `NetConInv` | the inductive invariant of `NetCon` | used by the proofs |
| `NetCon_proofs` | theorems about `NetCon` | checked by TLAPS |
| `MCNetCon` | constants, and an application that sends complete messages | |
| `MsgPool`, `MCMsgPool`, `MsgPool_proofs` | `msg_pool.cpp` and the `shared_ptr`s it hands out | buffers and owners are symmetric; proved |
| `MessageQueue` | what the received-message queue promises | abstract specification |
| `MsgRecPool`, `MsgRecPool_proofs` | `msg_rec_pool.cpp`, the message lambda of `add_connection`, `process_new_msgs` | implements `MessageQueue`; proved |
| `MessagePath`, `MessagePath_proofs` | the whole way of a message: one `MessageLayer` for each connection, joined to `MsgRecPool` | composes the two; the promise to an application; proved |
| `RecursiveMutex` | `std::recursive_mutex` | instantiated by `MsgRecPool` and `Network` |
| `Network`, `Network_proofs` | connections made, listed, closed and destroyed by all threads | one action per step that other threads can see; proved |
| `MCNetwork`, `MCNetwork_proofs` | ways of using a network, as restrictions of its environment | the safe ones are proved to be safe |
| `Listener` | `listener.cpp`: constructor, accept loops, `close_listener` | actions only, composed by `Admission` |
| `Admission`, `Admission_proofs` | how connections come in: the accept lambda, `server_connect` with its status, `get_next_id`, `get_con`, against `~network` | composes `Listener` with the network; proved |
| `Serialization`, `MCSerialization`, `Serialization_proofs` | `write_into` and `read_into` | proved, floats excepted |

Names of variables and actions are those of the source wherever they can be.
Operators whose comment begins with "Mutant" are faulty variants of the
definition below them. Each names a plausible bug, and a property that would
find it (`mutants` in `PROJECT.json`); no specification uses them.

### NetCon

One direction of one connection. The sender composes `msg` byte by byte
(`write_byte` doubles 255, `end_msg` appends 255 0), and `send_msg` starts an
`async_write` on whatever `msg` holds. `async_write` is modelled as Asio
implements it: an `async_write_some` in the socket's queue (`write_ops`), a
completion on `send_strand`, and either the next `async_write_some`, behind the
others, or `handle_write`. The kernel is the sequence `stream`. `WriteSome`
takes any part of the operation at the head, and `handle_read(n)` hands over
any part of what is there.

`handle_read` is a loop of three steps (`get_next_byte`, the branch on the
byte, the loop condition), because `close_con` on another thread may come
between any two of them. Its place is `read_state`.

`sent`, `payload` and `layout` are history. `layout` has one entry for each
encoded byte with what a correct reader knows after that byte; nothing in the
code reads it, and it is what the invariant compares with.

### MsgPool

`owns[o]` is the buffer that place `o` refers to: a `msg_writer`, the bound
argument of a `handle_write`, `recv_msg`, a queue entry, a `msg_reader`.
`heap[b]` tells which of the two deleters the control block of a buffer has:
buffers from `get_message` return to the pool once, and when they leave it
their deleter is plain `delete`. A deleter that still has to take `mut` is a
member of `returning`.

### MsgRecPool

A connection is a thread (its handlers are serialised by `recv_strand`) that
takes `connections_mut`, submits, and releases it. `submit_message` pushes on
two queues in two steps under `mut`. The application's thread looks at
`rec_msg_vec` without `mut`, then pops both, then calls back outside `mut`; its
callback may reply, which takes `connections_mut`, and it may call
`process_new_msgs` while it holds `connections_mut` itself. Whether the network
defers (`defer_received_msgs`) is chosen in `Init`.

`MessagePath` adds the peers. Each connection has an instance of `MessageLayer`
whose `delivered` is the count `received` of `MsgRecPool`, so that one step is
both the `Deliver` of the layer and the `message_end` of the pool. As `NetCon`
implements `MessageLayer`, what the run shows of this composition holds of the
bytes as well: `PeerOrder` and `Arrives` are the promise of the library from
one application to the other. `MessagePath` has all behaviours of `MsgRecPool`,
since any number of messages may have been sent. A message carries its number
on its connection; nothing in the code looks at a payload.

### Network

`pc[t]` is where thread `t` is; the reading handler of connection `c` is the
thread `c`. `target[t]` is the connection it works on. `close_con` is split at
each access to shared state: load, store, cancel, close, call, guard, test of
`running`, erase, unlock. When messages are not deferred, the application's
callback runs inside `handle_read` with the guard, and may itself close a
connection (`callback_close_con`).

`erase` models the code as it is: the search runs over the empty range from
`begin()` to `begin()` (`network.cpp:75-77`) and the first connection goes.
When that one is open, its destructor closes it inside `vector::erase`
(`erase_open`).

Some orders of these steps are undefined behaviour or end the process. The
model has one action for each, which records it in `fault`, and nothing
follows. So `Spec` covers all that can be done up to the first such step, and
`NoFault` is checked of the uses that are safe.

`MCNetwork` states uses as restrictions of the environment. In all of them a
peer stays until `add_connection` has returned (`PeersStay`). In `UsesSpec` the
application calls `network::close` before it closes a connection, itself or in
a message callback, and no connection comes in when it drops its reference
(`ClosesFirst`). A *client* has one connection at a time, and its peer leaves
at any moment, also during `~network`. In a *shutdown* there are any number of
connections, and peers leave once `running` is false, as they do in
`client_server`, where `~network` closes one end of a connection and so makes
the other end's read fail. One more assumption is about the scheduler:
`OneCloses`, that no two threads are at once between the test of `con_open` and
its store in a `close_con` of one connection. Without it `NetworkExit` finds a
fault, so `UsesSpec` tells what is safe but for that race: the behaviours of a
`close_con` that tests and clears the flag in one step.

### Listener and Admission

`l_pc` is where the thread that owns `net_listener` is: the lines of the
constructor, `close_listener`, `~listener`. `accept_pc[a]` is where the loop of
acceptor `a` is. The constructor sets `listener_open` last and does not
initialise it, so it begins with either value. An accept on a closed acceptor
fails and is armed again, until the io threads stop.

In `Admission` an accept handler that has called back, and the handler that
`server_connect` posts, go on as a thread of `Adders`. They lock the `weak_ptr`,
take an id by `load` and `compare_exchange_weak`, and push under the guard; the
listener takes the guard before the id, `server_connect` after it. `refs` is
who holds a `shared_ptr`, and `~network` runs when the application drops the
last one. A connection is its id and its place in the order of all connections
ever made (`nr`). It leaves the list in one step here, and the application does
not drop its reference during an add: both are in `Network`. A posted handler
that is inside `resolve` or `connect` (`connecting`) goes on when the io_context
is stopped, sets its status, and `~network` joins it; one that has not started
by then never does.

### Serialization

A scalar is the sequence of its bytes, most significant first. The writing host
has either byte order, the reading host is little-endian. A float is written
with the four bytes that follow it in memory (`serialization_ext.cpp:112`).
Hosts whose floating-point types are not IEC 559 write and read nothing for
them (`is_iec559`), which shifts every field behind when only one of the two
hosts is such. `read_into` has no check of bounds: where the code would use
bytes behind the end of the message, the model records `overrun` and reads no
further.
The value of a field is a sequence of elements: one for a scalar, a number
known from the type for `std::array` and `std::pair`, or as many as the size in
front says. Strings and vectors are appended to what the destination holds.

## 3. The runs

| Run | Question | Bounds | Result |
|---|---|---|---|
| `NetCon` | Does a connection carry messages, and all of them? | bytes 0, 7, 255; reads of 1 or 2 bytes; one write in flight; a writer stops at 4 encoded bytes or one above | holds, 224 thousand states |
| `NetConInterleaved` | ... with two complete messages in flight? | two writes, 5 encoded bytes | `InOrder` is violated |
| `NetConSendFailure` | Is a failed send reported? | 3 encoded bytes | `SendFailureIsReported` is violated |
| `MsgPool` | Is a buffer in one place, empty, freed once? | 4 buffers, 3 places, `max_messages` 1 | holds, 1020 states up to symmetry |
| `MsgRecPool` (of `MessagePath`) | Does an application get what its peers sent, without deadlock? | 2 connections with 2 messages each, 1 application thread, deferring or not | holds, 136 thousand states; deadlock is checked |
| `Network` | What holds of the list whatever the threads do? | 2 connections, 2 adding threads, the application's thread | holds, 1.9 million states |
| `NetworkUses` | Are a client and an orderly shutdown safe and live? | 2 connections, 1 adding thread; the application closes connections in its own thread and in callbacks of the first connection (`Closers`), and in a shutdown the peer of the second one leaves (`Leaving`) | holds, 23 thousand states |
| `NetworkServer` | Does a closed connection remove itself? | 2 connections, 1 adding thread | `RemovesOnlyThis` is violated |
| `NetworkExit` | Can `~network` meet a connection that is closing? | the same | `NoSockException` is violated |
| `Admission` | Do connections come in, with ids of their own, until the network ends? | 2 acceptors, 1 `server_connect`, 3 connections, 2 ids | holds, 46 thousand states |
| `Serialization` | Is what is read what was written? | messages of up to 3 of 11 fields, among them arrays of 0, 2, 3 and 258 elements, read into arrays of 0 and 2; hosts with and without IEC 559 | holds, 86 thousand states |
| `SerializationFloat` | ... floats too? | 2 fields | `RoundTrip` is violated |

Why the bounds are enough. `NetCon`: four encoded bytes and one above hold two
messages, one of them empty, or one message with an escaped byte; with reads of
at most two bytes every framing sequence is met whole and cut in two, before
and after other bytes. The theorems of section 5 cover every bound for the
safety properties of every passing run, and for most of its action properties;
what follows is why the instances show the rest, and why they are good enough
to find a mistake before one tries to prove it. `MsgPool`: four buffers are more than three places and a
pool of two can use up, and each buffer can go through both lives several
times. `MsgRecPool`: two messages of each connection are enough for a queue in
which messages of one connection surround one of the other. `Network`: the
hazards are between pairs (two closers of one connection, a closed connection
and another one in the list, the last reference and an add), and two
connections with two adding threads, the application and two read handlers give
all of them. `NetworkUses`: `Closers` and `Leaving` are there for the liveness
properties, whose check grows faster than the states; one connection is closed
by its peer and the application, the other by the application and `~network`.
`NoFault` alone holds without these two bounds (76 thousand states, 7 seconds)
and is proved for every value of them. `Admission`: all three threads that add can be at work at once, each with
its connection, and ids wrap within three, so that `GetConFinds` is met with a
pair that shares an id rightly and would be broken by one that shares it
wrongly. `Serialization`: every kind of field, next to every other; 258
elements reach the second byte of the size.

Runs set `CHECK_DEADLOCK FALSE` where the system may stop: all connections
closed, all bytes written, the network destroyed, a fault. In `MsgRecPool`
nothing may stop, so it is checked there.

### Disagreements between code and documentation

The five runs with a violation each check what the repository says:

1. `NetConInterleaved`: `send_msg` may be called while an earlier write is in
   flight (`net_con.cpp:150`), as `client_server` does ten times in a row. If
   the kernel takes the first buffer in parts, its rest is queued behind the
   second message. The peer's application receives a mixture. TCP does not
   do this to small messages until its buffer is full.
2. `NetConSendFailure`: `send_msg` documents a result; it has none, and a
   failing write throws on an io thread (`net_con.cpp:164`).
3. `NetworkServer`: the closed callback removes the first connection of the
   list whichever has closed (`network.cpp:76`).
4. `NetworkExit`: `close_con` may run twice at once (`net_con.cpp:26-30`), and
   the second `cancel()` throws on a closed socket. The application closes no
   connection in this run. It needs a peer to leave at the moment of shutdown; a process that has both ends of a connection in one
   network, like `client_server`, makes its own peers leave.
5. `SerializationFloat`: a float is written with the size of a double.

## 4. Fairness

* `NetCon`: weak fairness of each handler and of the kernel. The io threads run
  every ready handler, and TCP moves the bytes it has accepted. The application
  is not made to write, send or close, so `Delivery` begins with a message that
  was handed to `send_msg` and ends with delivery or a close.
* `MessagePath`: strong fairness of each handler and of the notifying thread, as
  a mutex that is free again and again is won in the end. That a connection
  delivers what was sent while it is open is `Delivery` of `NetCon`. The application calls
  `process_new_msgs` again and again, as the loops of the tests do, and does
  not keep the guard for ever. No message has to come.
* `Network`: strong fairness of `close_con`, of an add that has begun and of
  `~network`, for the same reason. A peer that has closed has finitely many
  bytes left to be read, so the error that follows them is read in the end.
  New connections, closes and the drop of references are free. `OneCloses`
  delays a thread at the test of `con_open` until another has passed its store,
  which fairness makes it do.
* `Admission`: each thread is scheduled, one that tries for the guard again and
  again gets it, `resolve` and `connect` return, and `compare_exchange_weak` does
  not fail for ever. Peers need not connect, and a listener need not be started.

## 5. The proofs

Every safety invariant, action property and refinement that a passing run
checks is a theorem as well, for every value of the constants. The constants'
assumptions say no more than that threads, connections and the markers `Free`,
`Main` and `NoBuffer` are different things, that bounds are natural numbers,
and that bytes and sizes are what the types of the code make them. Where a
theorem needs more, its statement says so (`OneOutstanding`, `OneNotifier`,
`NoFloats`), and each of these is needed: without it the property is false.

| Module | Theorems | Inductive invariant |
|---|---|---|
| `NetCon_proofs` | `TypeCorrect`, `Invariant`, `MessagesInOrder`, `PartsArePrefixes`, `EscapesAreKnown`, `Refinement` | `IInv` (in `NetConInv`) |
| `MsgPool_proofs` | `PoolTypeCorrect`, `BuffersInOnePlace`, `BuffersReachable`, `PoolBounded`, `GetsEmpty` | `PoolInv` |
| `MsgRecPool_proofs` | `RecTypeCorrect`, `QueuesSameSize`, `CallbacksExclude`, `PopsHaveMessage`, `QueueRefines` | `RecInv`; `LineInv` for the last two |
| `MessagePath_proofs` | `PathRefines`, `MessagesInOrder` | `PathInv` |
| `Network_proofs` | `NetworkTypeCorrect`, `ListIsLive`, `NoLockAfterDestruction`, `SocketsCloseFirst`, `ClosedNetworkErasesNothing` | `NetInv` |
| `MCNetwork_proofs` | `UsesAreSafe` | `UseInv` on top of `NetInv` |
| `Admission_proofs` | `AdmissionTypeCorrect`, `ListeningLasts`, `AcceptorsCloseOnce`, `HandlersEndFirst`, `IdsFindConnections`, `ConnectedAfterListed` | `AdmissionInv` |
| `Serialization_proofs` | `ReadsUpToFirstFloat`, `ReadsWhatWasWritten`, `ReaderStaysInside` | `MessageInv` |

### The connection

The theorems hold for every set of bytes that contains the framing bytes, every
`BuffSize`, and every bound. `TypeCorrect` needs no more; the others assume
`OneOutstanding` (`MaxOutstanding <= 1`). `NetConInterleaved` shows that
`InOrder` fails without it. They say what an application gains by waiting for
`handle_write` before it sends again, or by a kernel buffer that always takes
whole messages.

`InOrder` alone says nothing of the bytes on their way. `IInv`
says that they are the bytes of `layout` in order (`StreamOK` and `SenderOK`:
the stream, then the rest of the write in flight, then `msg`), that `layout` is
well formed (`LayoutOK`: each entry follows from the one before by one of the
four things a byte can be), and that the reader's variables are those of the
entry it handled last (`DecodeOK`). Then each byte the reader handles is
judged by comparing one branch of `handle_read` with one disjunct of `StepOK`,
and a delivery is the entry at which `msgs` grows.

`RewindOK` is there because no line of `handle_read` sets `current_index`: a
read starts at the beginning of its buffer only because `get_next_byte` rewound
it when the last one ended. The loop can also end in `is_open()` without the
rewind, and then only the second `is_open()` (`net_con.cpp:133`) keeps a read
with a stale index from being armed. `DecodeOK` needs the exception for a byte
that had been fetched when the connection was closed, which is also why
`MessageLayer` has a "closing" state with one more delivery.

### The pools

`OnePlace` is not inductive: a pooled buffer whose control block still had the
first deleter would be returned, and pooled, a second time. `Lives` adds what
each place knows of its buffers: those in the pool are in their second life and
empty, those about to be returned in their first, and a thread in the middle of
`get_message` holds nothing.

`RecInv` ties both mutexes to the places of the threads and says by how much
the two queues differ: by one, while a connection is between its two pushes.
`SameSize` and `OneCallback` follow, for any number of threads. `PopHasMessage`
and the refinement need `OneNotifier`, that one thread at most calls
`process_new_msgs`: `notify_listeners` looks at the queue without `mut`, and of
two threads that both see the last message one pops an empty queue. `Line` is
the refinement in one formula: the messages handed out, then the one in the
notifier's hand, then the queue, then the one a connection is pushing, are
those submitted, in order and each with its id.

`MessagePath` first: it is a restriction of `MsgRecPool` (`PathRefines`), so
everything above holds of it. `PathInv` then counts. The message that a
connection submits carries the number of the messages of this connection that
were submitted, itself included, and what was handed out is the beginning of
what was submitted. So the k-th message handed out under an id is the k-th of
that peer, and it has been sent. `PeerOrder` therefore counts with
`Cardinality` and not with `SelectSeq`, whose definition recursion puts out of
the provers' reach.

### The network

`NetInv` holds for any number of connections and io threads, with closes,
adds, message callbacks and the destruction in any order, up to the first
undefined step. Its parts are named for what they relate: threads to their
code (`PcInv`), to the guard and its depth (`GuardInv`), to references
(`RefInv`: `~network` runs on one thread, when there is no reference), to
connections (`MakeInv`, `SockInv`), the loop of `~network` to the list
(`LoopInv`: what it has passed is closed, or it is closing it), and the join to
the handlers (`JoinInv`). `EraseInv` is the part one does not expect: a closed
callback tests `running` and erases in two steps, and nothing is erased from
under the loop of `~network` only because the callback keeps `connections_mut`
between them, and `network::close` or the loop have to take it.

`UsesAreSafe` says that `UsesSpec` (section 2) takes no undefined or fatal
step, for every number of connections and io threads, whatever the threads that
close and the peers that leave. Its assumptions are those of `UsesSpec`, and no
document of the library states them; `OneCloses` is the one an application
cannot meet by itself. So the theorem says of `close_con` that the race of
`NetworkExit` is all that is wrong with it in these uses.

`UseInv` has one part for each reason why nothing goes wrong. A thread that
closes a connection holds the guard or is that connection's handler
(`CloserInv`), and one at a time is past the test of `con_open` (`OneInv`), so
`cancel()` meets an open socket. A connection that is closed was listed, so its
callback is set (`PeerInv`). What erases is the handler of the client's only
connection (`RunInv`, `ClientInv`), so the first of the list is the right one
and it is closed; in a shutdown nothing closes before `running` is false
(`ShutInv`). And a destroyed connection has either been erased by its own
handler, which holds the guard and returns, while no other thread has begun to
close it, or went with the network after the join (`DestroyedInv`).

### How connections come in

`AdmissionInv` relates the constructor and `close_listener` to the two accept
loops (`PhaseInv`), `~network` to both (`ShutdownInv`), and an id to the
number of its connection: `next_id` is the number of connections made, cut to
the width, although several threads take ids at once, because
`compare_exchange_weak` succeeds for one of those that loaded the same value.
`GetConFinds` is then arithmetic: two connections with one id are as far apart
as there are ids (`SameIdApart`). `RoomInv` is about the model's own bound
`MaxCons`: there is room for every thread that has begun to make a connection.
A bound of zero would not leave it, so `AdmissionAssumption` excludes it.

### Serialization

A field lies in the message at an offset that the sizes of the fields before it
decide. `MessageInv` says that there are such offsets (`Layout(off)`), that the
bytes of every field written lie behind the offset of the field before, and
that the reader is at the end of what it has read. They are existentially
quantified: a sum of sizes would be a recursion, and what it computes could not
be proved. The lemmas below it are about the operators:
`ReverseTwice` for the two byte orders, `ElementwiseBytes` for where the bytes
of an element go, `WordNumber` for the size in front, `Shifts` and `Stays`
for fields in a longer message. `ReadsUpToFirstFloat` has no assumption on the
fields: up to the first float, or the first double that one of the hosts skips,
everything is read as it was written. `ReadsWhatWasWritten` and
`ReaderStaysInside` assume that no field is a float (`SerializationFloat` shows
why), and are about messages that both hosts carry. Arrays have fewer than 2^32
elements (`FitsSize`). That the reader stays inside the message is not in the
guard of `read_into`: `overrun` is excluded because the size in front of an
array, the sizes of the elements and what the writer appended agree.

### Conventions, and what is only model-checked

`Network` writes `[f EXCEPT ![a] = x]` with one clause only: `tlapm` 1.4.5
takes the two places in `[f EXCEPT ![a] = x, ![b] = y]` for different ones. No
definition that a theorem rests on has two. Each inductive invariant was
checked by TLC on the instances of section 3, or smaller ones, before it was
proved.

Liveness is only model-checked, since TLAPS has no support for fairness and
ENABLED: `Delivery`, `Arrives`, `GoneIsDestroyed`, `StatusSettles`,
`ShutdownEnds`, and with `Arrives` that there is no deadlock.
The disagreements of section 3 are counterexamples, which TLC shows.

## 6. Not modelled

* The callbacks for new and closed connections. Setting either is undefined
  behaviour with any order of steps: one is passed `*con` after `con` has been
  moved from, the other captures a parameter that is gone (`network.cpp:72,85`).
* Big-endian readers: `net_to_host_endian` leaves the destination unwritten.
* Pairs of two types and the variadic overloads of `write_into` and `read_into`
  (they do not compile), and elements that are themselves arrays.
* A socket or an acceptor that several threads use at once: Asio's objects are
  not made for that, and the models take each call as one step.
* References to the `io_context`: a `server_connect` handler that is still
  queued when the network stops holds one in its own queue, so that neither is
  destroyed (`network.cpp:162`).
* Writing to a message after it was handed to `send_msg`: an obligation of the
  application, as is setting `new_msg_callback` before connecting.
* A socket accepted before the constructor of the listener has set
  `listener_open`: `Listener` drops it when the flag happens to be false, as the
  code does. No text promises that it is kept, so no property speaks of it.
* The event types: nothing raises them. Build files.
* `con_id` wraps at 65536, in `Admission` at 2; in `Network` it does not wrap.
* Two threads in `process_new_msgs`: the second would pop an empty queue, as
  TLC shows with a second member of `Apps`. One notifying thread is taken as
  the application's obligation.
* Uses of a network outside `UsesSpec` and `ServerSpec` are in the `Network`
  run up to their first undefined step. It reaches every value of `fault` but
  `mutex_destroyed`: a peer that leaves before the closed callback is set
  (`bad_function_call`), the last reference on an io thread (`self_join`), a
  callback that closes its own connection or another thread that does so while
  the network runs (`use_after_free`). No text of the repository allows or
  forbids these uses, so no property speaks of them.

## 7. Plan

Done: the connection, the pool, the received-message queue, the way of a
message from one application to the other, the life of connections, how they
come in, serialization; each with its runs, and the proofs of section 5.

Next, in this order:

1. `NetCon` and `MessagePath` in one specification, so that `Refinement` and
   `MessagesInOrder` give one theorem from bytes to application. So far they
   meet in `MessageLayer`.
2. The safe uses of a network in more generality: any use in which the
   connection that closes is the first of the list when its callback erases.
