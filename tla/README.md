# Verification of sockpuppet

sockpuppet is a C++ library of UDP, TCP and TLS sockets. On top of blocking
sockets it has buffered ones, which receive into the buffers of a pool, and
asynchronous ones, which are attached to a `Driver`: an event loop around
`poll()` that also executes scheduled tasks (`ToDo`). These are TLA+ models of
its stateful parts, the TLC runs that check them and TLAPS proofs about them.

## The system

| Component | State | Operations | What makes it correct |
|---|---|---|---|
| Driver handshake (`driver_impl`) | `stepMtx`, `pauseMtx`, signalling pipe, `shouldStop` | `Step`, `Run`, `Stop`, `StepGuard`, `PauseGuard`, `~DriverImpl` | one thread at a time in what `stepMtx` guards; a blocking step yields to a client; no lost wake-up, no lost stop |
| Registry (`driver_impl`) | `sockets`, `pfds` | `AsyncRegister`, `AsyncUnregister`, `AsyncWantSend`, `QuerySockets`, `DoOneSocketTask` | the two vectors stay aligned; nothing is used after it was unregistered; every ready socket is served |
| ToDo scheduler (`todo_impl`, `StepTodos`) | sorted list of ToDos, a deadline per step | `Insert`, `Remove`, `Move`, `StepTodos` | tasks run when due, in order, not after being cancelled; poll sleeps neither too long nor for ever |
| Send side (`socket_async_impl`) | `sendQ`, promises, POLLOUT of the pollfd | `Send`, `SendTo`, `DriverOnWritable`, `DriverDisconnect`, destructor | queue and POLLOUT agree; messages whole and in order; promises settled once and truthfully |
| Receive side (`socket_async_impl`, `socket_buffered_impl`) | handlers, a pool | `DriverReceive`, `DriverReceiveFrom`, `DriverConnect` | one handler per event, no event after the disconnect |
| Buffer pool (`socket_buffered`) | idle stack, busy list, limit | `Get`, `Recycle`, destructor | every buffer in one list and one hand; the limit |
| Blocking and buffered sockets (`socket_impl`, `socket_buffered_impl`, `wait`) | a descriptor, a pool | `Send`, `SendTo`, `Receive`, `ReceiveFrom`, `Listen` with timeouts | partial sends accounted for; deadlines kept; buffers returned |
| TLS sockets (`socket_tls_impl`) | last error, readable and writable flags, remaining time, pending send | `Read`, `Write`, `BioRead`, `BioWrite`, `DriverQuery`, `DriverPending`, `Shutdown` | the handshake progresses in either direction; what is cut off is retried; POLLOUT is suppressed and restored in time |
| Guards (`ssl_guard`, `winsock_guard`) and what they guard | instance counts, descriptors, sessions | constructors, destructors | the library is initialised wherever it is called; nothing leaks |
| Addresses (`address_impl`) | a list of `addrinfo` | parsing of URIs, hosts and ports, printing, choice of an entry | a text is the address that was meant, and what is printed is understood again |
| Interface enumeration, error codes | none | wrappers of system calls | not modelled |

They interact by calls and callbacks. Clients' threads call into the driver
through a `PauseGuard`; the driver's thread calls handlers and tasks, which may
call into the driver again (`stepMtx` is recursive). A socket's queue has a mutex
of its own, `sendQMtx`, which the sender releases before it asks for `stepMtx`.
Buffers travel from the pool through handlers and queues on any thread.

What is hard is in `PROJECT.json` under `hazards`, each at its line: the
handshake of two mutexes and a datagram, the two halves of the send side that
are guarded by different mutexes, tasks that change the list being iterated,
timeouts that pass while tasks run, calls that are cut off between two parts, a
TLS handshake that must read to write and write to read, constructors that fail
halfway on several threads, and integers at their limits.

## Modules

| Module | Models | Run by |
|---|---|---|
| `Contract` | abstract: a client's operation on the driver happens at one instant, between steps, and every request is answered | property of `Driver` |
| `Driver` | the handshake, lock by lock and datagram by datagram | `MCDriver` |
| `Driver_proofs` | its invariants and the refinement of `Contract` | TLAPS |
| `SendQueue` | senders, queue, POLLOUT, partial writes, disconnect, over the driver taken by its contract | `MCSendQueue` |
| `SendQueue_proofs` | its invariants, and the order of what is sent | TLAPS |
| `Agenda` | abstract: what ToDos promise | property of `Scheduler` |
| `Scheduler` | the sorted list, one call of `StepTodos` task by task, deadlines, the int of poll | `MCScheduler` |
| `Scheduler_proofs` | the order of the list, the refinement of `Agenda`, how long poll sleeps | TLAPS |
| `Registry` | sockets and acceptors of a driver, from opening to destruction: the vectors, poll, who is served, what is received | `MCRegistry` |
| `Registry_proofs` | its invariants | TLAPS |
| `BufferPool` | the pool and the hands that hold its buffers | `MCBufferPool` |
| `Transfer` | abstract: what a blocking call promises | property of `SocketIo` |
| `SocketIo` | one thread's calls with and without timeout on a plain or buffered socket or an acceptor, with the kernel and the peer | `MCSocketIo` |
| `SocketIo_proofs` | deadlines, buffers and the refinement of `Transfer` | TLAPS |
| `Tls` | two TLS sockets at the ends of a connection, each used by a driver or by blocking calls | `MCTls` |
| `Tls_proofs` | its invariants | TLAPS |
| `Lifetime` | construction, failure and destruction of addresses and sockets, and the guards they hold | `MCLifetime` |
| `Lifetime_proofs` | its invariants | TLAPS |
| `Uri` | addresses as text | `MCUri` |
| `Basics_proofs` | what `BufferPool` and `Uri` keep, which use no other part: every buffer in one place and the limit; texts and addresses | TLAPS |

The composition follows the mutexes. What `stepMtx` guards is abstracted to a
set of registrations in `Driver`, which shows that clients' operations are atomic
and fall between steps (`ImplementsContract`). `SendQueue`, `Scheduler` and
`Registry` build on exactly that: there, an operation that takes a `PauseGuard` is one step,
enabled while the driver is outside a step or in a callback, and the driver lets
it in at last (`RequestsAnswered`). `Tls` takes registration and poll from
`Registry` as they are and has two drivers with a socket each. `SocketIo` has no
driver: blocking sockets are independent of it. `Lifetime` cuts the other way,
through all kinds of sockets, and has only their construction and destruction.

### Driver

A thread's `pc` names the statement it is about to execute; every lock, unlock,
`sendto` on the pipe, `recvfrom` and access to `shouldStop` is a step of its own.
`StepLock` to `StepPauseUnlock` is one `Step()`, the `run...` labels are `Run()`.
`TryLock`, `TryLockFails`, `PauseLock`, `PauseBump`, `WaitStep`, `PauseUnlock`,
`Critical`, `Release` are a client in a `PauseGuard`. `shouldStop` starts
arbitrary, as the member has no initialiser, and the pipe drops datagrams beyond
`PipeCap`, as a full UDP receive buffer does. `MayDestroy` says whether the
destructor may run. Bounds: three calls in a behaviour (`MaxCalls`); three clients
are enough for one to hold `stepMtx` after a successful `try_lock`, one to wait in
the handshake and one behind it on `pauseMtx`; a pipe of one datagram overflows.

- `MutualExclusion`: what `stepMtx` guards is used by one thread, on either path
  through `PauseGuard`, and the handshake by one client at a time.
- `NoLostWakeup`: a client that blocks on `stepMtx` in the handshake has a
  datagram in the pipe, or the Stepper is where it cannot go to sleep. This is
  what the second mutex is for: `~StepGuard` must not pass `pauseMtx` while the
  handshake is on (mutant `StepUnlockOnly`).
- `StopWakes`: `Run()` does not sleep over a set flag.
- `PollSetCurrent`: the set a blocking poll watches is the registered set.
- `DestroyOutsideStep`: the destructor completes outside the part of a step that
  uses tasks and sockets.
- `ImplementsContract`: refinement of `Contract`.
- `NeverStuck`: while a client is inside a call, some thread inside a call can move,
  although the two guards take the two mutexes in opposite orders and the poll keeps
  `stepMtx`. It counts on no socket and no timeout. If `~StepGuard` kept `stepMtx`
  until it has been through `pauseMtx` (mutant `StepUnlockLate`), both would wait.
- Liveness: `RequestsAnswered`, `RunReturns`.

Fairness: a thread that can move does (weak); `MutexFairness`, strong fairness
of locking `pauseMtx`, says that a mutex released again and again is granted at
last, which no C++ standard promises but schedulers do. No fairness on calls,
on sockets becoming ready, on timeouts or on failures: the wake-up must come from
the datagram alone.

### SendQueue

Every critical section of `sendQMtx` is one step, those of `stepMtx` too, by the
contract. `Send` is `DoSend` to the point where `stepMtx` is needed, `WantSend`
the rest. On the driver's side `driver = "clear"` is the point between
`DriverOnWritable`, which has released `sendQMtx`, and the clearing of POLLOUT:
a sender may refill the queue there. The kernel takes what fits of a TCP message
(`Portions`). `stream` says which alternative of the variant `sendQ` the socket
has. Messages have two units and the kernel's buffer holds two, so that a message
is sent whole or in part, and finds the buffer full; three messages of two senders
and a handler refill the queue in every phase. Of a behaviour after a failed
assertion nothing is modelled (`aborted`): hence `CHECK_DEADLOCK FALSE`.

`ArmedIffQueued` is the invariant that keeps the two halves together: a queue
that holds something is watched by poll or about to be, by one sender only; an
empty one is neither. From it follow `NoUncalledSend` and, with fairness of
driver, peer and contract, `EverySendSettles` (while the connection lasts; after
a disconnect the queue waits for the destructor). `WireInOrder` accounts for
every byte, `PromiseHonest` and `SettledOnce` are about futures.

### Scheduler

Time is in ticks, `TicksPerMs` to the millisecond. One `Step()` goes from "out"
through "todos" (`StepTodos` at the head of its loop) and "task" to "poll". Time
passes at any point, also between the reading of the clock and the poll: that
delay is what `NeverOversleeps` and `StepWithinTimeout` allow for. `order` is an
auxiliary variable: the scheduled ToDos in the order in which they were scheduled.
`Agenda` knows nothing of a sorted list: it lets the task run that has been due
longest and, of equals, was scheduled first. Bounds: three tasks, for one to run
while it shifts or cancels its neighbours; a clock of three ticks (`MaxTime`), two
to the millisecond, so that tasks end before, at and after a timeout of one
millisecond, and up to a whole millisecond late, which is what makes a negative rest
of it visible; ToDos scheduled for any time up to two (`MaxWhen`), the past included;
eight bits for the int of poll, where nothing overflows (what happens where it does is
under "Known limits"). Fairness: the driver steps again, tasks return, time passes; not
that sockets become ready.

A task may shift itself, or another, to a time that is already due, which it also is if
it runs for longer than the delay it asks for. `StepTodosEnds` is therefore stated of a
step with a timeout, limited or zero: once its time is up (`TimeEnds`: before the clock
of the model stops), the loop ends with the task that runs, whatever is due by then. Of
a step without a timeout it is not true, and not claimed: see "Known limits".

### Registry

`sockets` and `pfds` are the two vectors, changed separately by descriptor as
`AsyncUnregister` does; the pipe's pollfd, always the first, is left out. An
object goes through `stage`: "open" (it has a descriptor), "live" (registered),
"disconnected" (unregistered and told so, the descriptor still open), "dying" (the
destructor's body has run), "dead" (the descriptor is closed). The system gives a
free descriptor to whatever is opened next. An acceptor is registered before it
listens (`Listen`, the rest of its constructor): poll reports POLLHUP of it until then,
which is served as an error and discarded (`Fails`, `Discard`). `Poll` copies what is ready to
`revents`, and arrivals, departures, dropped buffers, opened and closed
descriptors come between it and `Serve`, which handles the first ready object
only. In a handler the user may register, send and destroy, the object that is
served included. `HandlerThrows` is a receive handler that ends with a
`runtime_error`, which `DriverReceive` takes for a failure of the receive: the
socket is disconnected. A handler that has destroyed its own socket must not throw.
Bounds: one object of each kind and two descriptors, so that a
third object needs one that was closed; two arrivals and two sends in all, so that
two objects are ready at once and a queue is longer than one; one receive buffer
each, which runs out.

- `Aligned`: the assertions of `QuerySockets` and `DoOneSocketTask`.
- `LiveIffRegistered`: exactly the live objects are polled. It depends on the
  descriptor staying open until destruction: if the disconnect closed it (mutant
  `HasFdUntilDisconnect`), the destructor would unregister another socket.
- `NeverUnhandled`: "unhandled poll event" is never thrown.
- `RequestsMatch`: every POLLOUT is that of the socket that asked for it.
- `ArrivalsServed`, `LeavingNoticed`: the ready socket at the end of the vector is
  served in the end, although the first one only is served per step. Both except
  `AcceptorSpins`: `accept` fails for want of a descriptor, which is discarded, the
  acceptor stays ready and those behind it starve until a descriptor is closed.

Fairness: the driver steps and looks at the sockets again and again (calls of
clients, which end a poll without service, are finitely many), handlers and
constructors return, the user releases buffers. Traffic is finite by the bounds: a socket that is always
ready does starve those behind it.

### BufferPool

`Get` and `Recycle` hold the pool's mutex and are steps. A smart pointer may be
moved to another holder (`Hand`) and dropped by it. `maxCount` is the
constructor's argument, chosen among `Limits`; `Limit` is the member, one less
modulo `2^Bits`. `Buffers` bounds an unlimited pool: four buffers are more than
the greatest limit. `Partition`: every buffer is in one list and one hand.
`LimitExact`: a pool throws exactly when `maxCount` buffers are lent; one without
limit, whose member wraps around, never. The pool may end: `CHECK_DEADLOCK FALSE`.

### SocketIo

One thread makes any sequence of calls on one socket, plain or buffered. `pc` is
"wait" before `WaitReadable` or `WaitWritable`, "poll" in it, "now" before the one
system call that follows; `SendAll`, `SendTry` and `SendSome` are one loop that goes
on or not (`GoesOn`). `wire` holds the positions of the units that passed, a unit
being a byte of a stream or a whole datagram or connection. Kernel and peer fill and
drain the buffers, drop datagrams and give up connections between any two steps
(`Vanish`: what poll has announced is gone, and the call fails rather than blocks),
close and reset. Time passes in poll (`slept`) and outside it, so that a deadline may
be over at any statement. A buffered TCP socket takes its buffer before it waits, a
UDP one after; the smart pointer returns it whichever way the call ends (`Drop`).

- `TimeoutKept`: all sleeps of a call together are not longer than its timeout, and
  a call that comes back short has waited it out, up to the millisecond that
  `Remaining` truncates.
- `BuffersReturned`: no buffer is lost to a call that timed out or threw.
- `ImplementsTransfer`: refinement of `Transfer`, which knows no polls, parts or
  clocks: units pass in order, none left out or twice; the number reported is the
  number passed; a call without timeout returns only when it is complete; one that
  throws has received nothing. `refused` (out of buffers) is a throw there.
- `CallsReturn`: calls with a timeout end by themselves, sends without one as the peer
  reads. Fairness: the thread runs, time passes, what was sent leaves.

Bounds: sizes 0, 1 and 3 against kernel buffers of 2, so that a call needs parts;
timeouts none, zero, one and two milliseconds of two ticks; an int of four bits,
which holds them; five ticks outside poll (`MaxTime`), more than the longest timeout;
two receive buffers, of which the user may keep any.

### Tls

Two ends of a connection that holds `Cap` units in each direction. The engine is
OpenSSL's part and external: flights of known sizes in turn, then records. `sock`
has the members of `SocketTlsImpl` and the state of the loop of `Read` or `Write`;
`pc = "ssl"` is inside OpenSSL, where each step is one `BioRead` or `BioWrite`
(`Flush`, `Hear`, `WriteRecord`, `ReadRecord`) and may give up for want of time or
data (`GiveUp`); "entry" and "error" are the two places of `HandleLastError` and
`HandleError`. An "async" end steps from `Query` (`DriverQuery`) over "poll" to
`OnReadable`, `OnWritable`, `OnPending` or `OnIdle`; a "sync" end makes any blocking
calls, repeating a send that was cut off as `socket_tls_impl.h` demands. An end that
`DriverPending` has made throw "unexpected receive" is `failed`.

- `FlagsTrue`: `isReadable` and `isWritable`, which the driver sets and a later call
  may use, are true when they are used, so that no read or write that must not wait
  would have to.
- `RecordsInOrder`: what is cut off and retried arrives once and in order, and what is
  reported as sent has left.
- `SuppressionHonest`: between steps a filled queue is polled for or is suppressed
  until the handshake ends, and poll does not spin on POLLOUT meanwhile.
- `EverythingArrives`: between two drivers all that is enqueued arrives, if the client
  sends anything at all. Fairness: the threads run. This is why the pairs with
  blocking ends have no such property: their users need not call.

Bounds: handshakes of three and of four flights, one of which does not fit into the
buffer; records of three units against a buffer of two; two records in each
direction; ten rounds of the loop (`StepsMax`), more than two records need. Two ends
with nothing left to do are the end of a behaviour, and so are blocking ends that
wait for each other without a timeout: `CHECK_DEADLOCK FALSE`.

### Lifetime

An object is a sequence of parts in the order of construction (`Plan`): guards,
descriptor, context, session, the calls that configure. Each is constructed and
destroyed by a thread of its own; a part that fails unwinds those before it, in
reverse. A guard's `UpdateInstanceCount` is two steps under its mutex, the counting
and what follows from it. An accepted descriptor belongs to nobody between `accept`
and the socket that adopts it. Until the socket has made its own guard, `accept()` and
the descriptor rely on those of the acceptor, which lives until `Accept` is over (`from`).
The address of the peer that `Accept` returns beside the socket has a guard too and
nothing else; it is left out, as the user may drop it first, and then the socket's own
guard may be the only one. The build is the one with WinSock and OpenSSL, where
both guards exist. `Initialised`: every call of a library, release included, is made
while it is up. `NothingLeaks`: no descriptor, session or count remains. Both allow for
`StartUpFails`, after which one instance stays counted. Bounds: an acceptor, a client
that outlives it and one object more, all of any kind; one failure of the start-up.
The threads are symmetric (`Anyone`).

### Uri

Texts are sequences of tokens; `getaddrinfo` is external, a table of hosts, for either
hint of a family, and of services. `UriDissect`, `ParseUri`, `ParseHostServ`, `ParsePort`
and `Find` are the functions of that name, the regular expressions by what they match:
`Words` are the tokens that `\w+` takes, `Digits` those of `\d+`; `-3` is a number for
`IsServiceNumeric`, and no port of a URI. `Printed` is `to_string` with its buffer of
`MaxHost + ...` tokens. What is given is each URI of `address.h` with a numeric port, each
pair and port, and whatever an address prints.

`Understood`: the address is the one meant, or an exception. There is one exception to
that: `service://host/path` with a service that is no word, as `http-alt` (`Unread`). The
code does not find a service there, takes `http-alt:` for the host and throws; what
`Understood` says of these texts is that they are refused if they are not understood,
never resolved to some other address. The table has IPv4 and IPv6 hosts, the longest that
fits, names with both and with IPv6 only, unknown ones, services with and without a
hyphen, ports from -3 to 65536 and paths with colons and slashes. `localhost` resolves to
IPv6 first, so that a port alone needs the hint for IPv4 (mutant `ParsePortUnspec`).

The constants have assumptions. Tokens are of one sort: names, numbers or punctuation
(`TokenAssumption`). Services have ports that can be written as numbers
(`ServiceAssumption`). Numeric hosts are told apart by their text, those of IPv4 have
no colons, all fit into `MaxHost`, which is what `getnameinfo` is given, none is
also a name, and none ends in a single colon or a signed number; `localhost` has
127.0.0.1 as its first address of IPv4 (`LiteralAssumption`). And a text that is given as
a host does not read as something else: it has no slash and no bracket, does not end in
one colon and digits as a port would, and is no word with a colon, which a path with two
slashes would make a scheme (`TextAssumption`). The code cannot tell such texts from what
they look like, and neither could a reader.

## Runs

| Run | Shows |
|---|---|
| `driver` | invariants, liveness and the refinement of `Contract`: three clients, a destructor, a pipe of one datagram |
| `driver_stop_claim` | violated: a `Stop()` between the call of `Run()` and its first statement is forgotten |
| `sendqueue` | invariants, action properties and liveness, TCP and UDP |
| `sendqueue_claim` | violated: `AsyncWantSend` of a socket that was unregistered meanwhile |
| `scheduler` | invariants, liveness and the refinement of `Agenda` |
| `registry` | invariants and liveness of registration, poll and service |
| `bufferpool` | the pool, unlimited and limited |
| `socketio` | invariants, liveness and the refinement of `Transfer`, for TCP, UDP and acceptors |
| `tls` | invariants and liveness of handshake and records, between drivers, threads and one of each |
| `tls_claim` | violated: a blocking send without timeout of more records than the loop has rounds is cut short |
| `lifetime` | guards and resources under every order of construction, failure and destruction |
| `uri` | addresses from text and back |

Deadlock is not checked where a behaviour may be over: when a driver, a pool or all
objects are gone, or calls and traffic are at their bounds (`driver`, `registry`,
`sendqueue`, `bufferpool`, `tls`). That nobody waits for ever is what the liveness
properties say there, and `NeverStuck`.

Every property of a passing run has a mutant: a variant of one action or operator
with a plausible mistake, defined next to the original and marked as such, under
which TLC finds the property violated.

The violated claims are what comments of the code promise and the code does not
do; `findings` in `PROJECT.json` quotes them.

## Known limits of the code

Met while modelling; the models include them, or assume that users avoid them.

- Driver: the destructor waits for the end of a step, not for the return of `Step()`
  or `Run()`, whose `~StepGuard` then uses a mutex that is gone
  (`driver_impl.cpp:97`); the user has to join the thread.
- Poll: `ToMsec` wraps for timeouts of 2^31 ms and more (`wait.cpp:33`), which then
  poll for ever or return at once. `IntBits` is large enough in the runs, so that no
  property sees it; the theorems about poll have it as a hypothesis.
- ToDos: `Step()` and `Run()` without a timeout execute what is due until nothing is
  (`driver_impl.cpp:123`). Tasks that shift themselves and, together, run for as long as
  their delay, or that shift to a time which has passed, are due again at the next
  `Tick` (`:139`), and `TimeLeft()` never ends the loop: sockets are not served, and
  `Stop()` is not seen until then. `StepTodosEnds` is about steps with a timeout.
- Receiving: a TCP socket whose pool has no buffer left is told of a disconnect
  (`socket_async_impl.cpp:143`), and so is one whose receive handler throws (`:149`);
  the latter after it has destroyed its socket is a use after free. `Registry` has the
  first two as they are, as ways to be disconnected, and no property objects to them.
- Start-up: if `WSAStartup` fails, the instance stays counted, and no later guard
  starts the library (`winsock_guard.cpp:21`). `Initialised` and `NothingLeaks` count it in.
- Accept: a `bad_alloc` between `accept()` and the socket that adopts the descriptor
  (`socket_impl.cpp:239`) loses it. `Lifetime` has no `bad_alloc`.
- TLS (`socket_tls_impl.cpp`): more than ten records in one call (`tls_claim`). A
  blocking receive after a send that timed out waits until the socket is writable,
  whatever has arrived. The view in `pendingSend` is compared after the driver may have
  erased what it points to. `DriverPending` throws on user data behind a flight that had
  been blocked. An asynchronous client that never sends never starts the handshake. A
  receive buffer smaller than a record leaves the rest in the engine, where poll does
  not see it; in the model buffers hold a record.
- Addresses: a service with a hyphen is not understood in `service://host/path`
  (`address_impl.cpp:40` against `address.h:16`): `Unread`. `address.h` documents `host:service/path` with a named service, but the
  code takes digits only, and `service://` with nothing after it is a host; a numeric
  scheme is not checked for its range. `Uri` gives none of the latter three.

## Proofs

Every safety invariant and action property that a run checks is proved, and so are the
three refinements. All theorems are for every number of threads, objects, messages,
sizes, timeouts, buffers and texts, from the named assumptions on the constants: bounds
are natural numbers, `Stepper` is not a client, names of sockets are not names of the
driver's states, the flights of a handshake are not empty, and what is said under "Uri" of
tokens, services and hosts. Four theorems have a hypothesis beside these, on the width
of an int. Each proof goes the same way: an inductive invariant, one lemma per action that keeps
it, and the properties as its consequences.

- `Driver_proofs`. The invariant that carries the proof is `TypeOK`, `LocksOwned`
  (who owns each mutex, given where every thread is) and the handshake's own
  conjuncts. `Exclusion` follows from `LocksOwned`. `WakeupCorrect` needs, beside
  it, that the Stepper between `stepUnlock` and `pauseUnlock` cannot pass a client
  that holds `pauseMtx`. `DeadlockFree` looks for the thread that can move: the owner of
  `stepMtx` (`StepMtxMoves`), or the owner of `pauseMtx`, whom at most the owner of
  `stepMtx` keeps waiting (`PauseMtxMoves`); if that is the Stepper in poll while a
  client waits, `NoLostWakeup` gives it a datagram. `Implements` maps every step to a step of `Contract` or
  a stutter, which needs `Exclusion` to show that `Critical` falls between steps.
- `SendQueue_proofs`. `ArmedIffQueued` is inductive with `TypeOK`: `Send` uses
  that an empty queue has nobody about to arm it, `ClearPollOut` that a queue
  refilled meanwhile has. `NeverUncalled` is a consequence. `PromiseCorrect` needs
  that no message is queued twice. `WireCorrect` rests on `WireInv`: the messages
  on the wire and then those in the queue are in the order of acceptance (`InOrder`),
  only the queue's front may be sent in part (`OnlyFrontPartial`), and the wire has as
  many units of a message as the message has lost (`UnitsKept`).
- `Scheduler_proofs`. `Orderly` is inductive: `todos` and `order`, the order of
  scheduling, hold the same ToDos, each once, and `todos` is sorted by time and, for
  equal times, by `order`. What the searches of `Insert` and `Move` find is
  characterised by where the times are greater, which a sorted list has at its end.
  `AgendaImplemented` maps each step to one of `Agenda` or a stutter: the front of such
  a list is the ToDo that `Agenda` would run. `NoOversleep` and `TimeoutKept` rest on
  `Punctual`, which adds what a deadline leaves, and have the hypothesis `IntSuffices`:
  every duration that occurs, in milliseconds, fits into the int of poll. The code does
  not see to that (`ToMsec` under "Known limits").
- `Registry_proofs`. The vectors are searched by descriptor, so everything rests on
  `Descriptors`: objects that have one have different ones, however the system hands out
  closed ones again. With it a search finds the object's own entries or, if it was
  unregistered before, none (`EraseOwn`). `EventsHandled` needs `Reported`: what poll has
  reported stays true until it is served, though sockets may do as they like meanwhile.
- `Basics_proofs`, buffers. `Partition` is inductive with `TypeOK`; the proof uses it
  element by element (`Elementwise`). `LimitCorrect` adds `Counted`: a limited pool is
  as large as its limit in every state, an unlimited one has never refused; the size_t
  that wraps around is an argument about remainders.
- `SocketIo_proofs`. `Sound` is inductive: beside types and `BuffersReturned`, which
  is `BuffersCorrect`, it says what has passed in a call that is under way
  (`Progress`: units 1 to the size less the rest, or none of a receive) and what poll's
  word is worth (`KindKept`). `Implements` maps every step to one of `Transfer` or a
  stutter; `PollLimited` shows that only a call with a timeout comes back from poll
  empty. `TimeoutCorrect` rests on `Timed`: what a call has slept and what poll may
  still sleep fit in the timeout, and each wait lasts to within the millisecond that
  `Remaining` truncates (`Granted`, an argument about division). The last two have
  the hypothesis `TimeoutsFit`, that the int of poll holds the timeouts; see `ToMsec`
  under "Known limits".
- `Tls_proofs`. The steps fall into nine classes by what they do to an end and to the
  wires; each action is shown to be of one, each class to keep `Safe`. `Control` is
  what a call is about and what the driver polls for; `SuppressionCorrect` follows from
  it. `FlagsTrue` is inductive with the types: an end is the only one that reads its
  wire and the only one that fills the peer's, and each of its reads and writes takes
  back the flag. `RecordsCorrect` needs `Stream`. `Shaking`: before the handshake is over
  exactly one end speaks, the other is one flight behind and the wire of the one that
  speaks is empty, which is why a timeout in any place loses nothing. `Streaming`: a
  wire holds what is left of a flight, then units of records, each numbered by its place among all
  that ever were sent (`Numbered`), as many as were counted and have not arrived.
- `Lifetime_proofs`. `Sound` is inductive: the count that a library has followed is the
  number of its guards and of start-ups that failed (`Exact`), from which the library is
  up while there are guards; who holds a mutex has counted itself (`Counting`); and each
  resource is that of a part that is made (`Owners`). A plan makes its guards before what
  calls the library, which is where the order of members in the classes matters. What is
  accepted comes before its guard: there `Accepting` says that the acceptor is alive, and
  has its own.
- `Basics_proofs`, addresses. `UriInv` says of what has been given that parsing it will
  be right, and of what has been made that it is (`Right`): the list fits what is meant
  (`Fits`), and its host is a numeric one and its port can be written (`Writable`). The
  second half is there for `GivePrinted`: an address that is made is printed, and what is
  printed must parse to it again. The lemmas go along the code. `EntriesFit` and
  `ListStands` say that each entry of `getaddrinfo`'s list for the first address is before
  those for the next, so that the first entry of either protocol stands for the same host.
  `SchemeFound`, `NoScheme` and `HostPartIs` find the one place where a scheme or a host
  ends. `PlainDissected`, `BracketedDissected` and `HostDissected` are the three cases of
  `UriDissect`; `PrintedIs` is what is left in `to_string`'s buffer when host and service
  have been moved together, which needs that the longest host does not reach the bracket
  and the service behind it.

Model-checked only: liveness and fairness, which are beyond the prover.

## Not modelled, and the plan

Not modelled: interface enumeration, error codes and the effect of socket options,
which wrap system calls without state of their own; comparison, order and hash of
socket addresses, which are bytewise; the exchange of `Shutdown` in a destructor and
TLS connections that break, of which the engine's behaviour would be more guess than
translation; the examples.

Left to do: `Shutdown` of TLS sockets, if its behaviour can be had from the code alone.
