# A verification project for edp.io

edp.io is a small event driven framework in C: a pool of worker threads runs
prioritised events, emitters bind events to handlers, an epoll monitor turns
the readiness of descriptors into callbacks, and `edpnet` builds asynchronous
TCP sockets on the three. This directory holds TLA+ models of those parts, the
TLC runs that check them on small instances and, for every safety invariant the
runs check and for the two refinements, proofs for every instance. Source lines
are given relative to the repository.

## 1. The system

| Part | State | Operations | Talks to |
|---|---|---|---|
| worker pool, `src/worker.c`, `posix/edp_sys.h` | per worker five queues with a lock and a pending counter each, a condition variable with a flag, a status; the shared `wd_round` | `__edp_dispatch`, the loop `worker_routine`, `worker_init`, `worker_fini` | runs the handlers of events; called from clients, handlers, done callbacks and the epoll thread |
| emitter, `src/emitter.c` | per emit a handler table, `ee_init`, the count `ee_pendings`; the list of emits | create, destroy, add and remove a handler, dispatch, the handler `emit_event_handler`, init, fini | dispatches to the pool |
| hash set, `src/hset.c` | buckets of circular lists; a registry of sets | add, del, get; create, destroy, init, fini | used by the monitor |
| linked lists, `include/list.h` | two pointers per node | add, delete, splice, walk | queues of the pool, buckets, list of emits |
| io monitor, `posix/eio-epoll.c` | the hash set of watched descriptors, `iod_round`, an epoll and a thread per io worker | `eio_addfd`, `eio_delfd`, the loop, init, fini | calls the owner of a descriptor back |
| sock, `posix/edpnet.c` | flags CONNECT, WRITE, READ, MONITOR; the current io, the queue of ios and its count; an emit | create, set, connect, write, read, destroy; four handlers | monitor, emitter, callbacks of the application |
| serv, `posix/edpnet.c` | a listening descriptor, a status | create, listen, destroy, accept in the epoll thread | monitor, callbacks |
| start and stop, `src/edp.c` | none of its own: the flags, locks and caches of the parts | `edp_init`, `edp_fini` | all |
| memory cache, logger | two counters; a socket | alloc, free; print | all |

What is hard in this code: the worker reads its counters, its status and
`wd_round` outside any lock; a signal may come before the wait, and the wait is
not in a loop; five sections jump between each other while the local list they
share is only partly served; emits and socks are freed by one thread while
events that point to them travel through others; the number of a closed
descriptor comes back; the epoll is edge triggered, so that a lost event stays
lost; one sock is handled by several workers at once; socks and servs are
created and destroyed from callbacks while the epoll thread reaches them through
the addresses of its last `epoll_wait`; and the parts are started and stopped in
an order that must hold for every failure on the way.

What makes each part correct: the pool runs every accepted event once, on its
worker, in the order of its class, and no worker sleeps on a filled queue; the
emitter frees no emit that an event points to and refuses to free one only for
such an event; the monitor never leads into a freed object and removes a
descriptor with its own object; a sock calls every io back exactly once, with
the truth, and announces data that came in; destroying an object that nothing
reaches leaves nothing that reaches it; and the system is up with everything it
needs, or down with nothing left. Where each of these can go wrong is
listed line by line under "hazards" in `PROJECT.json`.

## 2. The modules

| Module | Models | Uses |
|---|---|---|
| `EventPool` | what the pool promises: submit, start, finish, order within a class | |
| `EdpWorker` | `src/worker.c` with the condition variable | refines `EventPool` |
| `EdpWorkerProofs` | theorems about `EdpWorker`: types, wake-ups, counters, routing, start | `EdpWorker` |
| `EdpPoolProofs` | theorems about `EdpWorker`: one place, urgency, condition variables, draining, the refinement | `EdpWorkerProofs` |
| `EdpEmit`, `EdpEmitProofs` | `src/emitter.c` | `EventPool` as its pool |
| `ListHead` | the operations of `include/list.h` the repository calls | |
| `ListHeadProofs` | theorems about `ListHead` | `ListHead` |
| `FdMonitor` | what the monitor promises: a watched descriptor reports with an object that is allocated for it | |
| `EdpEio`, `EdpEioProofs` | `posix/eio-epoll.c` and the operations of `src/hset.c` | `ListHead`, refines `FdMonitor` |
| `EdpSock`, `EdpSockProofs` | what a sock of `posix/edpnet.c` does with data, and the kernel's end of its connection | `EventPool` as its pool |
| `EdpNet`, `EdpNetProofs` | the lives of socks and servs of `posix/edpnet.c`, with their emits, under all threads | `FdMonitor`, `EventPool` |
| `Edp`, `EdpProofs` | `src/edp.c` and the init and fini of every part | |
| `MC...` | kinds of events, reports, symmetry sets | the module of that name |

`EdpEmit`, `EdpSock` and `EdpNet` stand on the abstract pool, and `EdpNet` on
the abstract monitor: that is what the two refinements `Implements` are for. The
one of `EdpWorker` is proved for all classes and checked for HIGH and NORM; its
users only dispatch NORM events.

**EdpWorker.** `queue`, `pending`, `cv`, `status` are the fields of `worker_t`;
`local` is the list `events` of `worker_routine`; `pc`, `sec` and `chk` say
where the routine is: in which section, and which counter it is about to read.
A locked section is one action (`Enqueue`, `Splice`, `Signal`), and so is an
unlocked access that can meet another thread's: the read of each counter
(`Preempt`, `CheckNext`), the loop test, the stores of `wd_round` and the read
between them (`IncRound`, `LoadRound`, `ModRound`). The reads of `wd_round` before
its first store are one step (`RouteRound`): what could come between them changes
only which worker is taken. `dpc`, `dev`, `dcpu` and `dtmp` are
the calls of `__edp_dispatch` under way, by clients or from handlers and done
callbacks. `SplitRound` chooses the build: `wd_round++` and the modulo are two
stores without optimisation (`test/Makefile`) and may be one with it
(`posix/Makefile`). With two stores `wd_round` can be read before the modulo,
and the event then goes beyond the array; the model lets such a thread not come
back (`Stray`). `worker_init` is `start` and `sindex`: it creates a thread
(`StartThread`), waits for it (`StartDone`, `StartTimeout`), and undoes all of
it when one fails (`StartUndo`), while the threads that run already go on to
initialise their lists (`InitTls`) and to wait for events. What the cancel of a thread that was never created does is in
`Edp`. After `worker_fini` frees the array only the status of worker 0 may be overwritten,
which is the word the loop reads. `free` and `owed` are auxiliary.

**EdpEmit.** One action per access of `emit_dispatch`, `emit_event_handler` and
`emit_destroy`, because no lock covers them. `life` says whether the memory of
an emit is there. `Quiet`: the application does not dispatch to an emit while
it destroys it. `BadPriority` and `Removes` admit refused events and removed
handlers. `MaxPendings` bounds the count, which may leak.

**ListHead, EdpEio.** The lists of the monitor are stores of `next` and `prev` pointers, since
`hset_add` calls `list_add_tail` with its arguments exchanged and what that
leaves is a matter of pointers. The queues of the pool are sequences in `EdpWorker`;
the theorems about `ListHead` say why they may be. An owner opens a descriptor, adds it, is
refused or not, removes it and closes it; a sock is closed without
`eio_delfd`, because `edpnet_sock_destroy` clears the status that
`sock_fini` tests. `interest` is the kernel's side. `EpollFails` is the end of
an epoll thread.

**EdpSock.** `Connect`, `Answer`, `DataArrives`, `RoomAgain`, `PeerCloses` and
`Writes` describe the connection from outside; `edge` is the edge-triggered
ready mark. `hpc` is where a worker is in one of the four handlers, `cpc` where
a thread is in `edpnet_sock_write` or `edpnet_sock_read`; the callback of a direct
write (`incb`) writes and reads again. The cache may have no event at any time:
what the epoll thread had to report is dropped then (`EpollNoEvent`), and so is the
EPOLLOUT a write dispatches for itself (`WriteNoEvent`). `owed`, `result` and
`missed` are auxiliary: the ios that were given to `edpnet_sock_write` and not called
back, in the order of the calls; what the last write of an io returned; and that,
since `epoll_wait` last returned, an EPOLLIN was dropped or a `read` failed with data
left. The emit has its handlers and is not destroyed here.

**EdpNet.** A thread in a call of `edpnet` has a place `cpc` and an object
`cobj`: `socket`, `set`, `add` and `mark` on the way in, `close`, `emit` (the
test of `ee_pendings`), `kill`, `unemit` and `free` on the way out. The calls
come from a client, from the callbacks a worker runs and from the callbacks
`connected` and `close` on the epoll thread, and an object is in one call at a
time. `epc`, `batch` and `cur` are the loop of `eio_worker_routine`: what is left
of its last `epoll_wait`, and the entry it is in with the flags still to look at.
`obj`, `emit` and `fdof` say whose memory is there. Touching freed memory, a
failed `ASSERT`, and `close` or `epoll_ctl` on a number that is another object's
are actions of their own (`EntryFreed`, `FlagFreed`, `CountFreed`, `StartFreed`,
`CallbackFreed`, `ReturnFreed`, `EmitMissing`, `ServOut`, `DestroyNull`,
`Foreign`) that set `fault`, after which nothing moves; the properties say what
must have come before. `noisy` remembers the objects that were destroyed while
readiness or an event could still reach them, `refused` those whose `eio_addfd`
had failed. No sock has a write pending here (with one queued, `sock_fini`
fails its own `ASSERT` at 394).

**Edp.** `init` is the call `edp_init` makes next, `todo` the fini calls that
`edp_fini` or the labels `exit_net` to `exit_mcache` have still to make: one call
of a part is one step, between which the application, the workers and the epoll
thread go on. The state is the flag of every part and what it keeps: the two
socket states of the logger, the registry of hash sets with its lock, the array
of workers with `wd_thread_num` and `wd_round`, the list of emits, the monitor
with its thread (`polling`), the event cache with the events that are out.
`__edp_dispatch` is two steps, `Route` before the modulo and `Queue` from there on,
with the index in `cpu`; an event that keeps its worker is `DispatchKept`. The end
of an event is two steps as well: `Handle` takes it off `ee_pendings`
(`emitter.c:82`), from where its emit may be destroyed, and `EventDone` gives it
back (84); `late` counts the events of the network in between. A call that fails an
assertion or uses what does not exist sets `fault`, and nothing moves after it. Where
the code does what may or may not show, the program may go on or stop there:
`worker_fini` begins one past the end of its array (`WorkerFiniPastEnd`), and a
failed start cancels the handle of a thread that does not exist (`WorkerInitCancels`,
`EioInitCancels`). `leaks` collects what is lost: threads nobody joins, the epoll and
the buffer of a cancelled epoll thread, caches with objects out, the socket of a
logger that is initialised twice. `breach` remembers what the
application did against the order of calls: `again` (an `edp_init` of a running
system), `twice` (an `edp_fini` of a stopped one), `alive` (an `edp_fini` with
emits left), `early` (a use of the system that is not up). `torn` has the dispatches
that took a `wd_round` another one had not brought back, `raced` that
`edpnet_fini` came before a done callback.

## 3. The runs

| Run | Question | Result |
|---|---|---|
| `worker_sections` | Are wake-ups, counters, urgency and draining right when a client and handlers dispatch, waits wake spuriously and the pool is stopped? Are a failed start and a stop complete? | holds |
| `worker_pool` | With two workers and two clients, and threads that fail to start, is every event in one place and routed to a worker that exists and is initialised? Is a failed start undone? | holds |
| `worker_live` | Is every HIGH or NORM event run although a client and handlers dispatch, and does the pool implement `EventPool`? | holds |
| `worker_stop` | Does a stopped worker end? | violated |
| `emit_quiet` | Do count, life of an emit and `emit_fini` agree under disciplined use? | holds |
| `eio_owners` | Are buckets, objects and epolls consistent, and does the monitor implement `FdMonitor`? | holds |
| `eio_missing` | Is a descriptor reported as missing unwatched? | violated |
| `sock_one` | With one worker and calls from callbacks: is every io called back once and in order, and which data is not announced? | holds |
| `sock_okay` | Has an io reported as written been written? | violated |
| `sock_two` | With two workers: is a sock connected when data is handled? | violated |
| `net_calls` | With socks and a serv created and destroyed by a client and in callbacks: what can reach a freed object, what does a quiet destroy leave, is every event counted? | holds |
| `edp_life` | In any order of `edp_init` and `edp_fini`, with every failure: has every fault a cause, and is the system all up or all down, less what is named? | holds |

Each violated property states what a message, a comment or an assertion of the
repository says; the findings of `PROJECT.json` quote it and name the lines:

* `worker_fini` stops sleeping workers with a plain store and no signal.
* `hset_add` exchanges the arguments of `list_add_tail`: a new entry cuts off
  the older ones of its bucket.
* An io that met EAGAIN is reported with 0 at the next EPOLLOUT, unwritten.
* EPOLLOUT and EPOLLIN of one sock run on two workers in either order. (One
  worker is enough as well, through the EPOLLHUP of a socket that is not
  connected yet.)

The runs that hold show more than their properties say: what TLC finds when a
premise of a property is taken away.

* `emit_destroy` tests `ee_pendings`, then clears `ee_init` and frees, while
  `emit_dispatch` tests `ee_init` and then counts (`emitter.c:190`, 103, 117).
  With `Quiet = FALSE` in `emit_quiet`, `EmitAlive` is violated, and the `ASSERT`
  of `emitter.c:62` would read freed memory. `edpnet_sock_destroy` meets
  `sock_worker_cb` in this way: without `noisy`, `TouchSafe` is violated.
* `emit_event_handler` takes an event off `ee_pendings` before its done callback
  (`emitter.c:82`, 84). In between the sock can be destroyed and `edp_fini` called,
  by an application that makes no mistake, and the `ASSERT(ed->ed_init)` of
  `edpnet_free_event` (`edpnet.c:55`) fails; without `raced`, `Blamed` is violated.
* The early returns of `emit_event_handler` (65-75) and a refused dispatch
  (117-119) leave the count up: `emit_destroy` then refuses with "edpu still have
  pending events!" for ever. `PendingsCover` is an inequality for this reason.
* A sock that `serv_worker_cb` hands out has no emit and no function sets one up.
  Once it is watched its first event fails the `ASSERT` of `emitter.c:90`;
  destroying it before fails the one of `emit_destroy` (`test/serv_test.c:131`
  sets the accepted sock up with `edpnet_sock_set` alone).
* Destroying a sock in its own callback `sock_close` never frees its emit: the
  event that is being handled is still counted, `emit_destroy` refuses, the sock
  is freed all the same, and `atomic_dec` follows on an emit nobody owns any more.
* A descriptor that was just created reports EPOLLOUT and EPOLLHUP, so that a
  serv that is watched before it listens runs into `ASSERT(0)` of
  `edpnet.c:654`; only one connection is accepted per event of an edge-triggered
  descriptor, and the others wait for the next one to arrive.
* `edpnet_sock_destroy` never takes the descriptor out of the monitor, which
  loses an object of its cache per sock, and `eio_fini` cancels the epoll thread
  without closing its epoll or freeing its buffer: `DownClean` has to except these,
  and the threads, which are never joined.
* Two failures lose the announcement of data until the peer sends more: an EPOLLIN
  for which there is no event, and a `read` that fails with data left, after which
  READ is cleared as after EAGAIN. `ReadyNotLost` says that there is no third.
* `edp_fini` called with emits left, or twice, runs into freed workers, the
  assertion of `edpnet_free_event` or a freed cache; a second `edp_init` takes
  the hash sets and the logger from the running system; `wd_round` survives into
  a smaller pool. `Blamed` lists which mistake leads to which fault, and the two
  that need none: the done callback above, and in the build with two stores a
  worker taken from a `wd_round` that another dispatch has incremented and not
  brought back. A
  `logger_init` that fails the second time leaves `log_init` set on a closed
  socket. The programs under `test/` do not look at the result of `edp_init`.
* A thread that was started before another one failed goes on with the array that
  `worker_init` has freed until it is cancelled in its wait.
* The order of priorities is strict: a steady stream of CRIT events whose
  `ev_type` is not CRIT starves NORM and IDLE, and HIGH with NORM starves IDLE;
  `Served` is therefore claimed for HIGH and NORM.
* `OneCallback` fails as soon as a thread other than the worker writes: the
  EPOLLOUT handler takes the io of a `sock_write` that is still running, and both
  call back. WRITE is never cleared, so that an io queued after the last EPOLLOUT
  waits for one that nobody causes.

**Bounds.** Two or three events are enough to have one in each of three places
(queue, list, handler), to overtake and to be dispatched again. One worker
shows everything that happens between a worker and its dispatchers, since
workers share nothing but `wd_round`; the routing needs two, and two clients to
race on it. The kinds contain a CRIT event no urgent section takes (type 0, as
the tests of the repository use), a HIGH event with its own type, a NORM event
and one of a priority out of range. Ratio 1 and three events reach both uses of
`ratio`. Two emits, two events and a count of two show a leak next to a live
event. Two descriptors of one bucket and four objects allow two leaked entries
and two live ones. Three ios fill the current place and the queue, with two in
order; three events are one per direction and one more, and no event may be left
at any time. Two socks and a serv on two descriptors reach a number that comes back
to another object and an `eio_event_t` that comes back to another owner; one event
is enough to be out, queued and running, and all flags of a sock are alike there.
Four calls of `edp_init` and `edp_fini` are one more than a start, a stop and a
mistake; pools of one and two threads are enough for an index from a larger one. In
`Edp` an emitter has one event under way, and one event of the network waits for its
done callback at a time (`MaxLate`): it is enough to be overtaken by a destroy, a stop
and another start.
Symmetry is used for interchangeable events, clients, emits, socks, descriptors,
objects and ios, and not in the runs with fairness.

**Deadlock** is checked except where the system may really stop: workers that
end and threads that do not come back (`worker_sections`, `worker_stop`), a
sock whose peer is gone and whose events are handled (`sock_*`), a pool that did
not start (`worker_pool`), and a program after its first fault or its last call
(`net_calls`, `edp_life`).

**Fairness.** `FairSpec` has weak fairness for every worker, every call of
`__edp_dispatch` and the steps of `worker_fini`: the operating system runs
every thread that can run, the application's handlers return, and the spin
locks, which are held for a few instructions, are obtained. A client need not
ever dispatch, and no waiting thread is assumed to wake without a signal.

## 4. The proofs

Every invariant that a passing run checks is also a theorem `Spec => []Inv`, for
all values of the constants, and both refinements `Implements` are proved. The
hypotheses are the named assumptions of the modules (`WorkerAssumption`,
`EmitAssumption`, `EioAssumption`, `SockAssumption`, `NetAssumption`,
`EdpAssumption`: the sets of threads, objects and descriptors are apart, the
"none" values are none of them, the numbers are in range; for `EdpEmit` also
that the application has finitely many events, for `PendingsCover` counts a
set of them) and, for four theorems, the setting
that their run has, too: it is then written in the theorem (`ASSUME Quiet`,
`ASSUME OneThread`). What every proof does: an inductive invariant in named
parts, lemmas that say which variables a group of actions leaves alone, and for
each part one lemma with a step per action that can disturb it. The invariants
were checked by TLC on the instances of the runs before they were proved.

**The worker pool.** `EdpWorkerProofs` and `EdpPoolProofs` hold for every number
of workers, all clients, events and kinds, with and without `worker_fini`, and
for both builds except where noted.

* `TypeCorrect`. The invariant is split into six parts (events, queues, calls,
  lists, control, stop). The control part ties `pc` to `sec` and `chk` and is
  what the other proofs use.
* `NoLostWakeup` (`SleepSafe`). `SleepSafe` speaks only of a worker that sleeps
  and is not inductive. `SignalInv` extends it to the whole pass: a queue the
  worker has already spliced in this pass, and every queue once it is past the
  last section, is empty, or there is a signal, or the thread that filled the
  queue has yet to signal. `ListInv` adds that the local list is empty when the
  pass ends, which is true because the IDLE section takes everything. A jump back
  to an earlier section only shrinks the set of queues that count as passed.
* `PendingCorrect` (`PendingExact`). Inductive with the types.
* `RoundCorrect` (`RouteInRange`). With one store `wd_round` is always the number
  of a worker, and so is every routed `dcpu`; the property says so of that build.
* `StartCorrect` (`StartSafe`). Every thread below `sindex` has got as far as its
  loop, and `worker_init` goes on only on the signal of the thread it waits for.
  The wait is not in a loop, so that this is claimed for waits that do not return
  unsignalled (`Spurious = FALSE`).
* `PlaceCorrect` (`OnePlace`). Inductive with the types: the places (`free`, the
  calls, five queues and a list per worker, its handler) are one indexed family,
  and a step moves one event from one of them to another, or a whole queue to the
  end of the list.
* `UrgentCorrect` (`UrgentFirst`) orders HIGH and above before NORM and IDLE in the
  local list, and nothing else: NORM may run while HIGH waits in its queue. It rests
  on `QueuePrio`, that an event waits in the queue of its own priority: a section that
  jumps back leaves the rest of its list behind the urgent events that are spliced in
  front of it.
* `ConvarsCorrect` (`ConvarsDown`) counts; that a thread has left its condition
  variable it does not say, since none is joined. It rests on `ConvInv`: how often a condition
  variable has been initialised is a function of where `worker_init`, its clean-up
  and `worker_fini` are (`Inits`). It is -1 for the thread that failed, which the
  clean-up destroys as well.
* `DrainCorrect` (`DrainBeforeExit`) is about what a worker had accepted when its STOP
  was written; later events may stay in its queues, and a worker whose start failed is
  cancelled without one. It rests on `DrainInv`: what is owed is still
  accepted, nothing is owed before the stop, and the queues that the checks behind
  the loop have passed owe nothing.
* `PoolCorrect` (`Implements`): `EdpWorker` implements `EventPool`. The variables
  of the pool are functions of the lists: an event waits once it is in a queue or
  the local list; two NORM or IDLE events are `ahead` of each other by their
  places in list and queue. `Enqueue` maps to `Submit`, taking an event from the
  list to `Start`, the done callback to `Finish`, everything else to a stutter. The
  work is in the order: a splice in front moves urgent events only, over
  which `ahead` says nothing, a splice of NORM or IDLE appends the queue to the
  list, and the event taken is the first of its class.

**Linked lists.** `ListHeadProofs` proves that the operations of `list.h` are
operations on sequences. `Represents(l, head, s)` says that the pointers lead from
`head` through the entries of `s` and back. `AddTailCorrect`, `AddCorrect`,
`DeleteCorrect`, `SpliceInitCorrect` and `SpliceTailInitCorrect` show that each
operation takes a list of `s` to one of the expected sequence, for every set of
nodes, every store and lists of any length; the two splices rest on
`SpliceBetween`, which follows every pointer of `__list_splice`. `WalkCorrect`
says that `list_for_each_entry` meets exactly the entries and comes back, by
induction over the steps of the walk (`SetInduction`, from the well-foundedness of
the naturals: the library's rule of induction takes an operator, which the provers
cannot instantiate, the set of the numbers with a property will do). They are why the
queues of `EdpWorker` may be sequences, and `hset_add`, which calls `list_add_tail`
with its arguments exchanged, does not meet their premises. The worker runs
evaluate the same statements on small lists (`ListsAreSequences` of `MCEdpWorker`).

**The emitter**, `EdpEmitProofs`.

* `TypeCorrect`, `CoverCorrect` (`PendingsCover`) need no discipline of the
  application: handlers are removed, dispatches refused, emits destroyed at any
  time. `OwnInv` says that an event is in one place, so that `atomic_inc` counts an
  event that was not counted and `atomic_dec` comes with the end of one that was.
* `AliveCorrect` (`EmitAlive`), `FiniCorrect` (`FiniSafe`) hold under `Quiet`: the
  application dispatches nothing to an emit while it destroys it. Without that
  TLC shows the use of freed memory (section 3). `QuietInv` says that past the
  test of `ee_pendings` nothing is counted, that a counted event keeps its emit, and
  that an allocated emit that is off the list is about to be freed.

**The io monitor**, `EdpEioProofs`. A bucket is an empty ring or a ring of one entry (`RingInv`), since
each `hset_add` cuts off the entries before: this is why `BucketCorrect`
(`BucketSound`) holds and `hset_get` never meets a freed entry. `LinkInv` says
that an entry found for a watched number is the one registered, from which
`DelCorrect` (`DelOwn`); `WatchInv`, that an epoll has only allocated objects, each
at one epoll (`WatchCorrect`, `WatchSound`). `MonitorCorrect` (`Implements`)
maps `used` and `ioe_fd` to `fdof` and the registrations of all epolls to `watch`;
`eio_addfd` is `Reserve`, then `Watch` or `Refuse`, `eio_delfd` is `Unwatch`.

**The sock**, `EdpSockProofs`. `TypeCorrect` is for any workers and clients.
`OrderCorrect` (`InOrder`), `CallbackCorrect` (`OneCallback`) and `ReadyCorrect`
(`ReadyNotLost`) are for `OneThread`: one worker, and calls from its callbacks
only, since with a second thread they are false (section 3). `OwedInv` says what
is owed a callback, in order: the io in the handler's or the call's hands, or else
`es_write`, then the queue; its conjuncts say between which steps `es_write` still
has the io that was taken. `OnceInv`: no io is owed twice. `ReadyInv` extends
`ReadyNotLost` to a read that has failed and has not cleared READ yet: the data that
comes in between has raised an edge, data that was there counts as `missed`. An event
that waits keeps its type because it is in one place only (`WaitsOnce`).

**Socks and servs**, `EdpNetProofs`. One invariant for all six theorems, without
any assumption on how the application behaves; its promises are the auxiliary
variables `noisy` and `refused` of the properties.

* `PlaceInv`, `EmitInv`, `CacheInv`, `PendInv`: an event is with one worker or with
  the epoll thread; only a sock with an emit is reached by events; the counts are
  those of two sets of events. They give `CacheCorrect` (`CacheBalanced`) and
  `PendCorrect` (`PendExact`).
* `CallInv`, `HoldInv`: what an object is at each place of a call; an open
  descriptor is the one of its object until that is past `close`; a number that
  is not its object's any more means `refused`. They give `CloseCorrect`
  (`CloseSafe`).
* `WatchInv`, `IoeInv`, `UnusedInv`: the object a descriptor reports with carries
  the address of the one that has it open; there is one for each sock or serv, and
  none for an object that is not added yet; nothing knows an object without a
  descriptor.
* `QuietInv`, `EntryInv`: what was quiet when it was destroyed stays quiet. A
  sock for itself; a serv, and the `eio_event_t` of an entry of the last
  `epoll_wait`, only while *every* object was: a noisy sock frees nothing of the
  others, but a serv that `eio_delfd` takes out gives an `eio_event_t` back that
  an entry may still hold, and its next owner is then called in its place. This is why
  `TouchSafe` says `noisy # {}` and not which object. They give `TouchCorrect`
  (`TouchSafe`): at each of the six places where freed memory would be touched, the
  object is active.
* `FreeInv`: the emit of a quiet sock is freed before it, because a count above zero
  is an event that reaches the sock. With `HoldInv` and `WatchInv` it gives
  `DestroyCorrect` (`DestroyComplete`).

**Start and stop**, `EdpProofs`, for every bound on calls, all pool sizes and
emits. `UpInv` says what is initialised at each call of `edp_init` and what `todo`
can be, in whatever order the application calls; `LiveInv` and `SetsInv` what stays
so as long as it breaks no rule that matters to them; `LateInv` that an event of the
network outlives `edpnet_fini` only behind a breach or with `raced`; `RoundInv` bounds
`wd_round`, and the index of a dispatch that is not `torn`, by the largest pool;
`OutInv` counts the events. They give `BlamedCorrect`, `TypeCorrect` and
`CacheCorrect`. `OnInv` says that without a breach a part is initialised
exactly when it ought to be by the place of `edp_init` or `edp_fini` (`On`), and
`LeakInv` what may be lost, which give `DownCorrect` (`DownClean`) and
`LayeredCorrect` (`Layered`).

**With TLC only** are `Served` and the four violated properties: liveness under
fairness, `ENABLED` and counterexamples are outside what the prover does.

## 5. Not modelled, and the plan

Left out: the text the logger prints, address conversion, the headers without an
implementation, the part of `list.h` nobody calls, real time (a wait that is over
too early is `StartTimeout`), and memory that is used after it was freed where
the program goes on with it: `EdpWorker` follows the one word named above, the
others stop. Allocation fails where its caller can tell the difference
(`AddNoMem`, `CreateNoEmit`, `AcceptNoMem`, `EpollNoEvent`, `WriteNoEvent`,
`ReportNoEvent`, the failed inits).
`set_nonblock` of an open descriptor is taken to succeed. The flags of `es_status` are
independent in `EdpNet`: that the unlocked `|=` of `edpnet.c:485` may undo a handler's
CONNECT (228) is left out. A sock with queued ios
is not destroyed, and a sock is not destroyed under its events in `Edp`.

Next:

1. Action properties: what a step may never do to an object, a count or an io,
   from the invariants of section 4.
2. `EdpEmit` and `EdpNet` share the life of an emit: that the steps of a sock's
   emit in `EdpNet` are steps of `EdpEmit`.
3. That a sock reports its ios under the fairness of the kernel when EPOLLOUT
   comes.

## 6. Running it

    tlc -config worker_sections.cfg MCEdpWorker.tla
    tlapm EdpWorkerProofs.tla       # and the other modules named ...Proofs

The longest runs take about two minutes. Every property of a passing run has a
mutant, an operator named after the bug next to the definition it changes; the
pairs are listed in `PROJECT.json`.
