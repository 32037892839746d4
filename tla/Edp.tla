-------------------------------- MODULE Edp --------------------------------
(****************************************************************************)
(* Starting and stopping edp.io: edp_init and edp_fini (src/edp.c) call the *)
(* init and fini of the logger, the hash sets, the worker pool, the         *)
(* emitters, the io monitor and the network, one call per step, while the   *)
(* threads of the application, the workers and the epoll thread go on.      *)
(* mcache_init and mcache_fini do nothing and cannot fail.  What a stopped  *)
(* worker does with its own freed memory is in EdpWorker; here an event     *)
(* that was queued when the pool stopped may still be run, or never.  A     *)
(* call that would fail an assertion, or use memory or a lock that does not *)
(* exist, sets `fault' and the program stops there; what may go well or not *)
(* (memory past the end of an array, a handle of no thread) is a choice.    *)
(* An emitter has at most one event under way.                              *)
(****************************************************************************)
EXTENDS Integers, Sequences, FiniteSets

CONSTANTS Emits,        \* emitters, of the application or of socks
          ThreadNums,   \* the arguments edp_init is called with
          MaxCalls,     \* bound: calls of edp_init and edp_fini
          MaxLate,      \* bound: network events whose done callback is still to be called
          NoEmit

ASSUME EdpAssumption == /\ ThreadNums \subseteq Nat \ {0}
                        /\ MaxCalls \in Nat
                        /\ MaxLate \in Nat
                        /\ NoEmit \notin Emits

VARIABLES
    calls,      \* calls of edp_init and edp_fini so far
    init,       \* the call edp_init makes next, or "none"
    todo,       \* the fini calls that edp_init or edp_fini has still to make
    arg,        \* thread_num, the argument of edp_init
    log_init, log_sock,     \* log_init; log_sock is "none", "open" or "closed"
    hsd_init, hsd_lock,     \* hsd_init; hsd_lock is "none", "live" or "dead"
    hsd_sets,   \* hsd_sets is not empty
    wd_init, wd_threads,    \* wd_init; wd_threads is "none", "live" or "freed"
    wd_thread_num, wd_round,
    cpu,        \* cpu[e]: the worker a dispatch of e has taken while wd_round is not yet
                \* brought back below wd_thread_num, or -1
    emd_init, emd_lock,     \* ed_init and ed_lock of emitter.c
    ed_emits,   \* the emitters in the list ed_emits of emitter.c
    inflight,   \* inflight[e]: the event ee_pendings counts, "none", "own" or "net"
    iod,        \* __eio_data is set
    watched,    \* the socks, by their emitters, whose descriptor epoll watches
    polling,    \* the epoll thread is in its loop
    ioes,       \* iod_evcache has objects that were not freed
    socks,      \* the emitters that belong to a sock
    incb,       \* the emitter whose io callback the epoll thread is in
    stale,      \* the epoll thread is in a callback of an iod that was freed
    net_init,   \* ed_init of edpnet.c
    evcache,    \* ed_evcache: "none", "live" or "freed"
    out,        \* mc_allocs - mc_frees of ed_evcache
    late,       \* network events that were handled and not given back yet
    fault,      \* the first fault, or "none"
    up,         \* auxiliary: edp_init has returned 0 and edp_fini was not called
    breach,     \* auxiliary: what the application did against the order of calls
    most,       \* auxiliary: the largest thread_num of a pool so far
    torn,       \* auxiliary: the emitters whose dispatch took its worker from a wd_round
                \* that another dispatch had not brought back
    raced,      \* auxiliary: edpnet_fini came before the done callback of an event
    leaks       \* auxiliary: what was lost, "ed_evcache", "iod_evcache", "log", the
                \* "iwk_epoll" and "iwk_events" of an epoll thread, or unjoined "threads"

mvars == <<calls, init, todo, arg>>
lvars == <<log_init, log_sock>>
hvars == <<hsd_init, hsd_lock, hsd_sets>>
wvars == <<wd_init, wd_threads, wd_thread_num, wd_round, most, cpu, torn>>
evars == <<emd_init, emd_lock, ed_emits, inflight>>
ivars == <<iod, polling, watched, ioes, socks, incb, stale>>
nvars == <<net_init, evcache, out, late>>
avars == <<up, breach, raced, leaks>>
vars == <<mvars, lvars, hvars, wvars, evars, ivars, nvars, avars, fault>>

Init ==
    /\ calls = 0 /\ init = "none" /\ todo = <<>> /\ arg = 0
    /\ log_init = FALSE /\ log_sock = "none"
    /\ hsd_init = FALSE /\ hsd_lock = "none" /\ hsd_sets = FALSE
    /\ wd_init = FALSE /\ wd_threads = "none" /\ wd_thread_num = 0 /\ wd_round = 0
    /\ most = 0 /\ cpu = [e \in Emits |-> -1] /\ torn = {}
    /\ emd_init = FALSE /\ emd_lock = "none" /\ ed_emits = {}
    /\ inflight = [e \in Emits |-> "none"]
    /\ iod = FALSE /\ polling = FALSE /\ watched = {} /\ ioes = FALSE
    /\ socks = {} /\ incb = NoEmit /\ stale = FALSE
    /\ net_init = FALSE /\ evcache = "none" /\ out = 0 /\ late = 0
    /\ up = FALSE /\ breach = {} /\ raced = FALSE /\ leaks = {}
    /\ fault = "none"

\* The program fails: nothing else counts any more.
Fails(f) == /\ fault' = f
            /\ UNCHANGED <<mvars, lvars, hvars, wvars, evars, ivars, nvars, up, raced, leaks>>

Idle == init = "none" /\ todo = <<>>

-----------------------------------------------------------------------------
(* edp_init: the inits in order, and what is undone when one fails.         *)

Next1 == [logger |-> "hset", hset |-> "worker", worker |-> "emit", emit |-> "eio",
          eio |-> "net", net |-> "none"]

\* The labels exit_net .. exit_mcache; edpnet_init undoes eio_init itself.
Unwind == [logger |-> <<>>,
           worker |-> <<"hset", "logger">>,
           eio    |-> <<"emit", "worker", "hset", "logger">>,
           net    |-> <<"eio", "emit", "worker", "hset", "logger">>]

CallInit(n) ==
    /\ fault = "none"
    /\ Idle
    /\ calls < MaxCalls
    /\ calls' = calls + 1
    /\ init' = "logger"
    /\ arg' = n
    /\ breach' = IF up THEN breach \cup {"again"} ELSE breach
    /\ UNCHANGED <<todo, lvars, hvars, wvars, evars, ivars, nvars, up, raced, leaks, fault>>

At(call) == fault = "none" /\ init = call

\* The call succeeds and edp_init goes on, or has initialised everything.
Go == /\ init' = Next1[init]
      /\ up' = (up \/ init = "net")
      /\ UNCHANGED <<calls, todo, arg, breach, raced, fault>>

\* The call fails: goto exit_...
Stop == /\ init' = "none"
        /\ todo' = Unwind[init]
        /\ UNCHANGED <<calls, arg, up, breach, raced, fault>>

\* A second logger_init overwrites the socket of the first.
LoggerInit ==
    /\ At("logger")
    /\ leaks' = IF log_sock = "open" THEN leaks \cup {"log"} ELSE leaks
    /\ log_init' = TRUE
    /\ log_sock' = "open"
    /\ Go
    /\ UNCHANGED <<hvars, wvars, evars, ivars, nvars>>

\* No logger listens on 127.0.0.1:4040.
LoggerInitFails ==
    /\ At("logger")
    /\ leaks' = IF log_sock = "open" THEN leaks \cup {"log"} ELSE leaks
    /\ log_sock' = "closed"
    /\ Stop
    /\ UNCHANGED <<log_init, hvars, wvars, evars, ivars, nvars>>

HsetInit ==
    /\ At("hset")
    /\ hsd_init' = TRUE
    /\ hsd_lock' = "live"
    /\ hsd_sets' = FALSE
    /\ Go
    /\ UNCHANGED <<lvars, wvars, evars, ivars, nvars, leaks>>

\* wd_round is not reset.
WorkerInit ==
    /\ At("worker")
    /\ ~wd_init
    /\ wd_init' = TRUE
    /\ wd_threads' = "live"
    /\ wd_thread_num' = arg
    /\ most' = IF arg > most THEN arg ELSE most
    /\ Go
    /\ UNCHANGED <<wd_round, cpu, torn, lvars, hvars, evars, ivars, nvars, leaks>>

\* The pool exists, or it cannot be allocated or started.  Threads that were
\* started are cancelled and not joined.
WorkerInitFails ==
    /\ At("worker")
    /\ IF wd_init THEN UNCHANGED <<wd_threads, leaks>>
                  ELSE \/ wd_threads' = "none" /\ UNCHANGED leaks
                       \/ wd_threads' = "freed" /\ leaks' \in {leaks, leaks \cup {"threads"}}
    /\ Stop
    /\ UNCHANGED <<wd_init, wd_thread_num, wd_round, most, cpu, torn, lvars, hvars, evars,
                   ivars, nvars>>

\* The handle that is cancelled is of a thread that could not be created.
WorkerInitCancels ==
    /\ At("worker")
    /\ ~wd_init
    /\ Fails("cancel")
    /\ UNCHANGED breach

EmitInit ==
    /\ At("emit")
    /\ IF emd_init
       THEN UNCHANGED evars
       ELSE /\ emd_init' = TRUE
            /\ emd_lock' = "live"
            /\ ed_emits' = {}
            /\ UNCHANGED inflight
    /\ Go
    /\ UNCHANGED <<lvars, hvars, wvars, ivars, nvars, leaks>>

\* hset_create links the set into the registry under hsd_lock; the epoll thread
\* has said that it runs.
EioInit ==
    /\ At("eio")
    /\ hsd_lock = "live"
    /\ hsd_sets' = TRUE
    /\ iod' = TRUE
    /\ polling' = TRUE
    /\ watched' = {}
    /\ ioes' = FALSE
    /\ Go
    /\ UNCHANGED <<lvars, hsd_init, hsd_lock, wvars, evars, socks, incb, stale, nvars, leaks>>

\* What an epoll thread leaves when it is cancelled.
Cancelled == {"iwk_epoll", "iwk_events", "threads"}

\* No memory, before hset_create, or no thread, or one that did not answer in time
\* and had come anywhere: hset_destroy undoes hset_create.
EioInitFails ==
    /\ At("eio")
    /\ hsd_lock = "live"
    /\ \/ UNCHANGED <<hsd_sets, leaks>>
       \/ /\ hsd_sets' = FALSE
          /\ \E lost \in {{}, {"threads"}, {"iwk_epoll", "threads"}, Cancelled} :
                leaks' = leaks \cup lost
    /\ Stop
    /\ UNCHANGED <<lvars, hsd_init, hsd_lock, wvars, evars, ivars, nvars>>

\* The handle that is cancelled is of a thread that could not be created.
EioInitCancels ==
    /\ At("eio")
    /\ hsd_lock = "live"
    /\ Fails("cancel")
    /\ UNCHANGED breach

\* The rest of edpnet_init; a cache that was not destroyed is lost.
NetInit ==
    /\ At("net")
    /\ leaks' = IF evcache = "live" THEN leaks \cup {"ed_evcache"} ELSE leaks
    /\ evcache' = "live"
    /\ out' = 0
    /\ net_init' = TRUE
    /\ Go
    /\ UNCHANGED <<late, lvars, hvars, wvars, evars, ivars>>

NetInitFails ==
    /\ At("net")
    /\ Stop
    /\ UNCHANGED <<lvars, hvars, wvars, evars, ivars, nvars, leaks>>

-----------------------------------------------------------------------------
(* edp_fini, and the fini calls of a failed edp_init.                       *)

\* Mutant of CallFini: the pool is stopped before the network.
CallFiniWorkersFirst ==
    /\ fault = "none"
    /\ Idle
    /\ calls < MaxCalls
    /\ calls' = calls + 1
    /\ todo' = <<"worker", "eio", "net", "emit", "hset", "logger">>
    /\ up' = FALSE
    /\ breach' = breach \cup (IF up THEN {} ELSE {"twice"})
                        \cup (IF ed_emits = {} THEN {} ELSE {"alive"})
    /\ UNCHANGED <<init, arg, lvars, hvars, wvars, evars, ivars, nvars, raced, leaks, fault>>

CallFini ==
    /\ fault = "none"
    /\ Idle
    /\ calls < MaxCalls
    /\ calls' = calls + 1
    /\ todo' = <<"eio", "net", "emit", "worker", "hset", "logger">>
    /\ up' = FALSE
    /\ breach' = breach \cup (IF up THEN {} ELSE {"twice"})
                        \cup (IF ed_emits = {} THEN {} ELSE {"alive"})
    /\ UNCHANGED <<init, arg, lvars, hvars, wvars, evars, ivars, nvars, raced, leaks, fault>>

Due(call) == fault = "none" /\ todo # <<>> /\ Head(todo) = call

Done == /\ todo' = Tail(todo)
        /\ UNCHANGED <<calls, init, arg, up, breach, fault>>

\* eio_fini cancels the epoll thread, does not join it, and frees the iod.  The
\* thread's buffer is not freed, and only on its own way out, when epoll_wait
\* failed, has it closed iwk_epoll.  hset_destroy always goes through, since nobody
\* counts hs_items, but the cache stays when an object is out, and no destroyed
\* sock has given its object back.
EioFini ==
    /\ Due("eio")
    /\ iod => hsd_lock = "live"
    /\ iod' = FALSE
    /\ polling' = FALSE
    /\ watched' = {}
    /\ ioes' = FALSE
    /\ hsd_sets' = IF iod THEN FALSE ELSE hsd_sets
    /\ leaks' = leaks \cup {x \in {"iod_evcache"} : ioes}
                     \cup {x \in {"iwk_epoll"} : polling}
                     \cup {x \in {"iwk_events", "threads"} : iod}
    /\ stale' = (stale \/ (iod /\ incb # NoEmit))
    /\ Done
    /\ UNCHANGED <<lvars, hsd_init, hsd_lock, wvars, evars, socks, incb, nvars, raced>>

\* hset_destroy takes the lock of the registry.
EioFiniFails ==
    /\ Due("eio")
    /\ iod /\ hsd_lock # "live"
    /\ Fails("hsd_lock")
    /\ UNCHANGED breach

\* Mutant of NetFini: the cache is not destroyed.
NetFiniKeepsCache ==
    /\ Due("net")
    /\ evcache = "live"
    /\ net_init' = FALSE
    /\ raced' = (raced \/ late > 0)
    /\ Done
    /\ UNCHANGED <<lvars, hvars, wvars, evars, ivars, evcache, out, late, leaks>>

\* The rest of edpnet_fini: mcache_destroy refuses while events are out.
NetFini ==
    /\ Due("net")
    /\ evcache = "live"
    /\ net_init' = FALSE
    /\ evcache' = IF out = 0 THEN "freed" ELSE "live"
    /\ raced' = (raced \/ late > 0)
    /\ Done
    /\ UNCHANGED <<lvars, hvars, wvars, evars, ivars, out, late, leaks>>

NetFiniFails ==
    /\ Due("net")
    /\ evcache # "live"
    /\ Fails(IF evcache = "none" THEN "cache_null" ELSE "cache_freed")
    /\ UNCHANGED breach

EmitFini ==
    /\ Due("emit")
    /\ IF emd_init /\ ed_emits = {}
       THEN /\ emd_init' = FALSE
            /\ emd_lock' = "dead"
       ELSE UNCHANGED <<emd_init, emd_lock>>
    /\ Done
    /\ UNCHANGED <<lvars, hvars, wvars, ed_emits, inflight, ivars, nvars, raced, leaks>>

\* The threads are told to stop, and not joined.
WorkerFini ==
    /\ Due("worker")
    /\ wd_init' = FALSE
    /\ wd_threads' = IF wd_init THEN "freed" ELSE wd_threads
    /\ leaks' = IF wd_init THEN leaks \cup {"threads"} ELSE leaks
    /\ Done
    /\ UNCHANGED <<wd_thread_num, wd_round, most, cpu, torn, lvars, hvars, evars, ivars,
                   nvars, raced>>

\* The loop begins with wd_threads[wd_thread_num], one past the array: what it
\* destroys and overwrites there is somebody else's, and that may show.
WorkerFiniPastEnd ==
    /\ Due("worker")
    /\ wd_init
    /\ Fails("past_end")
    /\ UNCHANGED breach

HsetFini ==
    /\ Due("hset")
    /\ IF hsd_init /\ ~hsd_sets
       THEN /\ hsd_init' = FALSE
            /\ hsd_lock' = "dead"
       ELSE UNCHANGED <<hsd_init, hsd_lock>>
    /\ Done
    /\ UNCHANGED <<lvars, hsd_sets, wvars, evars, ivars, nvars, raced, leaks>>

LoggerFini ==
    /\ Due("logger")
    /\ log_init' = FALSE
    /\ log_sock' = IF log_init THEN "closed" ELSE log_sock
    /\ Done
    /\ UNCHANGED <<hvars, wvars, evars, ivars, nvars, raced, leaks>>

-----------------------------------------------------------------------------
(* The application, the epoll thread and the workers meanwhile.             *)

\* The application uses the system although it is not up.
Uses == breach' = IF up THEN breach ELSE breach \cup {"early"}

\* emit_create, for the application or in edpnet_sock_create, which refuses
\* before edpnet_init.
EmitCreate(e, own) ==
    /\ fault = "none"
    /\ e \notin ed_emits
    /\ own \/ net_init
    /\ Uses
    /\ IF emd_lock = "live"
       THEN /\ ed_emits' = ed_emits \cup {e}
            /\ socks' = IF own THEN socks ELSE socks \cup {e}
            /\ UNCHANGED <<mvars, lvars, hvars, wvars, emd_init, emd_lock, inflight, iod,
                           polling, watched, ioes, incb, stale, nvars, up, raced, leaks, fault>>
       ELSE Fails(IF emd_lock = "none" THEN "emits_zero" ELSE "emd_lock")

\* emit_destroy refuses while an event is counted in ee_pendings; one whose done
\* callback is still to be called is not.
EmitDestroy(e) ==
    /\ fault = "none"
    /\ e \in ed_emits \ socks
    /\ inflight[e] = "none"
    /\ ed_emits' = ed_emits \ {e}
    /\ UNCHANGED <<mvars, lvars, hvars, wvars, emd_init, emd_lock, inflight, ivars, nvars,
                   avars, fault>>

\* eio_addfd in edpnet_sock_set, which edpnet_sock_create calls, too.  (When it is
\* refused, as it always is once the epoll thread has closed iwk_epoll, the sock is
\* not watched.)
AddFd(e) ==
    /\ fault = "none"
    /\ e \in socks \ watched
    /\ iod => polling
    /\ Uses
    /\ IF iod
       THEN /\ watched' = watched \cup {e}
            /\ ioes' = TRUE
            /\ UNCHANGED <<mvars, lvars, hvars, wvars, evars, iod, polling, socks, incb,
                           stale, nvars, up, raced, leaks, fault>>
       ELSE Fails("iod")

\* Mutant of SockDestroy: the descriptor is not closed.
SockDestroyOpen(e) ==
    /\ fault = "none"
    /\ e \in socks
    /\ net_init
    /\ e # incb
    /\ inflight[e] = "none"
    /\ Uses
    /\ socks' = socks \ {e}
    /\ ed_emits' = ed_emits \ {e}
    /\ UNCHANGED <<mvars, lvars, hvars, wvars, emd_init, emd_lock, inflight, iod, polling,
                   watched, ioes, incb, stale, nvars, up, raced, leaks, fault>>

\* edpnet_sock_destroy closes the descriptor and destroys the emit; it does not
\* call eio_delfd, the object in iod_evcache stays.  A sock that is destroyed
\* under its own events is the subject of EdpNet and left out here.
SockDestroy(e) ==
    /\ fault = "none"
    /\ e \in socks
    /\ net_init
    /\ e # incb
    /\ inflight[e] = "none"
    /\ Uses
    /\ socks' = socks \ {e}
    /\ watched' = watched \ {e}
    /\ ed_emits' = ed_emits \ {e}
    /\ UNCHANGED <<mvars, lvars, hvars, wvars, emd_init, emd_lock, inflight, iod, polling,
                   ioes, incb, stale, nvars, up, raced, leaks, fault>>

\* epoll_wait fails, a signal is enough: the epoll thread closes iwk_epoll and ends.
EpollBreaks ==
    /\ fault = "none"
    /\ polling
    /\ incb = NoEmit
    /\ polling' = FALSE
    /\ watched' = {}
    /\ UNCHANGED <<mvars, lvars, hvars, wvars, evars, iod, ioes, socks, incb, stale, nvars,
                   avars, fault>>

-----------------------------------------------------------------------------
(* Dispatch: emit_dispatch counts the event and __edp_dispatch finds its    *)
(* worker, unlocked.  wd_round++ and the modulo are two stores in the build *)
(* of test/Makefile, and other threads get between them.  The reads before  *)
(* the first store are one step with it: EdpWorker has the finer cut, which *)
(* loses increments and takes no index out of range that is not taken here. *)

\* A dispatch has taken its worker and not brought wd_round back.
Routing == {e \in Emits : cpu[e] # -1}

\* The event of kind k of e is counted, and its worker is the next one.
Route(e, k) ==
    /\ inflight' = [inflight EXCEPT ![e] = k]
    /\ cpu' = [cpu EXCEPT ![e] = wd_round]
    /\ wd_round' = wd_round + 1
    /\ torn' = IF Routing = {} THEN torn ELSE torn \cup {e}

\* What wd_threads[c] trips over: the freed array, or its end.
IndexFault(c) == IF wd_threads # "live" THEN "wd_threads"
                 ELSE IF c >= wd_thread_num THEN "route" ELSE "none"

\* What the second half of a dispatch of e trips over.
RouteFault(e) == IF wd_thread_num = 0 THEN "divide" ELSE IndexFault(cpu[e])

\* Mutant of Queue: the modulo is forgotten.
QueueNoModulo(e) ==
    /\ fault = "none"
    /\ e \in Routing
    /\ IF RouteFault(e) = "none"
       THEN /\ cpu' = [cpu EXCEPT ![e] = -1]
            /\ torn' = torn \ {e}
            /\ UNCHANGED <<mvars, lvars, hvars, wd_init, wd_threads, wd_thread_num, wd_round,
                           most, evars, ivars, nvars, up, raced, leaks, fault>>
       ELSE Fails(RouteFault(e))
    /\ UNCHANGED breach

\* wd_round is brought back, and the event of e is queued with its worker.
Queue(e) ==
    /\ fault = "none"
    /\ e \in Routing
    /\ IF RouteFault(e) = "none"
       THEN /\ wd_round' = wd_round % wd_thread_num
            /\ cpu' = [cpu EXCEPT ![e] = -1]
            /\ torn' = torn \ {e}
            /\ UNCHANGED <<mvars, lvars, hvars, wd_init, wd_threads, wd_thread_num, most,
                           evars, ivars, nvars, up, raced, leaks, fault>>
       ELSE Fails(RouteFault(e))
    /\ UNCHANGED breach

\* emit_dispatch of an event of the application.
Dispatch(e) ==
    /\ fault = "none"
    /\ e \in ed_emits \ socks
    /\ inflight[e] = "none"
    /\ Uses
    /\ Route(e, "own")
    /\ UNCHANGED <<mvars, lvars, hvars, wd_init, wd_threads, wd_thread_num, most, emd_init,
                   emd_lock, ed_emits, ivars, nvars, up, raced, leaks, fault>>

\* The same for an event that keeps the worker c of an earlier dispatch, maybe of
\* an earlier pool: wd_round stays.
DispatchKept(e, c) ==
    /\ fault = "none"
    /\ e \in ed_emits \ socks
    /\ inflight[e] = "none"
    /\ c < wd_round
    /\ Uses
    /\ IF IndexFault(c) = "none"
       THEN /\ inflight' = [inflight EXCEPT ![e] = "own"]
            /\ UNCHANGED <<mvars, lvars, hvars, wvars, emd_init, emd_lock, ed_emits, ivars,
                           nvars, up, raced, leaks, fault>>
       ELSE Fails(IndexFault(c))

\* The epoll thread calls sock_worker_cb for e: an event from ed_evcache.
Report(e) ==
    /\ fault = "none"
    /\ polling
    /\ incb = NoEmit
    /\ e \in watched
    /\ inflight[e] = "none"
    /\ net_init
    /\ incb' = e
    /\ out' = out + 1
    /\ Route(e, "net")
    /\ UNCHANGED <<mvars, lvars, hvars, wd_init, wd_threads, wd_thread_num, most, emd_init,
                   emd_lock, ed_emits, iod, polling, watched, ioes, socks, stale, net_init,
                   evcache, late, avars, fault>>

\* There is no event: no memory, or edpnet_init is not through or edpnet_fini was
\* called.
ReportNoEvent(e) ==
    /\ fault = "none"
    /\ polling
    /\ incb = NoEmit
    /\ e \in watched
    /\ incb' = e
    /\ UNCHANGED <<mvars, lvars, hvars, wvars, evars, iod, polling, watched, ioes, socks,
                   stale, nvars, avars, fault>>

\* The callback has dispatched its event: iwk->iwk_events++ behind it.
Reported ==
    /\ fault = "none"
    /\ incb # NoEmit
    /\ incb \notin Routing
    /\ IF stale THEN Fails("iwk")
       ELSE /\ incb' = NoEmit
            /\ UNCHANGED <<mvars, lvars, hvars, wvars, evars, iod, polling, watched, ioes,
                           socks, stale, nvars, up, raced, leaks, fault>>
    /\ UNCHANGED breach

-----------------------------------------------------------------------------
(* A worker runs an event: emit_event_handler counts it out before it calls *)
(* edp_event_done.                                                          *)

\* The handler of e has returned and ee_pendings goes down.  The done callback of
\* an event of the application is not ours; that of the network is still to come.
Handle(e) ==
    /\ fault = "none"
    /\ inflight[e] # "none"
    /\ e \notin Routing
    /\ inflight[e] = "net" => late < MaxLate
    /\ inflight' = [inflight EXCEPT ![e] = "none"]
    /\ late' = IF inflight[e] = "net" THEN late + 1 ELSE late
    /\ UNCHANGED <<mvars, lvars, hvars, wvars, emd_init, emd_lock, ed_emits, ivars,
                   net_init, evcache, out, avars, fault>>

\* Mutant of EventDone: the event is not given back.
EventDoneKeeps ==
    /\ fault = "none"
    /\ late > 0
    /\ IF net_init
       THEN /\ late' = late - 1
            /\ UNCHANGED <<mvars, lvars, hvars, wvars, evars, ivars, net_init, evcache, out,
                           up, raced, leaks, fault>>
       ELSE Fails("free_event")
    /\ UNCHANGED breach

\* edp_event_done calls edpnet_sock_done: the event goes back to the cache that
\* ed_evcache names by then.
EventDone ==
    /\ fault = "none"
    /\ late > 0
    /\ IF net_init
       THEN /\ late' = late - 1
            /\ out' = out - 1
            /\ UNCHANGED <<mvars, lvars, hvars, wvars, evars, ivars, net_init, evcache, up,
                           raced, leaks, fault>>
       ELSE Fails("free_event")
    /\ UNCHANGED breach

-----------------------------------------------------------------------------
Next == \/ \E n \in ThreadNums : CallInit(n)
        \/ LoggerInit \/ LoggerInitFails \/ HsetInit
        \/ WorkerInit \/ WorkerInitFails \/ WorkerInitCancels
        \/ EmitInit \/ EioInit \/ EioInitFails \/ EioInitCancels \/ NetInit \/ NetInitFails
        \/ CallFini
        \/ EioFini \/ EioFiniFails \/ NetFini \/ NetFiniFails \/ EmitFini
        \/ WorkerFini \/ WorkerFiniPastEnd \/ HsetFini \/ LoggerFini
        \/ \E e \in Emits : \/ EmitDestroy(e) \/ AddFd(e) \/ SockDestroy(e)
                            \/ \E own \in BOOLEAN : EmitCreate(e, own)
                            \/ Dispatch(e) \/ Queue(e) \/ Report(e) \/ ReportNoEvent(e)
                            \/ \E c \in 0 .. most - 1 : DispatchKept(e, c)
                            \/ Handle(e)
        \/ EventDone \/ Reported \/ EpollBreaks

Spec == Init /\ [][Next]_vars

-----------------------------------------------------------------------------
(* Properties *)

Calls == {"logger", "hset", "worker", "emit", "eio", "net"}

TypeOK ==
    /\ calls \in 0 .. MaxCalls
    /\ init \in Calls \cup {"none"}
    /\ todo \in Seq(Calls)
    /\ init # "none" => todo = <<>>
    /\ arg \in ThreadNums \cup {0}
    /\ log_sock \in {"none", "open", "closed"}
    /\ hsd_lock \in {"none", "live", "dead"}
    /\ wd_threads \in {"none", "live", "freed"}
    /\ wd_thread_num \in ThreadNums \cup {0}
    /\ most \in ThreadNums \cup {0}
    /\ wd_round \in Nat
    /\ cpu \in [Emits -> Nat \cup {-1}]
    /\ emd_lock \in {"none", "live", "dead"}
    /\ {log_init, hsd_init, hsd_sets, wd_init, emd_init, iod, polling, ioes, stale, net_init,
        up, raced} \subseteq BOOLEAN
    /\ ed_emits \subseteq Emits
    /\ inflight \in [Emits -> {"none", "own", "net"}]
    /\ watched \subseteq socks
    /\ socks \subseteq ed_emits
    /\ torn \subseteq Emits
    /\ incb \in Emits \cup {NoEmit}
    /\ evcache \in {"none", "live", "freed"}
    /\ out \in Int
    /\ late \in 0 .. MaxLate

\* What a faulty call traces back to.  To what the application did, for most:
\* edp_init and edp_fini in the wrong order, edp_fini under live emitters, or a
\* use of the system while it is not up.  Without any mistake of the application
\* the code fails in these cases only: an event is given back after edpnet_fini
\* although its emitter could be destroyed (emitter.c:82, 84), a worker is taken
\* from a wd_round that another dispatch has not brought back, or that a larger
\* pool left (worker.c:294-297, 393-396); and the two that nothing can prevent,
\* the cancel of a thread that could not be created (worker.c:389,
\* eio-epoll.c:302) and the end of the array in worker_fini (worker.c:408-412).
Blamed ==
    /\ fault \in {"cache_null", "cache_freed"} => "twice" \in breach
    /\ fault = "hsd_lock" => "again" \in breach
    /\ fault = "free_event" => raced \/ breach \cap {"early", "alive"} # {}
    /\ fault = "iwk" => breach \cap {"early", "alive"} # {}
    /\ fault \in {"emits_zero", "emd_lock", "divide", "iod"} => "early" \in breach
    /\ fault = "wd_threads" => breach \cap {"early", "alive"} # {}
    /\ fault = "route" => wd_thread_num < most \/ torn # {}

\* After an edp_fini, or an edp_init that failed, of an application that keeps
\* the order of calls nothing is left initialised, so that the system can be
\* started again (edp.c:58-73, 85-99), and what is lost is this: threads nobody
\* joins, the descriptor and the buffer of the epoll thread, and the cache of the
\* monitor, whose objects destroyed socks keep.  The cache of events is not lost,
\* but for an event whose done callback came after edpnet_fini.
DownClean ==
    Idle /\ ~up /\ breach = {} =>
        /\ ~log_init /\ log_sock # "open"
        /\ ~hsd_init /\ ~hsd_sets
        /\ ~wd_init /\ wd_threads # "live"
        /\ ~emd_init
        /\ ~iod /\ ~ioes /\ ~polling
        /\ ~net_init
        /\ ~raced => evcache # "live" /\ out = 0 /\ late = 0
        /\ leaks \subseteq Cancelled \cup {"iod_evcache"}
                           \cup {x \in {"ed_evcache"} : raced}

\* A part is initialised only while the parts it uses are: the monitor uses
\* the hash sets, the network's callbacks use emitters and workers, and
\* everything logs (edp.c:18-52, 87-97).
Layered ==
    breach = {} =>
        /\ net_init => iod \/ todo # <<>>
        /\ iod => hsd_init /\ hsd_sets /\ emd_init /\ wd_init
        /\ emd_init => wd_init
        /\ wd_init => hsd_init
        /\ hsd_init => log_init

\* The events of the cache are balanced: what is out is in flight or about to be
\* given back, unless edp_fini was called under live emitters or before a done
\* callback (edpnet.c:49, 57, mcache.c:54-61).
CacheBalanced ==
    ~raced /\ breach \cap {"early", "alive"} = {} =>
        out = Cardinality({e \in Emits : inflight[e] = "net"}) + late
=============================================================================
