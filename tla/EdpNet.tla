------------------------------- MODULE EdpNet -------------------------------
(****************************************************************************)
(* The lifetimes of socks and servs of edp.io, posix/edpnet.c, with the     *)
(* emits of src/emitter.c the socks own: which thread may still reach an    *)
(* object while another one destroys it.  The application creates, watches  *)
(* and destroys them from threads of its own and from callbacks, the epoll  *)
(* thread (eio_worker_routine) turns readiness into events and accepts      *)
(* connections, the workers run the handlers.  The io monitor is FdMonitor, *)
(* the worker pool EventPool.  What the handlers do with the data is        *)
(* EdpSock; no sock has a pending write here.  The memory of a freed object *)
(* is not given out again (an eio_event_t is), its fields are reset.  The   *)
(* first failed assertion, or use of memory or of a descriptor that is not  *)
(* one's own, ends the run: "fault".                                        *)
(****************************************************************************)
EXTENDS Integers, FiniteSets

CONSTANTS Clients, Workers, Epoll,      \* the threads, one of them the epoll thread
          Callers,                      \* the threads that call edpnet
          Socks, Servs, NoObj,          \* objects, and the emits of the socks
          Fds, NoFd,
          Ioes, NoIoe,                  \* eio_event_t objects
          Events, NoEvent,              \* events of ed_evcache; bound of the model
          Reports,                      \* what epoll may report for a sock
          NoFault

NORM == "norm"
Objects == Socks \cup Servs
Threads == Clients \cup Workers \cup {Epoll}
Flags == {"IN", "OUT", "HUP"}           \* HUP stands for ERR and HUP
NoEntry == [data |-> NoObj, ev |-> {}]

ASSUME NetAssumption ==
    /\ Clients \cap Workers = {} /\ Epoll \notin Clients \cup Workers
    /\ Callers \subseteq Threads
    /\ Socks \cap Servs = {} /\ NoObj \notin Objects
    /\ NoFd \notin Fds /\ NoIoe \notin Ioes /\ NoEvent \notin Events
    /\ Reports \subseteq (SUBSET Flags) \ {{}}

VARIABLES
    fdof, watch,                \* the io monitor
    ioe_data,
    waiting, ahead, running,    \* the worker pool
    ev_emit,                    \* the sock of the emit in ev_emit
    holder,                     \* kernel: the object that opened f and has it open
    listening,                  \* kernel: servs after listen()
    edge,                       \* kernel: descriptors on the ready list
    obj,                        \* memory of an object, and what may be done with it
    es_sock, monitor,           \* es_sock, the flag MONITOR
    emit, pend,                 \* es_emit: NULL, or its memory; ee_pendings
    cpc, cobj,                  \* where thread t is in a call of edpnet, its object
    epc, batch, cur, eev,       \* the epoll thread: events, ev, the event it dispatches
    hpc,                        \* where worker w is in emit_event_handler
    cache,                      \* mc_allocs - mc_frees of ed_evcache
    refused,                    \* auxiliary: objects whose eio_addfd failed
    noisy,                      \* auxiliary: destroyed although something reaches them
    fault                       \* [kind, obj]: freed memory or a foreign descriptor was
                                \* touched, or where an ASSERT failed; or NoFault

mvars == <<fdof, watch, ioe_data>>
pvars == <<waiting, ahead, running, ev_emit>>
kvars == <<holder, listening, edge>>
ovars == <<obj, es_sock, monitor>>
mtvars == <<emit, pend>>
cvars == <<cpc, cobj>>
evars == <<epc, batch, cur, eev>>
avars == <<refused, noisy, fault>>
vars == <<mvars, pvars, kvars, ovars, mtvars, cvars, evars, hpc, cache, avars>>

Mon == INSTANCE FdMonitor WITH Cookies <- Ioes, NoCookie <- NoIoe
Pool == INSTANCE EventPool WITH Classes <- {NORM}, Ordered <- {NORM}

\* After edpnet_init.
Init ==
    /\ Mon!Init
    /\ ioe_data = [i \in Ioes |-> NoObj]
    /\ Pool!Init
    /\ ev_emit = [e \in Events |-> NoObj]
    /\ holder = [f \in Fds |-> NoObj]
    /\ listening = {}
    /\ edge = {}
    /\ obj = [o \in Objects |-> "none"]
    /\ es_sock = [o \in Objects |-> NoFd]
    /\ monitor = [o \in Objects |-> FALSE]
    /\ emit = [s \in Socks |-> "null"]
    /\ pend = [s \in Socks |-> 0]
    /\ cpc = [t \in Threads |-> "idle"]
    /\ cobj = [t \in Threads |-> NoObj]
    /\ epc = "wait"
    /\ batch = {}
    /\ cur = NoEntry
    /\ eev = NoEvent
    /\ hpc = [w \in Workers |-> "idle"]
    /\ cache = 0
    /\ refused = {} /\ noisy = {} /\ fault = NoFault

\* After a fault nothing moves.
In(t, label) == fault = NoFault /\ cpc[t] = label

EpollAt(label) == fault = NoFault /\ epc = label

WorkerAt(w, label) == fault = NoFault /\ hpc[w] = label

Fault(kind, o) == /\ fault' = [kind |-> kind, obj |-> o]
                  /\ UNCHANGED <<mvars, pvars, kvars, ovars, mtvars, cvars, evars, hpc,
                                 cache, refused, noisy>>

-----------------------------------------------------------------------------
(* Calls of the application.  An object is in one call at a time, and in    *)
(* none after edpnet_sock_destroy or edpnet_serv_destroy.                   *)

\* Thread t runs code of the application.
AtCall(t) == /\ t \in Callers
             /\ In(t, "idle")
             /\ t \in Workers => hpc[t] = "callback"
             /\ t = Epoll => epc = "callback"

MayUse(o) == obj[o] = "live" /\ \A t \in Threads : cobj[t] # o

Go(t, label, o) == /\ cpc' = [cpc EXCEPT ![t] = label]
                   /\ cobj' = [cobj EXCEPT ![t] = IF label = "idle" THEN NoObj ELSE o]

Obj(o, state) == obj' = [obj EXCEPT ![o] = state]

\* edpnet_sock_create, edpnet_serv_create: mheap_alloc, and the emit of a sock.
Create(t, o) ==
    /\ AtCall(t)
    /\ obj[o] = "none"
    /\ Obj(o, "new")
    /\ emit' = [s \in Socks |-> IF s = o THEN "live" ELSE emit[s]]
    /\ Go(t, "socket", o)
    /\ UNCHANGED <<mvars, pvars, kvars, es_sock, monitor, pend, evars, hpc, cache, avars>>

\* emit_create fails: the memory of the sock is not given back (edpnet.c:417-421).
CreateNoEmit(t, s) ==
    /\ AtCall(t)
    /\ obj[s] = "none"
    /\ Obj(s, "lost")
    /\ UNCHANGED <<mvars, pvars, kvars, es_sock, monitor, mtvars, cvars, evars, hpc, cache, avars>>

\* socket() and fcntl() succeed.
SocketOpens(t, f) ==
    LET o == cobj[t] IN
    /\ In(t, "socket")
    /\ holder[f] = NoObj
    /\ holder' = [holder EXCEPT ![f] = o]
    /\ es_sock' = [es_sock EXCEPT ![o] = f]
    /\ Go(t, "set", o)
    /\ UNCHANGED <<mvars, pvars, listening, edge, obj, monitor, mtvars, evars, hpc, cache, avars>>

\* One of them fails: everything is given back.
SocketFails(t) ==
    LET o == cobj[t] IN
    /\ In(t, "socket")
    /\ Obj(o, "freed")
    /\ emit' = [s \in Socks |-> IF s = o THEN "freed" ELSE emit[s]]
    /\ Go(t, "idle", o)
    /\ UNCHANGED <<mvars, pvars, kvars, es_sock, monitor, pend, evars, hpc, cache, avars>>

\* edpnet_sock_set of a sock without MONITOR: one that was accepted, or one
\* whose eio_addfd has failed, for edpnet_sock_create hides that.
Set(t, s) ==
    /\ AtCall(t)
    /\ MayUse(s)
    /\ ~monitor[s]
    /\ Go(t, "set", s)
    /\ UNCHANGED <<mvars, pvars, kvars, ovars, mtvars, evars, hpc, cache, avars>>

\* eio_addfd
AddFd(t, i) ==
    LET o == cobj[t] IN
    /\ In(t, "set")
    /\ Mon!Reserve(es_sock[o], i)
    /\ ioe_data' = [ioe_data EXCEPT ![i] = o]
    /\ Go(t, "add", o)
    /\ UNCHANGED <<pvars, kvars, ovars, mtvars, evars, hpc, cache, avars>>

AddNoMem(t) ==
    /\ In(t, "set")
    /\ refused' = refused \cup {cobj[t]}
    /\ Go(t, "refuse", cobj[t])
    /\ UNCHANGED <<mvars, pvars, kvars, ovars, mtvars, evars, hpc, cache, noisy, fault>>

\* epoll_ctl finds the descriptor ready.
AddWatch(t, i) ==
    LET o == cobj[t]
        f == es_sock[o] IN
    /\ In(t, "add")
    /\ ioe_data[i] = o
    /\ holder[f] = o
    /\ epc # "ended"
    /\ Mon!Watch(f, i)
    /\ edge' = edge \cup {f}
    /\ Go(t, "mark", o)
    /\ UNCHANGED <<ioe_data, pvars, holder, listening, ovars, mtvars, evars, hpc, cache, avars>>

\* The number is in the hash set, or epoll_ctl fails.
AddRefused(t, i) ==
    LET o == cobj[t] IN
    /\ In(t, "add")
    /\ ioe_data[i] = o
    /\ Mon!Refuse(es_sock[o], i)
    /\ ioe_data' = [ioe_data EXCEPT ![i] = NoObj]
    /\ refused' = refused \cup {o}
    /\ Go(t, "refuse", o)
    /\ UNCHANGED <<pvars, kvars, ovars, mtvars, evars, hpc, cache, noisy, fault>>

\* The flag MONITOR (the status INIT of a serv); the call hands the object out.
\* The flags are independent here: that the unlocked |= of edpnet.c:485 may undo a
\* handler's CONNECT (228) is left out, and CONNECT is not in this module.
Mark(t) ==
    LET o == cobj[t] IN
    /\ In(t, "mark")
    /\ monitor' = [monitor EXCEPT ![o] = TRUE]
    /\ Obj(o, "live")
    /\ Go(t, "idle", o)
    /\ UNCHANGED <<mvars, pvars, kvars, es_sock, mtvars, evars, hpc, cache, avars>>

\* close(o->es_sock): the number may be nobody's by now.
CloseSock(o) ==
    LET f == es_sock[o] IN
    IF holder[f] = o
    THEN /\ holder' = [holder EXCEPT ![f] = NoObj]
         /\ edge' = edge \ {f}
         /\ Mon!Close(f)
    ELSE /\ holder[f] = NoObj
         /\ UNCHANGED <<holder, edge, fdof, watch>>

\* Or it is the number of another object, for close() and for epoll_ctl().
Foreign(t) ==
    /\ \E label \in {"add", "refuse", "close"} : In(t, label)
    /\ holder[es_sock[cobj[t]]] \notin {NoObj, cobj[t]}
    /\ Fault("foreign", cobj[t])

\* edpnet_sock_set failed: edpnet_sock_create ignores it, edpnet_serv_create not.
Refuse(t) ==
    LET o == cobj[t] IN
    /\ In(t, "refuse")
    /\ CloseSock(o)
    /\ Obj(o, IF o \in Servs THEN "freed" ELSE "live")
    /\ es_sock' = [es_sock EXCEPT ![o] = IF o \in Servs THEN NoFd ELSE @]
    /\ Go(t, "idle", o)
    /\ UNCHANGED <<ioe_data, pvars, listening, monitor, mtvars, evars, hpc, cache, avars>>

\* edpnet_serv_listen
Listen(t, v) ==
    /\ AtCall(t)
    /\ MayUse(v)
    /\ listening' = listening \cup {v}
    /\ UNCHANGED <<mvars, pvars, holder, edge, ovars, mtvars, cvars, evars, hpc, cache, avars>>

\* Something can still reach object o.
Active(o) == \/ \E f \in edge : holder[f] = o
             \/ \E x \in batch : ioe_data[x.ioe] = o
             \/ cur.data = o
             \/ \E e \in Events : Pool!Held(e) /\ ev_emit[e] = o

\* edpnet_sock_destroy clears es_status before sock_fini tests MONITOR: the
\* descriptor is not taken out of the monitor.
SockDestroy(t, s) ==
    /\ AtCall(t)
    /\ MayUse(s)
    /\ monitor' = [monitor EXCEPT ![s] = FALSE]
    /\ Obj(s, "closing")
    /\ noisy' = IF Active(s) THEN noisy \cup {s} ELSE noisy
    /\ Go(t, "close", s)
    /\ UNCHANGED <<mvars, pvars, kvars, es_sock, mtvars, evars, hpc, cache, refused, fault>>

\* edpnet_serv_destroy: eio_delfd, which may not find the descriptor.
ServDestroy(t, v) ==
    /\ AtCall(t)
    /\ MayUse(v)
    /\ \/ /\ Mon!Unwatch(es_sock[v])
          /\ ioe_data' = [ioe_data EXCEPT ![watch[es_sock[v]]] = NoObj]
          /\ edge' = edge \ {es_sock[v]}
       \/ UNCHANGED <<mvars, edge>>
    /\ Obj(v, "closing")
    /\ noisy' = IF Active(v) THEN noisy \cup {v} ELSE noisy
    /\ Go(t, "close", v)
    /\ UNCHANGED <<pvars, holder, listening, es_sock, monitor, mtvars, evars, hpc,
                   cache, refused, fault>>

\* Mutants of Close: the descriptor is left open; it is closed twice; the emit
\* of a sock is not destroyed.
CloseNot(t) ==
    LET o == cobj[t] IN
    /\ In(t, "close")
    /\ Go(t, IF o \in Servs THEN "free" ELSE "emit", o)
    /\ UNCHANGED <<mvars, pvars, kvars, ovars, mtvars, evars, hpc, cache, avars>>

CloseTwice(t) ==
    LET o == cobj[t] IN
    /\ In(t, "close")
    /\ CloseSock(o)
    /\ Go(t, IF holder[es_sock[o]] = o THEN "close" ELSE IF o \in Servs THEN "free" ELSE "emit", o)
    /\ UNCHANGED <<ioe_data, pvars, listening, ovars, mtvars, evars, hpc, cache, avars>>

CloseKeepsEmit(t) ==
    LET o == cobj[t] IN
    /\ In(t, "close")
    /\ CloseSock(o)
    /\ Go(t, "free", o)
    /\ UNCHANGED <<ioe_data, pvars, listening, ovars, mtvars, evars, hpc, cache, avars>>

Close(t) ==
    LET o == cobj[t] IN
    /\ In(t, "close")
    /\ CloseSock(o)
    /\ Go(t, IF o \in Servs THEN "free" ELSE "emit", o)
    /\ UNCHANGED <<ioe_data, pvars, listening, ovars, mtvars, evars, hpc, cache, avars>>

\* emit_destroy: the ASSERT, the test of ee_pendings, ee_init = 0, mheap_free.
DestroyNull(t) ==
    /\ In(t, "emit")
    /\ emit[cobj[t]] = "null"
    /\ Fault("emit_destroy", cobj[t])

DestroyRefused(t) ==
    /\ In(t, "emit")
    /\ emit[cobj[t]] = "live"
    /\ pend[cobj[t]] # 0
    /\ Go(t, "free", cobj[t])
    /\ UNCHANGED <<mvars, pvars, kvars, ovars, mtvars, evars, hpc, cache, avars>>

DestroyTested(t) ==
    /\ In(t, "emit")
    /\ emit[cobj[t]] = "live"
    /\ pend[cobj[t]] = 0
    /\ Go(t, "kill", cobj[t])
    /\ UNCHANGED <<mvars, pvars, kvars, ovars, mtvars, evars, hpc, cache, avars>>

DestroyKills(t) ==
    /\ In(t, "kill")
    /\ emit' = [emit EXCEPT ![cobj[t]] = "dead"]
    /\ Go(t, "unemit", cobj[t])
    /\ UNCHANGED <<mvars, pvars, kvars, ovars, pend, evars, hpc, cache, avars>>

DestroyFrees(t) ==
    /\ In(t, "unemit")
    /\ emit' = [emit EXCEPT ![cobj[t]] = "freed"]
    /\ pend' = [pend EXCEPT ![cobj[t]] = 0]
    /\ Go(t, "free", cobj[t])
    /\ UNCHANGED <<mvars, pvars, kvars, ovars, evars, hpc, cache, avars>>

\* mheap_free(s), whether or not the emit is gone.
Free(t) ==
    /\ In(t, "free")
    /\ Obj(cobj[t], "freed")
    /\ es_sock' = [es_sock EXCEPT ![cobj[t]] = NoFd]
    /\ Go(t, "idle", cobj[t])
    /\ UNCHANGED <<mvars, pvars, kvars, monitor, mtvars, evars, hpc, cache, avars>>

-----------------------------------------------------------------------------
(* The kernel and the epoll thread *)

\* A watched descriptor becomes ready.
Ready(f) ==
    /\ fault = NoFault
    /\ watch[f] # NoIoe
    /\ f \notin edge
    /\ edge' = edge \cup {f}
    /\ noisy' = noisy \cup {o \in Objects : o = holder[f] /\ obj[o] = "closing"}
    /\ UNCHANGED <<mvars, pvars, holder, listening, ovars, mtvars, cvars, evars, hpc, cache,
                   refused, fault>>

\* A socket that is not connected is writable and hung up; one that listens is
\* readable, has an error, or is silent and was on the ready list from before.
Reported(f) == CASE holder[f] \in Socks -> Reports
                 [] holder[f] \in listening -> {{"IN"}, {"HUP"}, {}}
                 [] OTHER -> {{"OUT", "HUP"}}

EpollWait ==
    /\ EpollAt("wait")
    /\ batch = {}
    /\ edge # {}
    /\ \E r \in [edge -> SUBSET Flags] :
          /\ \A f \in edge : r[f] \in Reported(f)
          /\ batch' = {[ioe |-> watch[f], ev |-> r[f]] : f \in {g \in edge : r[g] # {}}}
    /\ edge' = {}
    /\ UNCHANGED <<mvars, pvars, holder, listening, ovars, mtvars, cvars, epc, cur, eev, hpc,
                   cache, avars>>

\* epoll_wait fails, with EINTR for one: the thread closes its epoll and ends.
EpollFails ==
    /\ EpollAt("wait")
    /\ batch = {}
    /\ epc' = "ended"
    /\ Mon!Fail(Fds)
    /\ edge' = {}
    /\ UNCHANGED <<ioe_data, pvars, holder, listening, ovars, mtvars, cvars, batch, cur, eev,
                   hpc, cache, avars>>

\* The next entry: ioe->ioe_cb(ev->events, ioe->ioe_data).
Entry(x) ==
    /\ EpollAt("wait")
    /\ x \in batch
    /\ fdof[x.ioe] # NoFd
    /\ batch' = batch \ {x}
    /\ cur' = [data |-> ioe_data[x.ioe], ev |-> x.ev]
    /\ epc' = "cb"
    /\ UNCHANGED <<mvars, pvars, kvars, ovars, mtvars, cvars, eev, hpc, cache, avars>>

EntryFreed(x) ==
    /\ EpollAt("wait")
    /\ x \in batch
    /\ fdof[x.ioe] = NoFd
    /\ Fault("freed", ioe_data[x.ioe])

\* The object of the entry and the flag its callback looks at.
Data == cur.data

Flag == CHOOSE x \in cur.ev : \A y \in cur.ev : /\ y = "IN" => x = "IN"
                                               /\ y = "OUT" => x # "HUP"

FlagDone == cur' = [cur EXCEPT !.ev = @ \ {Flag}]

\* The callback is through with the flags.
EntryDone ==
    /\ EpollAt("cb")
    /\ cur.ev = {}
    /\ cur' = NoEntry
    /\ epc' = "wait"
    /\ UNCHANGED <<mvars, pvars, kvars, ovars, mtvars, cvars, batch, eev, hpc, cache, avars>>

AtFlag(S) == EpollAt("cb") /\ cur.ev # {} /\ Data \in S

\* The callback looks at an object, a sock or a serv, that is no more.
FlagFreed ==
    /\ AtFlag(Objects)
    /\ obj[Data] = "freed" \/ (Data \in Socks /\ emit[Data] = "freed")
    /\ Fault("freed", Data)

\* sock_worker_cb: edpnet_sock_dispatch of one flag.  emit_dispatch asserts that
\* the sock has an emit.
EmitMissing ==
    /\ AtFlag(Socks)
    /\ obj[Data] # "freed"
    /\ emit[Data] = "null"
    /\ Fault("emit_dispatch", Data)

FreeEvents == {e \in Events : ~Pool!Held(e)}

SockDispatch(e) ==
    /\ AtFlag(Socks)
    /\ obj[Data] # "freed"
    /\ emit[Data] = "live"
    /\ e \in FreeEvents
    /\ eev' = e
    /\ cache' = cache + 1
    /\ epc' = "count"
    /\ UNCHANGED <<mvars, pvars, kvars, ovars, mtvars, cvars, batch, cur, hpc, avars>>

\* Mutant of SockRefused: the event of a refused dispatch is not freed.
SockRefusedKeeps ==
    /\ AtFlag(Socks)
    /\ obj[Data] # "freed"
    /\ FreeEvents = {} \/ emit[Data] = "dead"
    /\ cache' = IF FreeEvents = {} THEN cache ELSE cache + 1
    /\ FlagDone
    /\ UNCHANGED <<mvars, pvars, kvars, ovars, mtvars, cvars, epc, batch, eev, hpc, avars>>

\* No event in the cache, or the emit is on its way out (-EINVAL, the event is
\* freed): the flag is dropped.
SockRefused ==
    /\ AtFlag(Socks)
    /\ obj[Data] # "freed"
    /\ FreeEvents = {} \/ emit[Data] = "dead"
    /\ FlagDone
    /\ UNCHANGED <<mvars, pvars, kvars, ovars, mtvars, cvars, epc, batch, eev, hpc, cache, avars>>

\* atomic_inc(&ee->ee_pendings)
Count ==
    /\ EpollAt("count")
    /\ emit[Data] # "freed"
    /\ pend' = [pend EXCEPT ![Data] = @ + 1]
    /\ epc' = "submit"
    /\ UNCHANGED <<mvars, pvars, kvars, ovars, emit, cvars, batch, cur, eev, hpc, cache, avars>>

CountFreed ==
    /\ EpollAt("count")
    /\ emit[Data] = "freed"
    /\ Fault("freed", Data)

\* __edp_dispatch
Submit(w) ==
    /\ EpollAt("submit")
    /\ Pool!Submit(w, eev, NORM)
    /\ ev_emit' = [ev_emit EXCEPT ![eev] = Data]
    /\ eev' = NoEvent
    /\ FlagDone
    /\ epc' = "cb"
    /\ UNCHANGED <<mvars, kvars, ovars, mtvars, cvars, batch, hpc, cache, avars>>

\* serv_worker_cb, EPOLLIN: accept(), sock_init, the callback `connected' gets a
\* sock without an emit.
Accept(s, f) ==
    /\ AtFlag(Servs)
    /\ obj[Data] # "freed"
    /\ Flag = "IN"
    /\ obj[s] = "none"
    /\ holder[f] = NoObj
    /\ Obj(s, "live")
    /\ holder' = [holder EXCEPT ![f] = s]
    /\ es_sock' = [es_sock EXCEPT ![s] = f]
    /\ epc' = "callback"
    /\ UNCHANGED <<mvars, pvars, listening, edge, monitor, mtvars, cvars, batch, cur, eev, hpc,
                   cache, avars>>

\* accept() fails: the memory of the sock is lost, the other flags are not looked at.
AcceptFails(s) ==
    /\ AtFlag(Servs)
    /\ obj[Data] # "freed"
    /\ Flag = "IN"
    /\ obj[s] = "none"
    /\ Obj(s, "lost")
    /\ cur' = [cur EXCEPT !.ev = {}]
    /\ UNCHANGED <<mvars, pvars, kvars, es_sock, monitor, mtvars, cvars, epc, batch, eev, hpc,
                   cache, avars>>

\* mheap_alloc fails: return.
AcceptNoMem ==
    /\ AtFlag(Servs)
    /\ obj[Data] # "freed"
    /\ Flag = "IN"
    /\ cur' = [cur EXCEPT !.ev = {}]
    /\ UNCHANGED <<mvars, pvars, kvars, ovars, mtvars, cvars, epc, batch, eev, hpc, cache, avars>>

\* EPOLLOUT: ASSERT(0).
ServOut ==
    /\ AtFlag(Servs)
    /\ obj[Data] # "freed"
    /\ Flag = "OUT"
    /\ Fault("serv_worker_cb", Data)

\* The callback `close'.
ServHup ==
    /\ AtFlag(Servs)
    /\ obj[Data] # "freed"
    /\ Flag = "HUP"
    /\ epc' = "callback"
    /\ UNCHANGED <<mvars, pvars, kvars, ovars, mtvars, cvars, batch, cur, eev, hpc, cache, avars>>

ServReturns ==
    /\ EpollAt("callback")
    /\ cpc[Epoll] = "idle"
    /\ FlagDone
    /\ epc' = "cb"
    /\ UNCHANGED <<mvars, pvars, kvars, ovars, mtvars, cvars, batch, eev, hpc, cache, avars>>

-----------------------------------------------------------------------------
(* The workers: emit_event_handler *)

At(w, label) == hpc' = [hpc EXCEPT ![w] = label]

Sock(w) == ev_emit[running[w]]

\* emit_check, then the handler of the sock.
Start(w, e) ==
    /\ WorkerAt(w, "idle")
    /\ Pool!Start(w, e)
    /\ emit[ev_emit[e]] # "freed"
    /\ At(w, "handler")
    /\ UNCHANGED <<mvars, ev_emit, kvars, ovars, mtvars, cvars, evars, cache, avars>>

StartFreed(w, e) ==
    /\ WorkerAt(w, "idle")
    /\ Pool!Waits(w, e)
    /\ emit[ev_emit[e]] = "freed"
    /\ Fault("freed", ev_emit[e])

\* emit_get, the flags of the sock, its callback.
Callback(w) ==
    /\ WorkerAt(w, "handler")
    /\ obj[Sock(w)] # "freed"
    /\ At(w, "callback")
    /\ UNCHANGED <<mvars, pvars, kvars, ovars, mtvars, cvars, evars, cache, avars>>

CallbackFreed(w) ==
    /\ WorkerAt(w, "handler")
    /\ obj[Sock(w)] = "freed"
    /\ Fault("freed", Sock(w))

\* Mutant of Return: ee_pendings is not decremented.
ReturnUncounted(w) ==
    /\ WorkerAt(w, "callback")
    /\ cpc[w] = "idle"
    /\ emit[Sock(w)] # "freed"
    /\ At(w, "done")
    /\ UNCHANGED <<mvars, pvars, kvars, ovars, mtvars, cvars, evars, cache, avars>>

\* atomic_dec(&ee->ee_pendings)
Return(w) ==
    /\ WorkerAt(w, "callback")
    /\ cpc[w] = "idle"
    /\ emit[Sock(w)] # "freed"
    /\ pend' = [pend EXCEPT ![Sock(w)] = @ - 1]
    /\ At(w, "done")
    /\ UNCHANGED <<mvars, pvars, kvars, ovars, emit, cvars, evars, cache, avars>>

ReturnFreed(w) ==
    /\ WorkerAt(w, "callback")
    /\ cpc[w] = "idle"
    /\ emit[Sock(w)] = "freed"
    /\ Fault("freed", Sock(w))

\* Mutant of Done: emit_event_handler frees the event, too.
DoneFreesTwice(w) ==
    /\ WorkerAt(w, "done")
    /\ Pool!Finish(w)
    /\ ev_emit' = [ev_emit EXCEPT ![running[w]] = NoObj]
    /\ cache' = cache - 2
    /\ At(w, "idle")
    /\ UNCHANGED <<mvars, kvars, ovars, mtvars, cvars, evars, avars>>

\* edp_event_done: edpnet_sock_done frees the event.
Done(w) ==
    /\ WorkerAt(w, "done")
    /\ Pool!Finish(w)
    /\ ev_emit' = [ev_emit EXCEPT ![running[w]] = NoObj]
    /\ cache' = cache - 1
    /\ At(w, "idle")
    /\ UNCHANGED <<mvars, kvars, ovars, mtvars, cvars, evars, avars>>

-----------------------------------------------------------------------------
CallStep(t) == \/ \E o \in Objects : Create(t, o)
               \/ \E s \in Socks : CreateNoEmit(t, s) \/ Set(t, s) \/ SockDestroy(t, s)
               \/ \E v \in Servs : Listen(t, v) \/ ServDestroy(t, v)
               \/ \E f \in Fds : SocketOpens(t, f)
               \/ \E i \in Ioes : AddFd(t, i) \/ AddWatch(t, i) \/ AddRefused(t, i)
               \/ SocketFails(t) \/ AddNoMem(t) \/ Mark(t) \/ Refuse(t)
               \/ Close(t) \/ Foreign(t)
               \/ DestroyNull(t) \/ DestroyRefused(t) \/ DestroyTested(t)
               \/ DestroyKills(t) \/ DestroyFrees(t) \/ Free(t)

EpollStep == \/ EpollWait \/ EpollFails \/ EntryDone \/ FlagFreed
             \/ \E x \in batch : Entry(x) \/ EntryFreed(x)
             \/ EmitMissing \/ SockRefused \/ Count \/ CountFreed
             \/ \E e \in Events : SockDispatch(e)
             \/ \E w \in Workers : Submit(w)
             \/ \E s \in Socks : AcceptFails(s) \/ \E f \in Fds : Accept(s, f)
             \/ AcceptNoMem \/ ServOut \/ ServHup \/ ServReturns

WorkerStep(w) == \/ \E e \in Events : Start(w, e) \/ StartFreed(w, e)
                 \/ Callback(w) \/ CallbackFreed(w) \/ Return(w) \/ ReturnFreed(w) \/ Done(w)

Next == \/ \E t \in Threads : CallStep(t)
        \/ \E f \in Fds : Ready(f)
        \/ EpollStep
        \/ \E w \in Workers : WorkerStep(w)

Spec == Init /\ [][Next]_vars
-----------------------------------------------------------------------------
(* Properties *)

\* Types of all variables; a thread has an object exactly within a call.
TypeOK ==
    /\ fdof \in [Ioes -> Fds \cup {NoFd}]
    /\ watch \in [Fds -> Ioes \cup {NoIoe}]
    /\ ioe_data \in [Ioes -> Objects \cup {NoObj}]
    /\ ev_emit \in [Events -> Socks \cup {NoObj}]
    /\ holder \in [Fds -> Objects \cup {NoObj}]
    /\ listening \subseteq Servs
    /\ edge \subseteq {f \in Fds : watch[f] # NoIoe}
    /\ obj \in [Objects -> {"none", "new", "live", "closing", "freed", "lost"}]
    /\ es_sock \in [Objects -> Fds \cup {NoFd}]
    /\ monitor \in [Objects -> BOOLEAN]
    /\ emit \in [Socks -> {"null", "live", "dead", "freed"}]
    /\ pend \in [Socks -> Nat]
    /\ cpc \in [Threads -> {"idle", "socket", "set", "add", "mark", "refuse", "close", "emit",
                              "kill", "unemit", "free"}]
    /\ \A t \in Threads : IF cpc[t] = "idle" THEN cobj[t] = NoObj ELSE cobj[t] \in Objects
    /\ epc \in {"wait", "cb", "count", "submit", "callback", "ended"}
    /\ batch \subseteq [ioe : Ioes, ev : (SUBSET Flags) \ {{}}]
    /\ cur = NoEntry <=> epc \in {"wait", "ended"}
    /\ eev \in Events \cup {NoEvent}
    /\ hpc \in [Workers -> {"idle", "handler", "callback", "done"}]
    /\ cache \in Nat

\* Freed memory is touched only when the application has destroyed an object
\* while something could reach it: readiness that came in or was being worked
\* off.  (Which object suffers may be another, one that got the eio_event_t of
\* the destroyed one; edpnet.c:449-466, 709-727, eio-epoll.c:221-229, emitter.c:58-85).
TouchSafe == fault # NoFault /\ fault.kind = "freed" => noisy # {}

\* A call works on a descriptor another object has open only for an object
\* whose eio_addfd had failed (edpnet.c:460-462, 480-484).
CloseSafe == fault # NoFault /\ fault.kind = "foreign" => fault.obj \in refused

\* An object destroyed while nothing could reach it leaves nothing behind that
\* can: its descriptor is not open, no epoll reports with its address and its
\* emit is freed (edpnet.c:449-466, 709-727).
DestroyComplete ==
    \A o \in Objects : obj[o] = "freed" /\ o \notin noisy =>
        /\ \A f \in Fds : /\ holder[f] # o
                          /\ watch[f] # NoIoe => ioe_data[watch[f]] # o
        /\ o \in Socks => emit[o] = "freed"

\* The events of ed_evcache in somebody's hands are those it counts: no path of
\* a dispatch leaks an event or frees it twice (edpnet.c:313-340, mcache.c:68-90),
\* and mcache_destroy refuses exactly when one is out.
CacheBalanced ==
    cache = Cardinality({e \in Events : Pool!Held(e) \/ eev = e})

\* ee_pendings counts the events of the emit that were counted and whose
\* handler has not returned; emit_destroy decides by it (emitter.c:82, 117, 190).
PendExact ==
    \A s \in Socks : emit[s] \in {"live", "dead"} =>
        pend[s] = Cardinality({e \in Events :
                      \/ epc = "submit" /\ eev = e /\ Data = s
                      \/ \E w \in Workers : /\ ev_emit[e] = s
                                            /\ \/ Pool!Waits(w, e)
                                               \/ running[w] = e /\ hpc[w] # "done"})
=============================================================================
