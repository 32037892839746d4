------------------------------- MODULE EdpSock -------------------------------
(****************************************************************************)
(* A sock of edp.io, posix/edpnet.c, from edpnet_sock_create on: the epoll  *)
(* thread turns the readiness of the descriptor into events of the sock's   *)
(* emit (sock_worker_cb), the workers run the sock's handlers, which write  *)
(* the pending ios and call the application back, and the application calls *)
(* edpnet_sock_write and edpnet_sock_read from its callbacks or from        *)
(* threads of its own.  The worker pool is EventPool; the emit has all its  *)
(* handlers and is not destroyed, so that emit_dispatch goes straight to    *)
(* the pool.  The kernel's end of the connection is modelled from outside.  *)
(****************************************************************************)
EXTENDS Integers, Sequences, FiniteSets

CONSTANTS Workers,
          Clients,      \* threads of the application that write and read
          Ios,          \* the ioctx_t objects
          NoIo,
          Events,       \* bound of the model: events of ed_evcache in use
          NoEvent, NoType

NORM == "norm"
Threads == Clients \cup Workers

ASSUME SockAssumption ==
    /\ Clients \cap Workers = {}
    /\ NoIo \notin Ios
    /\ NoEvent \notin Events

VARIABLES
    waiting, ahead, running,    \* the worker pool
    etype,                      \* ev_type
    connect, write, read,       \* the flags CONNECT, WRITE, READ of es_status
    es_write, es_iowrites, es_pendios,
    conn, room, data,           \* kernel: the connection, space to write, data to read
    edge,                       \* kernel: the descriptor is on the epoll ready list
    todo,                       \* what sock_worker_cb has yet to dispatch
    hpc, hio,                   \* where worker w is in a handler; its ioc or ion
    cpc, cio,                   \* where thread t is in a call; its argument io
    owed,                       \* auxiliary: the ios given to sock_write, in the order of the
                                \* calls, that are not called back; the others are the application's
    result,                     \* auxiliary: what the last sock_write of an owed io returned
    missed                      \* auxiliary: since epoll last reported, an EPOLLIN was dropped
                                \* or a read() failed with data left

pvars == <<waiting, ahead, running, etype>>
svars == <<connect, write, read>>
wvars == <<es_write, es_iowrites, es_pendios>>
kvars == <<conn, room, data, edge>>
hvars == <<hpc, hio>>
cvars == <<cpc, cio>>
avars == <<owed, result, missed>>
vars == <<pvars, svars, wvars, kvars, todo, hvars, cvars, avars>>

Pool == INSTANCE EventPool WITH Classes <- {NORM}, Ordered <- {NORM}

\* edpnet_sock_set has put the descriptor, not connected yet, into the epoll.
Init ==
    /\ Pool!Init
    /\ etype = [e \in Events |-> NoType]
    /\ connect = FALSE /\ write = FALSE /\ read = FALSE
    /\ es_write = NoIo
    /\ es_iowrites = <<>>
    /\ es_pendios = 0
    /\ conn = "none" /\ room = TRUE /\ data = FALSE
    /\ edge = TRUE
    /\ todo = <<>>
    /\ hpc = [w \in Workers |-> "idle"]
    /\ hio = [w \in Workers |-> NoIo]
    /\ cpc = [t \in Threads |-> "idle"]
    /\ cio = [t \in Threads |-> NoIo]
    /\ owed = <<>>
    /\ result = [i \in Ios |-> "none"]
    /\ missed = FALSE

-----------------------------------------------------------------------------
(* The kernel *)

\* edpnet_sock_connect, then the answer of the peer.
Connect ==
    /\ conn = "none"
    /\ conn' = "connecting"
    /\ UNCHANGED <<pvars, svars, wvars, room, data, edge, todo, hvars, cvars, avars>>

Answer ==
    /\ conn = "connecting"
    /\ conn' \in {"up", "down"}
    /\ edge' = TRUE
    /\ UNCHANGED <<pvars, svars, wvars, room, data, todo, hvars, cvars, avars>>

DataArrives ==
    /\ conn = "up"
    /\ data' = TRUE
    /\ edge' = TRUE
    /\ UNCHANGED <<pvars, svars, wvars, conn, room, todo, hvars, cvars, avars>>

RoomAgain ==
    /\ conn = "up"
    /\ ~room
    /\ room' = TRUE
    /\ edge' = TRUE
    /\ UNCHANGED <<pvars, svars, wvars, conn, data, todo, hvars, cvars, avars>>

PeerCloses ==
    /\ conn = "up"
    /\ conn' = "down"
    /\ edge' = TRUE
    /\ UNCHANGED <<pvars, svars, wvars, room, data, todo, hvars, cvars, avars>>

\* What epoll reports: a socket that is not connected is writable and hung up.
Reported == CASE conn = "none" -> {"OUT", "HUP"}
              [] conn = "connecting" -> {}
              [] conn = "up" -> {x \in {"OUT", "IN"} : IF x = "OUT" THEN room ELSE data}
              [] conn = "down" -> {"OUT", "IN", "ERR", "HUP"}

\* write(): what it returns and the space it leaves.
Writes(r, left) ==
    CASE conn = "up" /\ room -> r = "sent" /\ left \in BOOLEAN
      [] conn = "up" /\ ~room -> r = "again" /\ left = room
      [] conn = "connecting" -> r = "again" /\ left = room
      [] OTHER -> r = "error" /\ left = room

SockWrite(i, r) ==
    /\ \E left \in BOOLEAN : Writes(r, left) /\ room' = left
    /\ result' = [result EXCEPT ![i] = r]

-----------------------------------------------------------------------------
(* The epoll thread: sock_worker_cb dispatches OUT, IN, ERR, HUP in turn.   *)

Flag(x) == IF x \in Reported THEN <<x>> ELSE <<>>

EpollWait ==
    /\ edge
    /\ todo = <<>>
    /\ edge' = FALSE
    /\ todo' = Flag("OUT") \o Flag("IN") \o Flag("ERR") \o Flag("HUP")
    /\ missed' = FALSE
    /\ UNCHANGED <<pvars, svars, wvars, conn, room, data, hvars, cvars, owed, result>>

\* edpnet_sock_dispatch: an event of the cache, accepted by some worker.
SockDispatch(w, e, type) ==
    /\ Pool!Submit(w, e, NORM)
    /\ etype' = [etype EXCEPT ![e] = type]

EpollDispatch(w, e) ==
    /\ todo # <<>>
    /\ SockDispatch(w, e, Head(todo))
    /\ todo' = Tail(todo)
    /\ UNCHANGED <<svars, wvars, kvars, hvars, cvars, avars>>

\* edpnet_alloc_event returns NULL, at any time: sock_worker_cb ignores that what
\* it had to report is dropped, and the edge-triggered epoll does not repeat it.
EpollNoEvent ==
    /\ todo # <<>>
    /\ todo' = Tail(todo)
    /\ missed' = (missed \/ Head(todo) = "IN")
    /\ UNCHANGED <<pvars, svars, wvars, kvars, hvars, cvars, owed, result>>

-----------------------------------------------------------------------------
(* edpnet_sock_write and edpnet_sock_read *)

\* Thread t runs code of the application: its own, a callback of a handler, or
\* the callback of a direct write.
AtCall(t) == \/ cpc[t] = "idle" /\ (t \in Workers => hpc[t] \in {"callback", "iocb"})
             \/ cpc[t] = "incb"

Call(t, label) == cpc' = [cpc EXCEPT ![t] = label]

Owed(i) == \E k \in DOMAIN owed : owed[k] = i

\* ioc_iocb is called: io i is the application's again.
GiveBack(i) ==
    /\ result' = [result EXCEPT ![i] = "none"]
    /\ \/ ~Owed(i) /\ UNCHANGED owed
       \/ \E k \in DOMAIN owed :
             /\ owed[k] = i
             /\ owed' = SubSeq(owed, 1, k - 1) \o SubSeq(owed, k + 1, Len(owed))

\* Not from the callback of a direct write: WRITE is set there.
WriteDirect(t, i) ==
    /\ AtCall(t) /\ cpc[t] = "idle"
    /\ ~Owed(i)
    /\ ~write /\ es_write = NoIo
    /\ es_write' = i
    /\ write' = TRUE
    /\ owed' = Append(owed, i)
    /\ cio' = [cio EXCEPT ![t] = i]
    /\ Call(t, "write")
    /\ UNCHANGED <<pvars, connect, read, es_iowrites, es_pendios, kvars, todo, hvars, result,
                   missed>>

\* Mutant of WriteQueue: list_add instead of list_add_tail.
WriteQueueFront(t, i) ==
    /\ AtCall(t)
    /\ ~Owed(i)
    /\ write \/ es_write # NoIo
    /\ es_iowrites' = <<i>> \o es_iowrites
    /\ es_pendios' = es_pendios + 1
    /\ owed' = Append(owed, i)
    /\ UNCHANGED <<pvars, svars, es_write, kvars, todo, hvars, cvars, result, missed>>

WriteQueue(t, i) ==
    /\ AtCall(t)
    /\ ~Owed(i)
    /\ write \/ es_write # NoIo
    /\ es_iowrites' = Append(es_iowrites, i)
    /\ es_pendios' = es_pendios + 1
    /\ owed' = Append(owed, i)
    /\ UNCHANGED <<pvars, svars, es_write, kvars, todo, hvars, cvars, result, missed>>

\* EAGAIN: the io stays in es_write, the call returns.
WriteNow(t) ==
    /\ cpc[t] = "write"
    /\ \E r \in {"sent", "again", "error"} :
          /\ SockWrite(cio[t], r)
          /\ IF r = "again" THEN Call(t, "idle") /\ cio' = [cio EXCEPT ![t] = NoIo]
                            ELSE Call(t, "clear") /\ UNCHANGED cio
    /\ UNCHANGED <<pvars, svars, wvars, conn, data, edge, todo, hvars, owed, missed>>

WriteClear(t) ==
    /\ cpc[t] = "clear"
    /\ es_write' = NoIo
    /\ Call(t, "cb")
    /\ UNCHANGED <<pvars, svars, es_iowrites, es_pendios, kvars, todo, hvars, cio, avars>>

\* cb(sock, io, ret): the io is the application's again, which may call from here.
WriteCallback(t) ==
    /\ cpc[t] = "cb"
    /\ GiveBack(cio[t])
    /\ cio' = [cio EXCEPT ![t] = NoIo]
    /\ Call(t, "incb")
    /\ UNCHANGED <<pvars, svars, wvars, kvars, todo, hvars, missed>>

WriteCallbackReturns(t) ==
    /\ cpc[t] = "incb"
    /\ Call(t, "dispatch")
    /\ UNCHANGED <<pvars, svars, wvars, kvars, todo, hvars, cio, avars>>

WriteDispatch(t, w, e) ==
    /\ cpc[t] = "dispatch"
    /\ SockDispatch(w, e, "OUT")
    /\ Call(t, "idle")
    /\ UNCHANGED <<svars, wvars, kvars, todo, hvars, cio, avars>>

\* The call, too, ignores that there is no event.
WriteNoEvent(t) ==
    /\ cpc[t] = "dispatch"
    /\ Call(t, "idle")
    /\ UNCHANGED <<pvars, svars, wvars, kvars, todo, hvars, cio, avars>>

\* A read from the callback of a direct write has labels of its own.
Nested(t) == cpc[t] \in {"incb", "cbread", "cbclear"}

\* Without READ the call changes nothing.
ReadCall(t) ==
    /\ AtCall(t)
    /\ read
    /\ Call(t, IF Nested(t) THEN "cbread" ELSE "read")
    /\ UNCHANGED <<pvars, svars, wvars, kvars, todo, hvars, cio, avars>>

ReadReturns(t) == Call(t, IF Nested(t) THEN "incb" ELSE "idle")

ReadFails(t) == Call(t, IF Nested(t) THEN "cbclear" ELSE "clearread")

\* Mutant of ReadNow: READ is cleared after a read that left data behind.
ReadNowClears(t) ==
    /\ cpc[t] \in {"read", "cbread"}
    /\ ReadFails(t)
    /\ data' \in {FALSE, data}
    /\ UNCHANGED <<pvars, svars, wvars, conn, room, edge, todo, hvars, cio, avars>>

\* read() takes all data or a part, or returns 0 when the peer is gone; it fails
\* without data, EAGAIN, and may fail with data, which then stays.
ReadNow(t) ==
    /\ cpc[t] \in {"read", "cbread"}
    /\ \/ /\ data \/ conn = "down"
          /\ data' \in {FALSE, data}
          /\ ReadReturns(t)
          /\ UNCHANGED missed
       \/ /\ ReadFails(t)
          /\ missed' = (missed \/ data)
          /\ UNCHANGED data
    /\ UNCHANGED <<pvars, svars, wvars, conn, room, edge, todo, hvars, cio, owed, result>>

\* Whatever the error was.
ReadClear(t) ==
    /\ cpc[t] \in {"clearread", "cbclear"}
    /\ read' = FALSE
    /\ ReadReturns(t)
    /\ UNCHANGED <<pvars, connect, write, wvars, kvars, todo, hvars, cio, avars>>

-----------------------------------------------------------------------------
(* The handlers, run by the workers through emit_event_handler.             *)

At(w, label) == hpc' = [hpc EXCEPT ![w] = label]

StartHandler(w, e) ==
    /\ hpc[w] = "idle"
    /\ Pool!Start(w, e)
    /\ At(w, etype[e])
    /\ UNCHANGED <<etype, svars, wvars, kvars, todo, hio, cvars, avars>>

\* edpnet_sock_epollout_handler: the connection is there, sock_connect.
OutConnects(w) ==
    /\ hpc[w] = "OUT"
    /\ ~connect
    /\ At(w, "connect")
    /\ UNCHANGED <<pvars, svars, wvars, kvars, todo, hio, cvars, avars>>

SetConnect(w) ==
    /\ hpc[w] = "connect"
    /\ connect' = TRUE
    /\ At(w, "callback")
    /\ UNCHANGED <<pvars, write, read, wvars, kvars, todo, hio, cvars, avars>>

\* WRITE: the current io when there is one, else the next; data_drain without.
OutWrites(w) ==
    /\ hpc[w] = "OUT"
    /\ connect /\ write
    /\ At(w, "current")
    /\ UNCHANGED <<pvars, svars, wvars, kvars, todo, hio, cvars, avars>>

OutDrains(w) ==
    /\ hpc[w] = "OUT"
    /\ connect /\ ~write
    /\ At(w, "callback")
    /\ UNCHANGED <<pvars, svars, wvars, kvars, todo, hio, cvars, avars>>

\* Mutant of TakeCurrent: es_write is not set to NULL.
TakeCurrentKeeps(w) ==
    /\ hpc[w] = "current"
    /\ es_write # NoIo
    /\ hio' = [hio EXCEPT ![w] = es_write]
    /\ At(w, "okay")
    /\ UNCHANGED <<pvars, svars, wvars, kvars, todo, cvars, avars>>

TakeCurrent(w) ==
    /\ hpc[w] = "current"
    /\ es_write # NoIo
    /\ hio' = [hio EXCEPT ![w] = es_write]
    /\ es_write' = NoIo
    /\ At(w, "okay")
    /\ UNCHANGED <<pvars, svars, es_iowrites, es_pendios, kvars, todo, cvars, avars>>

NoCurrent(w) ==
    /\ hpc[w] = "current"
    /\ es_write = NoIo
    /\ At(w, "next")
    /\ UNCHANGED <<pvars, svars, wvars, kvars, todo, hio, cvars, avars>>

\* ioc_iocb(s, ioc, 0)
Okay(w) ==
    /\ hpc[w] = "okay"
    /\ GiveBack(hio[w])
    /\ hio' = [hio EXCEPT ![w] = NoIo]
    /\ At(w, "callback")
    /\ UNCHANGED <<pvars, svars, wvars, kvars, todo, cvars, missed>>

\* sock_write_next(s, 1): WRITE stays set when nothing is left to write.
NextEmpty(w) ==
    /\ hpc[w] = "next"
    /\ es_pendios <= 0
    /\ At(w, "done")
    /\ UNCHANGED <<pvars, svars, wvars, kvars, todo, hio, cvars, avars>>

\* Mutant of NextTake: es_pendios is not decremented.
NextTakeUncounted(w) ==
    /\ hpc[w] = "next"
    /\ es_pendios > 0
    /\ es_iowrites # <<>>
    /\ es_write' = Head(es_iowrites)
    /\ hio' = [hio EXCEPT ![w] = Head(es_iowrites)]
    /\ es_iowrites' = Tail(es_iowrites)
    /\ At(w, "write")
    /\ UNCHANGED <<pvars, svars, es_pendios, kvars, todo, cvars, avars>>

NextTake(w) ==
    /\ hpc[w] = "next"
    /\ es_pendios > 0
    /\ es_write' = Head(es_iowrites)
    /\ hio' = [hio EXCEPT ![w] = Head(es_iowrites)]
    /\ es_iowrites' = Tail(es_iowrites)
    /\ es_pendios' = es_pendios - 1
    /\ At(w, "write")
    /\ UNCHANGED <<pvars, svars, kvars, todo, cvars, avars>>

NextWrite(w) ==
    /\ hpc[w] = "write"
    /\ \E r \in {"sent", "again", "error"} :
          /\ SockWrite(hio[w], r)
          /\ IF r = "again" THEN At(w, "done") /\ hio' = [hio EXCEPT ![w] = NoIo]
                            ELSE At(w, "clear") /\ UNCHANGED hio
    /\ UNCHANGED <<pvars, svars, wvars, conn, data, edge, todo, cvars, owed, missed>>

NextClear(w) ==
    /\ hpc[w] = "clear"
    /\ es_write' = NoIo
    /\ At(w, "written")
    /\ UNCHANGED <<pvars, svars, es_iowrites, es_pendios, kvars, todo, hio, cvars, avars>>

\* ioc_iocb(s, ion, ret), then the loop goes on.
NextCallback(w) ==
    /\ hpc[w] = "written"
    /\ GiveBack(hio[w])
    /\ hio' = [hio EXCEPT ![w] = NoIo]
    /\ At(w, "iocb")
    /\ UNCHANGED <<pvars, svars, wvars, kvars, todo, cvars, missed>>

NextReturns(w) ==
    /\ hpc[w] = "iocb"
    /\ cpc[w] = "idle"
    /\ At(w, "next")
    /\ UNCHANGED <<pvars, svars, wvars, kvars, todo, hio, cvars, avars>>

\* edpnet_sock_epollin_handler: data_ready once per READ.
InReady(w) ==
    /\ hpc[w] = "IN"
    /\ ~read
    /\ read' = TRUE
    /\ At(w, "callback")
    /\ UNCHANGED <<pvars, connect, write, wvars, kvars, todo, hio, cvars, avars>>

InAgain(w) ==
    /\ hpc[w] = "IN"
    /\ read
    /\ At(w, "done")
    /\ UNCHANGED <<pvars, svars, wvars, kvars, todo, hio, cvars, avars>>

\* edpnet_sock_epollerr_handler: sock_error.
Err(w) ==
    /\ hpc[w] = "ERR"
    /\ At(w, "callback")
    /\ UNCHANGED <<pvars, svars, wvars, kvars, todo, hio, cvars, avars>>

\* edpnet_sock_epollhup_handler: sock_close.
Hup(w) ==
    /\ hpc[w] = "HUP"
    /\ connect' = FALSE
    /\ At(w, "callback")
    /\ UNCHANGED <<pvars, write, read, wvars, kvars, todo, hio, cvars, avars>>

CallbackReturns(w) ==
    /\ hpc[w] = "callback"
    /\ cpc[w] = "idle"
    /\ At(w, "done")
    /\ UNCHANGED <<pvars, svars, wvars, kvars, todo, hio, cvars, avars>>

\* edpnet_sock_done frees the event.
HandlerDone(w) ==
    /\ hpc[w] = "done"
    /\ Pool!Finish(w)
    /\ etype' = [etype EXCEPT ![running[w]] = NoType]
    /\ At(w, "idle")
    /\ UNCHANGED <<svars, wvars, kvars, todo, hio, cvars, avars>>

-----------------------------------------------------------------------------
Kernel == Connect \/ Answer \/ DataArrives \/ RoomAgain \/ PeerCloses

EpollStep == \/ EpollWait \/ EpollNoEvent
             \/ \E w \in Workers, e \in Events : EpollDispatch(w, e)

CallStep(t) == \/ \E i \in Ios : WriteDirect(t, i) \/ WriteQueue(t, i)
               \/ WriteNow(t) \/ WriteClear(t) \/ WriteCallback(t)
               \/ WriteCallbackReturns(t)
               \/ \E w \in Workers, e \in Events : WriteDispatch(t, w, e)
               \/ WriteNoEvent(t)
               \/ ReadCall(t) \/ ReadNow(t) \/ ReadClear(t)

HandlerStep(w) == \/ \E e \in Events : StartHandler(w, e)
                  \/ OutConnects(w) \/ SetConnect(w) \/ OutWrites(w) \/ OutDrains(w)
                  \/ TakeCurrent(w) \/ NoCurrent(w) \/ Okay(w)
                  \/ NextEmpty(w) \/ NextTake(w) \/ NextWrite(w) \/ NextClear(w)
                  \/ NextCallback(w) \/ NextReturns(w)
                  \/ InReady(w) \/ InAgain(w) \/ Err(w) \/ Hup(w)
                  \/ CallbackReturns(w) \/ HandlerDone(w)

Next == \/ Kernel
        \/ EpollStep
        \/ \E t \in Threads : CallStep(t)
        \/ \E w \in Workers : HandlerStep(w)

Spec == Init /\ [][Next]_vars

-----------------------------------------------------------------------------
(* Properties *)

\* Types of all variables; es_pendios counts the queued ios (the ASSERT of
\* edpnet.c:185); a thread has its io exactly while it needs it.
TypeOK ==
    /\ etype \in [Events -> {"OUT", "IN", "ERR", "HUP", NoType}]
    /\ {connect, write, read, room, data, edge, missed} \subseteq BOOLEAN
    /\ es_write \in Ios \cup {NoIo}
    /\ es_iowrites \in Seq(Ios)
    /\ es_pendios = Len(es_iowrites)
    /\ conn \in {"none", "connecting", "up", "down"}
    /\ todo \in Seq({"OUT", "IN", "ERR", "HUP"})
    /\ hpc \in [Workers -> {"idle", "OUT", "IN", "ERR", "HUP", "connect", "current", "okay",
                             "next", "write", "clear", "written", "iocb", "callback", "done"}]
    /\ hio \in [Workers -> Ios \cup {NoIo}]
    /\ \A w \in Workers : hio[w] # NoIo <=> hpc[w] \in {"okay", "write", "clear", "written"}
    /\ cpc \in [Threads -> {"idle", "write", "clear", "cb", "incb", "cbread", "cbclear",
                             "dispatch", "read", "clearread"}]
    /\ cio \in [Threads -> Ios \cup {NoIo}]
    /\ \A t \in Threads : cio[t] # NoIo <=> cpc[t] \in {"write", "clear", "cb"}
    /\ owed \in Seq(Ios)
    /\ result \in [Ios -> {"none", "sent", "again", "error"}]

\* Who will call back for io i: a handler or a call that has it, the queue, or
\* es_write when nobody is writing what it holds.
Duties(i) ==
    {<<"handler", w>> : w \in {v \in Workers : hio[v] = i}}
    \cup {<<"call", t>> : t \in {u \in Threads : cio[u] = i}}
    \cup {<<"queue", k>> : k \in {j \in DOMAIN es_iowrites : es_iowrites[j] = i}}
    \cup (IF es_write = i /\ (\A w \in Workers : hio[w] # i) /\ (\A t \in Threads : cio[t] # i)
          THEN {<<"current">>} ELSE {})

\* Every io given to edpnet_sock_write is owed exactly one callback, and one
\* that was called back is nowhere in the sock (edpnet.c:177-207, 235-250,
\* 526-555): no io is dropped, called back twice or used after its callback.
OneCallback ==
    \A i \in Ios : IF Owed(i) THEN Cardinality(Duties(i)) = 1 ELSE Duties(i) = {}

\* The ios are called back in the order of the calls of edpnet_sock_write: the
\* one a handler or a call is about to report, wherever it was kept meanwhile
\* (es_write after EAGAIN, the list), is the oldest that is owed
\* (edpnet.c:184-207, 232-250, 526-555).
InOrder ==
    \A i \in Ios :
        \/ \E w \in Workers : hpc[w] \in {"okay", "written"} /\ hio[w] = i
        \/ \E t \in Threads : cpc[t] = "cb" /\ cio[t] = i
        => owed # <<>> /\ i = Head(owed)

\* data_ready is lost in two ways only: data that came in and was not announced
\* (READ is clear) has an EPOLLIN event under way (edpnet.c:269-278), unless since
\* the last report of epoll an EPOLLIN found no event (edpnet.c:325-329) or a
\* read() failed with the data left, which clears READ like EAGAIN (588-594).
ReadyNotLost ==
    conn = "up" /\ data /\ ~read =>
        \/ missed
        \/ edge
        \/ \E k \in DOMAIN todo : todo[k] = "IN"
        \/ \E w \in Workers : \/ hpc[w] = "IN"
                              \/ \E x \in waiting[w] : etype[x[1]] = "IN"

\* The ASSERT of edpnet.c:266: the EPOLLIN handler runs on a connected sock.
ConnectBeforeData == \A w \in Workers : hpc[w] = "IN" => connect

\* edpnet.c:238, "current write io is oky": an io the EPOLLOUT handler reports
\* with 0 has been written.
OkayWritten == \A w \in Workers : hpc[w] = "okay" => result[hio[w]] = "sent"
=============================================================================
