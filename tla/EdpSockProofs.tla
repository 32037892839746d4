--------------------------- MODULE EdpSockProofs ---------------------------
(****************************************************************************)
(* Theorems about EdpSock for any number of ios and events: the types for   *)
(* any threads; that ios are called back once and in order and that data is *)
(* announced, for a sock whose handlers and calls are one worker's.         *)
(****************************************************************************)
EXTENDS EdpSock, FiniteSetTheorems, TLAPS

\* One worker runs the handlers, and the application calls from callbacks only.
OneThread == Clients = {} /\ \E w \in Workers : Workers = {w}

Flags == {"OUT", "IN", "ERR", "HUP"}

\* An event that waits is not run, and waits for one worker.
WaitsOnce ==
    \A v, w \in Workers : \A x \in waiting[v] :
        /\ running[w] # x[1]
        /\ \A y \in waiting[w] : x[1] = y[1] => v = w

\* The pool's events are the sock's, and one that waits has been given its type.
PoolInv ==
    /\ waiting \in [Workers -> SUBSET (Events \X {NORM})]
    /\ running \in [Workers -> Events \cup {NoEvent}]
    /\ \A w \in Workers : \A x \in waiting[w] : etype[x[1]] \in Flags
    /\ WaitsOnce

\* A worker is in a call only while its handler is in a callback.
CallInv == \A w \in Workers : cpc[w] # "idle" => hpc[w] \in {"callback", "iocb"}

\* The io that is worker w's, or that waits for space in es_write.
Current(w) == IF hio[w] # NoIo THEN <<hio[w]>>
              ELSE IF cio[w] # NoIo THEN <<cio[w]>>
              ELSE IF es_write # NoIo THEN <<es_write>> ELSE <<>>

\* What is owed is the current io, then the queue; es_write is the current io
\* from where it is set until it was written, or is taken over by the handler.
OwedAt(w) ==
    /\ owed = Current(w) \o es_iowrites
    /\ hpc[w] \in {"write", "clear"} => es_write = hio[w]
    /\ hpc[w] \in {"okay", "next", "written", "iocb"} => es_write = NoIo
    /\ cpc[w] \in {"write", "clear"} => es_write = cio[w]
    /\ cpc[w] = "cb" => es_write = NoIo
    /\ ~write => es_write = NoIo /\ owed = <<>>
    /\ hpc[w] \in {"current", "okay", "next", "write", "clear", "written", "iocb"} => write
    /\ hpc[w] = "iocb" => cpc[w] \in {"idle", "read", "clearread"}

OwedInv == \A w \in Workers : OwedAt(w)

\* No io is owed twice.
OnceInv == \A j, k \in DOMAIN owed : owed[j] = owed[k] => j = k

\* An EPOLLIN event is under way.
Announced == \/ edge
             \/ \E k \in DOMAIN todo : todo[k] = "IN"
             \/ \E w \in Workers : \/ hpc[w] = "IN"
                                   \/ \E x \in waiting[w] : etype[x[1]] = "IN"

\* So it is, too, when READ is about to be cleared.
ReadyInv ==
    conn = "up" /\ data /\ (~read \/ \E t \in Threads : cpc[t] \in {"clearread", "cbclear"})
        => Announced \/ missed

-----------------------------------------------------------------------------
(* Who changes what.                                                        *)

\* The state of the handlers is changed by handlers only, that of the calls by
\* calls only.
LEMMA HandFrame ==
    ASSUME Kernel \/ EpollStep \/ (\E t \in Threads : CallStep(t))
    PROVE  UNCHANGED hvars
<1>1. CASE Kernel
  BY <1>1 DEF Kernel, Connect, Answer, DataArrives, RoomAgain, PeerCloses
<1>2. CASE EpollStep
  BY <1>2 DEF EpollStep, EpollWait, EpollNoEvent, EpollDispatch
<1>3. ASSUME NEW t \in Threads, CallStep(t) PROVE UNCHANGED hvars
  BY <1>3 DEF CallStep, WriteDirect, WriteQueue, WriteNow, WriteClear, WriteCallback,
     WriteCallbackReturns, WriteDispatch, WriteNoEvent, ReadCall, ReadNow, ReadReturns,
     ReadFails, ReadClear
<1>. QED
  BY <1>1, <1>2, <1>3

(* Handlers leave the state of the calls alone.                             *)
LEMMA CallFrame ==
    ASSUME Kernel \/ EpollStep \/ (\E w \in Workers : HandlerStep(w))
    PROVE  UNCHANGED cvars
<1>1. CASE Kernel
  BY <1>1 DEF Kernel, Connect, Answer, DataArrives, RoomAgain, PeerCloses
<1>2. CASE EpollStep
  BY <1>2 DEF EpollStep, EpollWait, EpollNoEvent, EpollDispatch
<1>3. ASSUME NEW w \in Workers, HandlerStep(w) PROVE UNCHANGED cvars
  BY <1>3 DEF HandlerStep, StartHandler, OutConnects, SetConnect, OutWrites, OutDrains,
     TakeCurrent, NoCurrent, Okay, NextEmpty, NextTake, NextWrite, NextClear, NextCallback,
     NextReturns, InReady, InAgain, Err, Hup, CallbackReturns, HandlerDone
<1>. QED
  BY <1>1, <1>2, <1>3

-----------------------------------------------------------------------------
(* Types.                                                                   *)

HandTypes ==
    /\ hpc \in [Workers -> {"idle", "OUT", "IN", "ERR", "HUP", "connect", "current", "okay",
                             "next", "write", "clear", "written", "iocb", "callback", "done"}]
    /\ hio \in [Workers -> Ios \cup {NoIo}]
    /\ \A w \in Workers : hio[w] # NoIo <=> hpc[w] \in {"okay", "write", "clear", "written"}

CallTypes ==
    /\ cpc \in [Threads -> {"idle", "write", "clear", "cb", "incb", "cbread", "cbclear",
                             "dispatch", "read", "clearread"}]
    /\ cio \in [Threads -> Ios \cup {NoIo}]
    /\ \A t \in Threads : cio[t] # NoIo <=> cpc[t] \in {"write", "clear", "cb"}

SockTypes ==
    /\ connect \in BOOLEAN /\ write \in BOOLEAN /\ read \in BOOLEAN
    /\ es_write \in Ios \cup {NoIo}
    /\ es_iowrites \in Seq(Ios)
    /\ es_pendios = Len(es_iowrites)
    /\ owed \in Seq(Ios)

KernelTypes ==
    /\ etype \in [Events -> Flags \cup {NoType}]
    /\ room \in BOOLEAN /\ data \in BOOLEAN /\ edge \in BOOLEAN /\ missed \in BOOLEAN
    /\ conn \in {"none", "connecting", "up", "down"}
    /\ todo \in Seq(Flags)
    /\ result \in [Ios -> {"none", "sent", "again", "error"}]

\* Together they are TypeOK.
LEMMA TypeParts ==
    /\ TypeOK <=> HandTypes /\ CallTypes /\ SockTypes /\ KernelTypes
    /\ TypeOK' <=> HandTypes' /\ CallTypes' /\ SockTypes' /\ KernelTypes'
<1>. DEFINE F == {connect, write, read, room, data, edge, missed}
<1>1. /\ F \subseteq BOOLEAN <=> /\ connect \in BOOLEAN /\ write \in BOOLEAN /\ read \in BOOLEAN
                                 /\ room \in BOOLEAN /\ data \in BOOLEAN /\ edge \in BOOLEAN
                                 /\ missed \in BOOLEAN
      /\ F' \subseteq BOOLEAN <=>
           /\ connect' \in BOOLEAN /\ write' \in BOOLEAN /\ read' \in BOOLEAN
           /\ room' \in BOOLEAN /\ data' \in BOOLEAN /\ edge' \in BOOLEAN /\ missed' \in BOOLEAN
  OBVIOUS
<1>2. Flags \cup {NoType} = {"OUT", "IN", "ERR", "HUP", NoType}
  BY DEF Flags
<1>. QED
  BY <1>1, <1>2 DEF TypeOK, HandTypes, CallTypes, SockTypes, KernelTypes, Flags

\* The handlers keep their types.
LEMMA HandStep ==
    ASSUME HandTypes, SockTypes, PoolInv, NEW w \in Workers, HandlerStep(w)
    PROVE  HandTypes'
<1>. USE DEF HandTypes, At
<1>1. ASSUME NEW e \in Events, StartHandler(w, e) PROVE HandTypes'
  <2>1. etype[e] \in Flags
    BY <1>1 DEF StartHandler, Pool!Start, Pool!Waits, PoolInv
  <2>. QED
    BY <1>1, <2>1 DEF StartHandler, Flags
<1>2. CASE OutConnects(w)
  BY <1>2, SockAssumption DEF OutConnects
<1>3. CASE SetConnect(w)
  BY <1>3, SockAssumption DEF SetConnect
<1>4. CASE OutWrites(w)
  BY <1>4, SockAssumption DEF OutWrites
<1>5. CASE OutDrains(w)
  BY <1>5, SockAssumption DEF OutDrains
<1>6. CASE TakeCurrent(w)
  BY <1>6, SockAssumption DEF TakeCurrent, SockTypes
<1>7. CASE NoCurrent(w)
  BY <1>7, SockAssumption DEF NoCurrent
<1>8. CASE Okay(w)
  BY <1>8, SockAssumption DEF Okay
<1>9. CASE NextEmpty(w)
  BY <1>9, SockAssumption DEF NextEmpty
<1>10. CASE NextTake(w)
  <2>1. Head(es_iowrites) \in Ios
    BY <1>10 DEF NextTake, SockTypes
  <2>. QED
    BY <1>10, <2>1, SockAssumption DEF NextTake
<1>11. CASE NextWrite(w)
  BY <1>11, SockAssumption DEF NextWrite
<1>12. CASE NextClear(w)
  BY <1>12, SockAssumption DEF NextClear
<1>13. CASE NextCallback(w)
  BY <1>13, SockAssumption DEF NextCallback
<1>14. CASE NextReturns(w)
  BY <1>14, SockAssumption DEF NextReturns
<1>15. CASE InReady(w)
  BY <1>15, SockAssumption DEF InReady
<1>16. CASE InAgain(w)
  BY <1>16, SockAssumption DEF InAgain
<1>17. CASE Err(w)
  BY <1>17, SockAssumption DEF Err
<1>18. CASE Hup(w)
  BY <1>18, SockAssumption DEF Hup
<1>19. CASE CallbackReturns(w)
  BY <1>19, SockAssumption DEF CallbackReturns
<1>20. CASE HandlerDone(w)
  BY <1>20, SockAssumption DEF HandlerDone
<1>. QED
  BY <1>1, <1>2, <1>3, <1>4, <1>5, <1>6, <1>7, <1>8, <1>9, <1>10, <1>11, <1>12, <1>13, <1>14, <1>15, <1>16, <1>17, <1>18, <1>19, <1>20
     DEF HandlerStep

\* The calls keep their types.
LEMMA CallStepTypes ==
    ASSUME CallTypes, NEW t \in Threads, CallStep(t)
    PROVE  CallTypes'
<1>. USE DEF CallTypes, Call
<1>1. ASSUME NEW i \in Ios, WriteDirect(t, i) PROVE CallTypes'
  BY <1>1, SockAssumption DEF WriteDirect
<1>2. ASSUME NEW i \in Ios, WriteQueue(t, i) PROVE CallTypes'
  BY <1>2 DEF WriteQueue, cvars
<1>3. CASE WriteNow(t)
  BY <1>3, SockAssumption DEF WriteNow
<1>4. CASE WriteClear(t)
  BY <1>4, SockAssumption DEF WriteClear
<1>5. CASE WriteCallback(t)
  BY <1>5, SockAssumption DEF WriteCallback
<1>6. CASE WriteNoEvent(t)
  BY <1>6, SockAssumption DEF WriteNoEvent
<1>7. CASE ReadCall(t)
  BY <1>7, SockAssumption DEF ReadCall, AtCall, Nested
<1>8. CASE ReadNow(t)
  BY <1>8, SockAssumption DEF ReadNow, ReadReturns, ReadFails
<1>9. CASE ReadClear(t)
  BY <1>9, SockAssumption DEF ReadClear, ReadReturns
<1>10. ASSUME NEW w \in Workers, NEW e \in Events, WriteDispatch(t, w, e) PROVE CallTypes'
  BY <1>10 DEF WriteDispatch
<1>11. CASE WriteCallbackReturns(t)
  BY <1>11 DEF WriteCallbackReturns
<1>. QED
  BY <1>1, <1>2, <1>3, <1>4, <1>5, <1>6, <1>7, <1>8, <1>9, <1>10, <1>11 DEF CallStep

\* An io that is called back leaves the others owed, in their order.
LEMMA GiveBackOwed ==
    ASSUME owed \in Seq(Ios), NEW i, GiveBack(i)
    PROVE  owed' \in Seq(Ios)
<1>1. ASSUME NEW k \in DOMAIN owed PROVE SubSeq(owed, 1, k - 1) \o SubSeq(owed, k + 1, Len(owed)) \in Seq(Ios)
  <2>1. k \in 1 .. Len(owed)
    OBVIOUS
  <2>2. SubSeq(owed, 1, k - 1) \in Seq(Ios)
    BY <2>1
  <2>3. SubSeq(owed, k + 1, Len(owed)) \in Seq(Ios)
    BY <2>1
  <2>. QED
    BY <2>2, <2>3
<1>. QED
  BY <1>1 DEF GiveBack

\* The handlers and the calls keep the types of the sock.
LEMMA SockStep ==
    ASSUME TypeOK, SockTypes, Next
    PROVE  SockTypes'
<1>. USE DEF SockTypes
<1>1. CASE UNCHANGED <<svars, wvars, owed>>
  BY <1>1 DEF svars, wvars
<1>2. CASE Kernel
  BY <1>1, <1>2 DEF Kernel, Connect, Answer, DataArrives, RoomAgain, PeerCloses, avars
<1>3. CASE EpollStep
  BY <1>1, <1>3 DEF EpollStep, EpollWait, EpollNoEvent, EpollDispatch, avars
<1>4. ASSUME NEW t \in Threads, CallStep(t) PROVE SockTypes'
  <2>1. ASSUME NEW i \in Ios, WriteDirect(t, i) PROVE SockTypes'
    BY <2>1 DEF WriteDirect
  <2>2. ASSUME NEW i \in Ios, WriteQueue(t, i) PROVE SockTypes'
    BY <2>2 DEF WriteQueue, svars
  <2>3. CASE WriteNow(t)
    BY <1>1, <2>3 DEF WriteNow
  <2>4. CASE WriteClear(t)
    BY <2>4 DEF WriteClear, svars, avars
  <2>5. CASE WriteCallback(t)
    BY <2>5, GiveBackOwed DEF WriteCallback, WriteCallbackReturns, svars, wvars
  <2>6. ASSUME NEW w \in Workers, NEW e \in Events, WriteDispatch(t, w, e) PROVE SockTypes'
    BY <1>1, <2>6 DEF WriteDispatch, avars
  <2>7. CASE WriteCallbackReturns(t) \/ WriteNoEvent(t) \/ ReadCall(t) \/ ReadNow(t)
    BY <1>1, <2>7 DEF WriteCallbackReturns, WriteNoEvent, ReadCall, ReadNow, avars
  <2>8. CASE ReadClear(t)
    BY <2>8 DEF ReadClear, wvars, avars
  <2>. QED
    BY <1>4, <2>1, <2>2, <2>3, <2>4, <2>5, <2>6, <2>7, <2>8 DEF CallStep
<1>5. ASSUME NEW w \in Workers, HandlerStep(w) PROVE SockTypes'
  <2>1. ASSUME NEW e \in Events, StartHandler(w, e) PROVE SockTypes'
    BY <1>1, <2>1 DEF StartHandler, avars
  <2>2. CASE OutConnects(w) \/ OutWrites(w) \/ OutDrains(w) \/ NoCurrent(w) \/ NextEmpty(w)
    BY <1>1, <2>2 DEF OutConnects, OutWrites, OutDrains, NoCurrent, NextEmpty, avars
  <2>3. CASE NextReturns(w) \/ InAgain(w) \/ Err(w) \/ CallbackReturns(w) \/ HandlerDone(w)
    BY <1>1, <2>3 DEF NextReturns, InAgain, Err, CallbackReturns, HandlerDone, avars
  <2>4. CASE NextWrite(w)
    BY <1>1, <2>4 DEF NextWrite
  <2>5. CASE SetConnect(w) \/ InReady(w) \/ Hup(w)
    BY <2>5 DEF SetConnect, InReady, Hup, wvars, avars
  <2>6. CASE TakeCurrent(w) \/ NextClear(w)
    BY <2>6 DEF TakeCurrent, NextClear, svars, avars
  <2>7. CASE Okay(w) \/ NextCallback(w)
    BY <2>7, GiveBackOwed DEF Okay, NextCallback, svars, wvars
  <2>8. CASE NextTake(w)
    <3>1. Len(es_iowrites) > 0 /\ es_iowrites \in Seq(Ios)
      BY <2>8 DEF NextTake
    <3>2. /\ Head(es_iowrites) \in Ios /\ Tail(es_iowrites) \in Seq(Ios)
          /\ Len(Tail(es_iowrites)) = Len(es_iowrites) - 1
      BY <3>1
    <3>. QED
      BY <2>8, <3>2 DEF NextTake, svars, avars
  <2>. QED
    BY <1>5, <2>1, <2>2, <2>3, <2>4, <2>5, <2>6, <2>7, <2>8 DEF HandlerStep
<1>. QED
  BY <1>2, <1>3, <1>4, <1>5 DEF Next

\* What the kernel and the pool do keeps their types.
LEMMA KernelStep ==
    ASSUME TypeOK, KernelTypes, Next
    PROVE  KernelTypes'
<1>. USE DEF KernelTypes
<1>1. CASE UNCHANGED <<etype, room, data, edge, conn, todo, result, missed>>
  BY <1>1
<1>2. CASE Kernel
  BY <1>2 DEF Kernel, Connect, Answer, DataArrives, RoomAgain, PeerCloses, pvars, avars
<1>3. CASE EpollWait
  <2>1. /\ Flag("OUT") \in Seq(Flags) /\ Flag("IN") \in Seq(Flags)
        /\ Flag("ERR") \in Seq(Flags) /\ Flag("HUP") \in Seq(Flags)
    <3>1. ASSUME NEW x \in Flags PROVE Flag(x) \in Seq(Flags)
      <4>1. <<x>> \in Seq(Flags) /\ <<>> \in Seq(Flags)
        OBVIOUS
      <4>. QED
        BY <4>1 DEF Flag
    <3>2. "OUT" \in Flags /\ "IN" \in Flags /\ "ERR" \in Flags /\ "HUP" \in Flags
      BY DEF Flags
    <3>. QED
      BY <3>1, <3>2
  <2>2. todo' \in Seq(Flags)
    BY <1>3, <2>1 DEF EpollWait
  <2>. QED
    BY <1>3, <2>2 DEF EpollWait, pvars, avars
<1>4. ASSUME NEW w \in Workers, NEW e \in Events, NEW f \in Flags, SockDispatch(w, e, f)
      PROVE  etype' \in [Events -> Flags \cup {NoType}]
  BY <1>4 DEF SockDispatch
<1>5. ASSUME NEW w \in Workers, NEW e \in Events, EpollDispatch(w, e) PROVE KernelTypes'
  <2>1. Head(todo) \in Flags /\ Tail(todo) \in Seq(Flags)
    BY <1>5 DEF EpollDispatch
  <2>. QED
    BY <1>4, <1>5, <2>1 DEF EpollDispatch, kvars, avars
<1>9. CASE EpollNoEvent
  BY <1>9 DEF EpollNoEvent, pvars, kvars
<1>6. ASSUME NEW i \in Ios \cup {NoIo}, NEW r \in {"sent", "again", "error"}, SockWrite(i, r)
      PROVE  room' \in BOOLEAN /\ result' \in [Ios -> {"none", "sent", "again", "error"}]
  BY <1>6 DEF SockWrite, Writes
<1>7. ASSUME NEW t \in Threads, CallStep(t) PROVE KernelTypes'
  <2>1. ASSUME NEW i \in Ios, WriteDirect(t, i) \/ WriteQueue(t, i) PROVE KernelTypes'
    BY <2>1 DEF WriteDirect, WriteQueue, pvars, kvars
  <2>2. CASE WriteNow(t)
    <3>1. cio[t] \in Ios \cup {NoIo}
      BY TypeParts DEF CallTypes
    <3>. QED
      BY <1>6, <2>2, <3>1 DEF WriteNow, pvars
  <2>3. CASE \/ WriteClear(t) \/ WriteCallback(t) \/ WriteCallbackReturns(t)
             \/ WriteNoEvent(t) \/ ReadCall(t) \/ ReadClear(t)
    BY <2>3 DEF WriteClear, WriteCallback, WriteCallbackReturns, WriteNoEvent, ReadCall,
       ReadClear, GiveBack, pvars, kvars, avars
  <2>4. CASE ReadNow(t)
    BY <2>4 DEF ReadNow, pvars, avars
  <2>5. ASSUME NEW w \in Workers, NEW e \in Events, WriteDispatch(t, w, e) PROVE KernelTypes'
    BY <1>4, <2>5 DEF WriteDispatch, kvars, avars, Flags
  <2>. QED
    BY <1>7, <2>1, <2>2, <2>3, <2>4, <2>5 DEF CallStep
<1>8. ASSUME NEW w \in Workers, HandlerStep(w) PROVE KernelTypes'
  <2>1. ASSUME NEW e \in Events, StartHandler(w, e) PROVE KernelTypes'
    BY <2>1 DEF StartHandler, kvars, avars
  <2>2. CASE NextWrite(w)
    <3>1. hio[w] \in Ios \cup {NoIo}
      BY TypeParts DEF HandTypes
    <3>. QED
      BY <1>6, <2>2, <3>1 DEF NextWrite, pvars
  <2>3. CASE Okay(w) \/ NextCallback(w)
    BY <2>3 DEF Okay, NextCallback, GiveBack, pvars, kvars
  <2>4. CASE HandlerDone(w)
    BY <2>4 DEF HandlerDone, kvars, avars
  <2>5. CASE \/ OutConnects(w) \/ SetConnect(w) \/ OutWrites(w) \/ OutDrains(w)
             \/ TakeCurrent(w) \/ NoCurrent(w) \/ NextEmpty(w) \/ NextTake(w)
             \/ NextClear(w) \/ NextReturns(w) \/ InReady(w) \/ InAgain(w)
             \/ Err(w) \/ Hup(w) \/ CallbackReturns(w)
    BY <1>1, <2>5
       DEF OutConnects, SetConnect, OutWrites, OutDrains, TakeCurrent, NoCurrent,
           NextEmpty, NextTake, NextClear, NextReturns, InReady, InAgain, Err, Hup,
           CallbackReturns, pvars, kvars, avars
  <2>. QED
    BY <1>8, <2>1, <2>2, <2>3, <2>4, <2>5 DEF HandlerStep
<1>. QED
  BY <1>2, <1>3, <1>5, <1>7, <1>8, <1>9 DEF Next, EpollStep

\* The done callback frees an event that nobody waits for.
LEMMA DoneKeepsTypes ==
    ASSUME TypeOK, PoolInv, NEW w \in Workers, HandlerDone(w)
    PROVE  \A v \in Workers : \A x \in waiting[v] : etype'[x[1]] = etype[x[1]]
<1>1. etype \in [Events -> Flags \cup {NoType}]
  BY TypeParts DEF KernelTypes
<1>2. ASSUME NEW v \in Workers, NEW x \in waiting[v] PROVE etype'[x[1]] = etype[x[1]]
  <2>1. x[1] \in Events /\ x[1] # running[w]
    BY DEF PoolInv, WaitsOnce
  <2>. QED
    BY <1>1, <2>1 DEF HandlerDone
<1>. QED
  BY <1>2

\* The pool's events keep the types they were dispatched with.
LEMMA PoolStep ==
    ASSUME TypeOK, PoolInv, Next
    PROVE  PoolInv'
<1>1. CASE UNCHANGED pvars
  BY <1>1 DEF pvars, PoolInv, WaitsOnce
<1>2. ASSUME NEW w \in Workers, NEW e \in Events, NEW f \in Flags, SockDispatch(w, e, f)
      PROVE  PoolInv'
  <2>. USE <1>2 DEF SockDispatch, Pool!Submit
  <2>1. etype \in [Events -> Flags \cup {NoType}]
    BY TypeParts DEF KernelTypes
  <2>2. waiting' \in [Workers -> SUBSET (Events \X {NORM})]
    BY DEF PoolInv
  <2>3. ASSUME NEW v \in Workers, NEW x \in waiting'[v] PROVE etype'[x[1]] \in Flags
    <3>1. CASE x \in waiting[v]
      <4>1. x[1] \in Events /\ etype[x[1]] \in Flags
        BY <3>1 DEF PoolInv
      <4>2. x[1] # e
        BY <3>1 DEF Pool!Held, Pool!Waits
      <4>. QED
        BY <2>1, <4>1, <4>2
    <3>2. CASE x \notin waiting[v]
      <4>1. x = <<e, NORM>>
        BY <2>3, <3>2 DEF PoolInv
      <4>. QED
        BY <2>1, <4>1
    <3>. QED
      BY <3>1, <3>2
  <2>4. WaitsOnce'
    <3>1. ASSUME NEW u \in Workers, NEW x \in waiting'[u], x \notin waiting[u]
          PROVE  u = w /\ x[1] = e
      BY <3>1 DEF PoolInv
    <3>2. ASSUME NEW u \in Workers, NEW x \in waiting[u] PROVE x[1] # e /\ running[u] # e
      BY <3>2 DEF Pool!Held, Pool!Waits
    <3>3. \A u \in Workers : running[u] # e
      BY DEF Pool!Held
    <3>. QED
      BY <3>1, <3>2, <3>3 DEF PoolInv, WaitsOnce
  <2>. QED
    BY <2>2, <2>3, <2>4 DEF PoolInv
<1>3. CASE Kernel
  BY <1>1, <1>3 DEF Kernel, Connect, Answer, DataArrives, RoomAgain, PeerCloses
<1>4. CASE EpollWait \/ EpollNoEvent
  BY <1>1, <1>4 DEF EpollWait, EpollNoEvent
<1>5. ASSUME NEW w \in Workers, NEW e \in Events, EpollDispatch(w, e) PROVE PoolInv'
  <2>1. Head(todo) \in Flags
    BY <1>5, TypeParts DEF EpollDispatch, KernelTypes
  <2>. QED
    BY <1>2, <1>5, <2>1 DEF EpollDispatch
<1>6. ASSUME NEW t \in Threads, CallStep(t) PROVE PoolInv'
  <2>1. ASSUME NEW w \in Workers, NEW e \in Events, WriteDispatch(t, w, e) PROVE PoolInv'
    BY <1>2, <2>1 DEF WriteDispatch, Flags
  <2>2. CASE ~\E w \in Workers, e \in Events : WriteDispatch(t, w, e)
    BY <1>1, <1>6, <2>2 DEF CallStep, WriteDirect, WriteQueue, WriteNow, WriteClear,
       WriteCallback, WriteCallbackReturns, WriteNoEvent, ReadCall, ReadNow, ReadReturns,
       ReadFails, ReadClear
  <2>. QED
    BY <2>1, <2>2
<1>7. ASSUME NEW w \in Workers, NEW e \in Events, StartHandler(w, e) PROVE PoolInv'
  <2>1. etype' = etype
    BY <1>7 DEF StartHandler
  <2>2. /\ running' = [running EXCEPT ![w] = e]
        /\ waiting' = [waiting EXCEPT ![w] = {x \in @ : x[1] # e}]
    BY <1>7 DEF StartHandler, Pool!Start
  <2>3. ASSUME NEW v \in Workers, NEW x \in waiting'[v] PROVE x \in waiting[v] /\ x[1] # e
    <3>1. PICK y \in waiting[w] : y[1] = e
      BY <1>7 DEF StartHandler, Pool!Start, Pool!Waits
    <3>2. x \in waiting[v] /\ (v = w => x[1] # e)
      BY <2>2, <2>3 DEF PoolInv
    <3>. QED
      BY <3>1, <3>2 DEF PoolInv, WaitsOnce
  <2>4. WaitsOnce'
    BY <2>2, <2>3 DEF PoolInv, WaitsOnce
  <2>. QED
    BY <2>1, <2>2, <2>3, <2>4 DEF PoolInv
<1>8. ASSUME NEW w \in Workers, HandlerDone(w) PROVE PoolInv'
  <2>1. /\ waiting' = waiting
        /\ running' = [running EXCEPT ![w] = NoEvent]
    BY <1>8 DEF HandlerDone, Pool!Finish
  <2>2. WaitsOnce'
    BY <2>1, SockAssumption DEF PoolInv, WaitsOnce
  <2>. QED
    BY <1>8, <2>1, <2>2, DoneKeepsTypes DEF PoolInv
<1>9. ASSUME NEW w \in Workers, HandlerStep(w), ~HandlerDone(w),
             ~\E e \in Events : StartHandler(w, e)
      PROVE  PoolInv'
  BY <1>1, <1>9
     DEF HandlerStep, OutConnects, SetConnect, OutWrites, OutDrains, TakeCurrent, NoCurrent, Okay,
         NextEmpty, NextTake, NextWrite, NextClear, NextCallback, NextReturns, InReady, InAgain,
         Err, Hup, CallbackReturns
<1>. QED
  BY <1>3, <1>4, <1>5, <1>6, <1>7, <1>8, <1>9 DEF Next, EpollStep

\* Every step keeps the types.
LEMMA TypeStep == TypeOK /\ PoolInv /\ [Next]_vars => TypeOK' /\ PoolInv'
<1>1. ASSUME TypeOK, PoolInv, UNCHANGED vars PROVE TypeOK' /\ PoolInv'
  BY <1>1 DEF TypeOK, PoolInv, WaitsOnce, vars, pvars, svars, wvars, kvars, hvars, cvars, avars
<1>2. ASSUME TypeOK, PoolInv, Next PROVE TypeOK'
  <2>1. HandTypes /\ CallTypes /\ SockTypes /\ KernelTypes
    BY <1>2, TypeParts
  <2>2. HandTypes'
    <3>1. UNCHANGED hvars => HandTypes'
      BY <2>1 DEF HandTypes, hvars
    <3>. QED
      BY <1>2, <2>1, <3>1, HandFrame, HandStep DEF Next
  <2>3. CallTypes'
    <3>1. UNCHANGED cvars => CallTypes'
      BY <2>1 DEF CallTypes, cvars
    <3>. QED
      BY <1>2, <2>1, <3>1, CallFrame, CallStepTypes DEF Next
  <2>. QED
    BY <1>2, <2>1, <2>2, <2>3, SockStep, KernelStep, TypeParts
<1>. QED
  BY <1>1, <1>2, PoolStep

\* They hold in the beginning.
LEMMA TypeInit == Init => TypeOK /\ PoolInv
<1>. SUFFICES ASSUME Init PROVE TypeOK /\ PoolInv
  OBVIOUS
<1>1. PoolInv
  BY DEF Init, Pool!Init, PoolInv, WaitsOnce
<1>2. HandTypes /\ CallTypes
  BY DEF Init, HandTypes, CallTypes
<1>3. <<>> \in Seq(Ios) /\ <<>> \in Seq(Flags) /\ Len(<<>>) = 0
  OBVIOUS
<1>4. SockTypes
  BY <1>3 DEF Init, SockTypes
<1>5. KernelTypes
  BY <1>3 DEF Init, KernelTypes
<1>. QED
  BY <1>1, <1>2, <1>4, <1>5, TypeParts

\* The ASSERT of edpnet.c:185 and the types of a sock's state, for any number of
\* workers and of threads of the application.
THEOREM TypeCorrect == Spec => []TypeOK
<1>1. Spec => [](TypeOK /\ PoolInv)
  BY TypeInit, TypeStep, PTL DEF Spec
<1>. QED
  BY <1>1, PTL

-----------------------------------------------------------------------------
(* What is owed, for a sock of one worker.                                  *)

\* A worker calls from its callbacks, and a callback ends after its calls.
LEMMA CallInvStep ==
    ASSUME TypeOK, CallInv, Next
    PROVE  CallInv'
<1>. USE DEF CallInv
<1>0. HandTypes /\ CallTypes
  BY TypeParts
<1>1. CASE Kernel \/ EpollStep
  BY <1>1, HandFrame, CallFrame DEF hvars, cvars
<1>2. ASSUME NEW t \in Threads, CallStep(t) PROVE CallInv'
  <2>1. hpc' = hpc
    BY <1>2, HandFrame DEF hvars
  <2>2. t \in Workers => cpc[t] # "idle" \/ hpc[t] \in {"callback", "iocb"} \/ cpc' = cpc
    BY <1>2 DEF CallStep, AtCall, WriteDirect, WriteQueue, WriteNow, WriteClear, WriteCallback,
       WriteCallbackReturns, WriteDispatch, WriteNoEvent, ReadCall, ReadNow, ReadReturns,
       ReadFails, ReadClear
  <2>3. \A u \in Threads : u # t => cpc'[u] = cpc[u]
    BY <1>2, <1>0 DEF CallTypes, CallStep, Call, WriteDirect, WriteQueue, WriteNow, WriteClear,
       WriteCallback, WriteCallbackReturns, WriteDispatch, WriteNoEvent, ReadCall, ReadNow,
       ReadReturns, ReadFails, ReadClear, cvars
  <2>. QED
    BY <2>1, <2>2, <2>3 DEF Threads
<1>3. ASSUME NEW w \in Workers, HandlerStep(w) PROVE CallInv'
  <2>1. cpc' = cpc
    BY <1>3, CallFrame DEF cvars
  <2>2. hpc[w] \in {"callback", "iocb"} => cpc[w] = "idle"
    BY <1>3 DEF HandlerStep, StartHandler, OutConnects, SetConnect, OutWrites, OutDrains,
       TakeCurrent, NoCurrent, Okay, NextEmpty, NextTake, NextWrite, NextClear, NextCallback,
       NextReturns, InReady, InAgain, Err, Hup, CallbackReturns, HandlerDone
  <2>3. \A v \in Workers : v # w => hpc'[v] = hpc[v]
    BY <1>0, <1>3 DEF HandTypes, At, HandlerStep, StartHandler, OutConnects, SetConnect,
       OutWrites, OutDrains, TakeCurrent, NoCurrent, Okay, NextEmpty, NextTake, NextWrite,
       NextClear, NextCallback, NextReturns, InReady, InAgain, Err, Hup, CallbackReturns,
       HandlerDone
  <2>. QED
    BY <2>1, <2>2, <2>3
<1>. QED
  BY <1>1, <1>2, <1>3 DEF Next

\* The first of a sequence, then the others.
LEMMA Split ==
    ASSUME NEW S, NEW q \in Seq(S), Len(q) > 0
    PROVE  q = <<Head(q)>> \o Tail(q) /\ Head(q) \in S /\ Tail(q) \in Seq(S)
  OBVIOUS

\* Nothing is owed but the queue.
LEMMA NoneBefore ==
    ASSUME NEW S, NEW q \in Seq(S)
    PROVE  <<>> \o q = q /\ q \o <<>> = q
<1>1. <<>> \o q = q
  OBVIOUS
<1>2. q \o <<>> = q
  OBVIOUS
<1>. QED
  BY <1>1, <1>2

\* The oldest io is called back: the queue is owed.
LEMMA GiveBackHead ==
    ASSUME OnceInv, NEW x \in Ios, NEW q \in Seq(Ios), owed = <<x>> \o q, GiveBack(x)
    PROVE  owed' = q /\ OnceInv'
<1>1. /\ Len(owed) = Len(q) + 1 /\ DOMAIN owed = 1 .. Len(q) + 1
      /\ owed[1] = x /\ \A k \in 1 .. Len(q) : owed[k + 1] = q[k]
  OBVIOUS
<1>2. Owed(x)
  BY <1>1 DEF Owed
<1>3. PICK k \in DOMAIN owed :
          owed[k] = x /\ owed' = SubSeq(owed, 1, k - 1) \o SubSeq(owed, k + 1, Len(owed))
  BY <1>2 DEF GiveBack
<1>4. k = 1
  <2>1. 1 \in DOMAIN owed /\ owed[1] = owed[k]
    BY <1>1, <1>3
  <2>. QED
    BY <2>1 DEF OnceInv
<1>5. SubSeq(owed, 1, 0) = <<>> /\ SubSeq(owed, 2, Len(owed)) = q
  BY <1>1
<1>6. owed' = q
  BY <1>3, <1>4, <1>5
<1>7. ASSUME NEW i \in DOMAIN q, NEW j \in DOMAIN q, q[i] = q[j] PROVE i = j
  <2>1. i + 1 \in DOMAIN owed /\ j + 1 \in DOMAIN owed /\ owed[i + 1] = owed[j + 1]
    BY <1>1, <1>7
  <2>2. i + 1 = j + 1
    BY <2>1 DEF OnceInv
  <2>. QED
    BY <2>2
<1>. QED
  BY <1>6, <1>7 DEF OnceInv

\* An io that is not owed is given to edpnet_sock_write.
LEMMA AppendOnce ==
    ASSUME OnceInv, owed \in Seq(Ios), NEW i \in Ios, ~Owed(i), owed' = Append(owed, i)
    PROVE  OnceInv'
<1>1. ASSUME NEW j \in DOMAIN owed', NEW k \in DOMAIN owed', owed'[j] = owed'[k] PROVE j = k
  <2>1. DOMAIN owed' = 1 .. Len(owed) + 1 /\ owed'[Len(owed) + 1] = i
    OBVIOUS
  <2>2. \A n \in 1 .. Len(owed) : n \in DOMAIN owed /\ owed'[n] = owed[n] /\ owed[n] # i
    BY DEF Owed
  <2>. QED
    BY <1>1, <2>1, <2>2 DEF OnceInv
<1>. QED
  BY <1>1 DEF OnceInv

\* What is owed stays as it is when the current io is the same.
LEMMA OwedSame ==
    ASSUME OnceInv, NEW w, owed = Current(w) \o es_iowrites,
           UNCHANGED <<owed, es_iowrites>>, Current(w)' = Current(w)
    PROVE  owed' = Current(w)' \o es_iowrites' /\ OnceInv'
  BY DEF OnceInv

\* Steps of a handler that touch no io.
LEMMA OwedQuiet ==
    ASSUME TypeOK, PoolInv, CallInv, OnceInv, NEW w \in Workers, OwedAt(w),
           \/ \E e \in Events : StartHandler(w, e)
           \/ OutConnects(w) \/ SetConnect(w) \/ OutWrites(w) \/ OutDrains(w) \/ NoCurrent(w)
           \/ NextEmpty(w) \/ NextReturns(w) \/ InReady(w) \/ InAgain(w) \/ Err(w) \/ Hup(w)
           \/ CallbackReturns(w) \/ HandlerDone(w)
    PROVE  OwedAt(w)' /\ OnceInv'
<1>. DEFINE Same == UNCHANGED <<owed, es_iowrites, es_write, hio, cio, cpc, write>>
<1>. USE DEF At, svars, wvars, avars, cvars
<1>0. hpc \in [Workers -> {"idle", "OUT", "IN", "ERR", "HUP", "connect", "current", "okay",
                           "next", "write", "clear", "written", "iocb", "callback", "done"}]
  BY TypeParts DEF HandTypes
<1>1. Same
  BY DEF StartHandler, OutConnects, SetConnect, OutWrites, OutDrains, NoCurrent, NextEmpty,
         NextReturns, InReady, InAgain, Err, Hup, CallbackReturns, HandlerDone
<1>2. \/ hpc'[w] \in Flags \cup {"connect", "callback", "done", "idle"}
      \/ hpc'[w] = "current" /\ write
      \/ hpc'[w] = "next" /\ write /\ es_write = NoIo
  <2>1. ASSUME NEW e \in Events, StartHandler(w, e) PROVE hpc'[w] \in Flags
    <3>1. etype[e] \in Flags
      BY <2>1 DEF StartHandler, Pool!Start, Pool!Waits, PoolInv
    <3>. QED
      BY <1>0, <2>1, <3>1 DEF StartHandler
  <2>2. CASE OutConnects(w)
    BY <1>0, <2>2 DEF OutConnects
  <2>3. CASE SetConnect(w)
    BY <1>0, <2>3 DEF SetConnect
  <2>4. CASE OutWrites(w)
    BY <1>0, <2>4 DEF OutWrites
  <2>5. CASE OutDrains(w)
    BY <1>0, <2>5 DEF OutDrains
  <2>6. CASE NoCurrent(w)
    BY <1>0, <2>6 DEF NoCurrent, OwedAt
  <2>7. CASE NextEmpty(w)
    BY <1>0, <2>7 DEF NextEmpty
  <2>8. CASE NextReturns(w)
    BY <1>0, <2>8 DEF NextReturns, OwedAt
  <2>9. CASE InReady(w)
    BY <1>0, <2>9 DEF InReady
  <2>10. CASE InAgain(w)
    BY <1>0, <2>10 DEF InAgain
  <2>11. CASE Err(w)
    BY <1>0, <2>11 DEF Err
  <2>12. CASE Hup(w)
    BY <1>0, <2>12 DEF Hup
  <2>13. CASE CallbackReturns(w)
    BY <1>0, <2>13 DEF CallbackReturns
  <2>14. CASE HandlerDone(w)
    BY <1>0, <2>14 DEF HandlerDone
  <2>. QED
    BY <2>1, <2>2, <2>3, <2>4, <2>5, <2>6, <2>7, <2>8, <2>9, <2>10, <2>11, <2>12, <2>13, <2>14
<1>3. Current(w)' = Current(w)
  BY <1>1 DEF Current
<1>4. owed' = Current(w)' \o es_iowrites' /\ OnceInv'
  BY <1>1, <1>3, OwedSame DEF OwedAt
<1>5. cpc'[w] # "idle" => cpc[w] # "idle"
  BY <1>1
<1>. QED
  BY <1>1, <1>2, <1>4 DEF OwedAt, Flags

\* Steps of a handler that take, write or report an io (edpnet.c:177-207, 235-250).
LEMMA OwedHandler ==
    ASSUME TypeOK, CallInv, OnceInv, NEW w \in Workers, OwedAt(w),
           \/ TakeCurrent(w) \/ Okay(w) \/ NextTake(w) \/ NextWrite(w) \/ NextClear(w)
           \/ NextCallback(w)
    PROVE  OwedAt(w)' /\ OnceInv'
<1>. USE DEF At, svars, wvars, avars, cvars
<1>0. HandTypes /\ SockTypes
  BY TypeParts
<1>1. cpc[w] = "idle" /\ cio[w] = NoIo /\ cpc' = cpc /\ cio' = cio /\ write' = write
  <2>1. hpc[w] \notin {"callback", "iocb"}
    BY DEF TakeCurrent, Okay, NextTake, NextWrite, NextClear, NextCallback
  <2>2. cpc[w] = "idle" /\ cio[w] = NoIo
    BY <2>1, TypeParts DEF CallInv, CallTypes, Threads
  <2>. QED
    BY <2>2 DEF TakeCurrent, Okay, NextTake, NextWrite, NextClear, NextCallback
<1>2. hpc[w] # "current" => write
  BY DEF OwedAt, TakeCurrent, Okay, NextTake, NextWrite, NextClear, NextCallback
<1>3. write
  BY <1>2 DEF OwedAt
<1>4. CASE TakeCurrent(w)
  <2>1. /\ hio[w] = NoIo /\ hio'[w] = es_write /\ es_write # NoIo /\ es_write' = NoIo
        /\ hpc'[w] = "okay" /\ UNCHANGED <<owed, es_iowrites>>
    BY <1>0, <1>4 DEF TakeCurrent, HandTypes
  <2>2. Current(w)' = Current(w)
    BY <1>1, <2>1 DEF Current
  <2>3. owed' = Current(w)' \o es_iowrites' /\ OnceInv'
    BY <2>1, <2>2, OwedSame DEF OwedAt
  <2>. QED
    BY <1>1, <1>3, <2>1, <2>3 DEF OwedAt
<1>5. CASE NextWrite(w)
  <2>1. /\ hio[w] # NoIo /\ hio[w] = es_write /\ UNCHANGED <<owed, es_iowrites, es_write>>
        /\ \/ hio'[w] = NoIo /\ hpc'[w] = "done"
           \/ hio'[w] = hio[w] /\ hpc'[w] = "clear"
    BY <1>0, <1>5 DEF NextWrite, HandTypes, OwedAt
  <2>2. Current(w)' = Current(w)
    BY <1>1, <2>1 DEF Current
  <2>3. owed' = Current(w)' \o es_iowrites' /\ OnceInv'
    BY <2>1, <2>2, OwedSame DEF OwedAt
  <2>. QED
    BY <1>1, <1>3, <2>1, <2>3 DEF OwedAt
<1>6. CASE NextClear(w)
  <2>1. /\ hio[w] # NoIo /\ UNCHANGED <<owed, es_iowrites, hio>> /\ es_write' = NoIo
        /\ hpc'[w] = "written"
    BY <1>0, <1>6 DEF NextClear, HandTypes
  <2>2. Current(w)' = Current(w)
    BY <2>1 DEF Current
  <2>3. owed' = Current(w)' \o es_iowrites' /\ OnceInv'
    BY <2>1, <2>2, OwedSame DEF OwedAt
  <2>. QED
    BY <1>1, <1>3, <2>1, <2>3 DEF OwedAt
<1>7. CASE Okay(w) \/ NextCallback(w)
  <2>1. /\ hio[w] \in Ios /\ hio[w] # NoIo /\ hio'[w] = NoIo /\ es_write = NoIo
        /\ UNCHANGED <<es_iowrites, es_write>> /\ GiveBack(hio[w])
        /\ hpc'[w] \in {"callback", "iocb"}
    BY <1>0, <1>7 DEF Okay, NextCallback, HandTypes, OwedAt
  <2>2. owed = <<hio[w]>> \o es_iowrites
    BY <2>1 DEF OwedAt, Current
  <2>3. owed' = es_iowrites /\ OnceInv'
    BY <1>0, <2>1, <2>2, GiveBackHead DEF SockTypes
  <2>4. Current(w)' = <<>>
    BY <1>1, <2>1 DEF Current
  <2>5. owed' = Current(w)' \o es_iowrites'
    BY <1>0, <2>1, <2>3, <2>4, NoneBefore DEF SockTypes
  <2>. QED
    BY <1>1, <1>3, <2>1, <2>3, <2>5 DEF OwedAt
<1>8. CASE NextTake(w)
  <2>1. /\ es_iowrites \in Seq(Ios) /\ Len(es_iowrites) > 0 /\ es_write = NoIo /\ hio[w] = NoIo
        /\ hio'[w] = Head(es_iowrites) /\ es_write' = Head(es_iowrites)
        /\ es_iowrites' = Tail(es_iowrites) /\ hpc'[w] = "write" /\ owed' = owed
    BY <1>0, <1>8 DEF NextTake, HandTypes, SockTypes, OwedAt
  <2>2. /\ es_iowrites = <<Head(es_iowrites)>> \o Tail(es_iowrites)
        /\ Head(es_iowrites) # NoIo
    BY <2>1, Split, SockAssumption
  <2>3. Current(w) = <<>> /\ Current(w)' = <<Head(es_iowrites)>>
    BY <1>1, <2>1, <2>2 DEF Current
  <2>4. owed = es_iowrites
    BY <2>1, <2>3, NoneBefore DEF OwedAt
  <2>5. owed' = Current(w)' \o es_iowrites' /\ OnceInv'
    BY <2>1, <2>2, <2>3, <2>4 DEF OnceInv
  <2>. QED
    BY <1>1, <1>3, <2>1, <2>5 DEF OwedAt
<1>. QED
  BY <1>4, <1>5, <1>6, <1>7, <1>8

\* The calls of the application (edpnet.c:517-557).
LEMMA OwedCall ==
    ASSUME TypeOK, CallInv, OnceInv, NEW w \in Workers, OwedAt(w), CallStep(w)
    PROVE  OwedAt(w)' /\ OnceInv'
<1>. USE DEF Call, svars, wvars, avars, hvars
<1>0. HandTypes /\ CallTypes /\ SockTypes /\ w \in Threads
  BY TypeParts DEF Threads
<1>1. hpc[w] \in {"callback", "iocb"} /\ hio[w] = NoIo /\ hpc' = hpc /\ hio' = hio
  <2>1. hpc' = hpc /\ hio' = hio
    BY <1>0, HandFrame
  <2>2. cpc[w] # "idle" \/ hpc[w] \in {"callback", "iocb"}
    BY DEF CallStep, AtCall, WriteDirect, WriteQueue, WriteNow, WriteClear, WriteCallback,
       WriteCallbackReturns, WriteDispatch, WriteNoEvent, ReadCall, ReadNow, ReadReturns,
       ReadFails, ReadClear
  <2>3. hpc[w] \in {"callback", "iocb"}
    BY <2>2 DEF CallInv
  <2>. QED
    BY <1>0, <2>1, <2>3 DEF HandTypes
<1>2. ASSUME NEW i \in Ios, WriteDirect(w, i) PROVE OwedAt(w)' /\ OnceInv'
  <2>1. /\ cpc[w] = "idle" /\ ~write /\ es_write = NoIo /\ es_write' = i /\ write'
        /\ cio'[w] = i /\ i # NoIo /\ cpc'[w] = "write" /\ es_iowrites' = es_iowrites
        /\ owed' = Append(owed, i) /\ ~Owed(i)
    BY <1>0, <1>2, SockAssumption DEF WriteDirect, AtCall, CallTypes
  <2>2. hpc[w] = "callback" /\ owed = <<>> /\ cio[w] = NoIo
    BY <1>0, <1>1, <2>1 DEF OwedAt, CallTypes
  <2>3. es_iowrites = <<>>
    <3>1. Current(w) = <<>>
      BY <1>1, <2>1, <2>2 DEF Current
    <3>2. <<>> \o es_iowrites = es_iowrites
      BY <1>0, NoneBefore DEF SockTypes
    <3>. QED
      BY <2>2, <3>1, <3>2 DEF OwedAt
  <2>4. Current(w)' = <<i>>
    BY <1>1, <2>1 DEF Current
  <2>5. owed' = Current(w)' \o es_iowrites'
    BY <2>1, <2>2, <2>3, <2>4
  <2>6. OnceInv'
    BY <1>0, <2>1, AppendOnce DEF SockTypes
  <2>. QED
    BY <1>1, <2>1, <2>2, <2>5, <2>6 DEF OwedAt
<1>3. ASSUME NEW i \in Ios, WriteQueue(w, i) PROVE OwedAt(w)' /\ OnceInv'
  <2>1. /\ write \/ es_write # NoIo
        /\ UNCHANGED <<svars, es_write, cvars>>
        /\ es_iowrites' = Append(es_iowrites, i) /\ owed' = Append(owed, i) /\ ~Owed(i)
    BY <1>3 DEF WriteQueue
  <2>2. write /\ write'
    BY <2>1 DEF OwedAt
  <2>3. Current(w)' = Current(w) /\ Current(w) \in Seq(Ios)
    <3>1. Current(w)' = Current(w)
      BY <1>1, <2>1 DEF Current, cvars
    <3>2. ASSUME NEW x \in Ios PROVE <<x>> \in Seq(Ios)
      OBVIOUS
    <3>3. Current(w) \in Seq(Ios)
      BY <1>0, <3>2 DEF Current, HandTypes, CallTypes, SockTypes
    <3>. QED
      BY <3>1, <3>3
  <2>4. owed' = Current(w)' \o es_iowrites'
    <3>1. es_iowrites \in Seq(Ios) /\ owed = Current(w) \o es_iowrites
      BY <1>0 DEF SockTypes, OwedAt
    <3>2. Append(Current(w) \o es_iowrites, i) = Current(w) \o Append(es_iowrites, i)
      <4>1. PICK p \in Seq(Ios), q \in Seq(Ios) : p = Current(w) /\ q = es_iowrites
        BY <2>3, <3>1
      <4>2. Append(p \o q, i) = p \o Append(q, i)
        OBVIOUS
      <4>. QED
        BY <4>1, <4>2
    <3>. QED
      BY <2>1, <2>3, <3>1, <3>2
  <2>5. OnceInv'
    BY <1>0, <2>1, AppendOnce DEF SockTypes
  <2>. QED
    BY <1>1, <2>1, <2>2, <2>4, <2>5 DEF OwedAt, cvars
<1>4. CASE WriteNow(w)
  <2>1. /\ cio[w] # NoIo /\ cio[w] = es_write /\ UNCHANGED <<owed, es_iowrites, es_write, write>>
        /\ \/ cio'[w] = NoIo /\ cpc'[w] = "idle"
           \/ cio'[w] = cio[w] /\ cpc'[w] = "clear"
        /\ cpc[w] = "write"
    BY <1>0, <1>4 DEF WriteNow, CallTypes, OwedAt
  <2>2. Current(w)' = Current(w)
    BY <1>1, <2>1 DEF Current
  <2>3. owed' = Current(w)' \o es_iowrites' /\ OnceInv'
    BY <2>1, <2>2, OwedSame DEF OwedAt
  <2>. QED
    BY <1>1, <2>1, <2>3 DEF OwedAt
<1>5. CASE WriteClear(w)
  <2>1. /\ cio[w] # NoIo /\ cio[w] = es_write /\ UNCHANGED <<owed, es_iowrites, write, cio>>
        /\ es_write' = NoIo /\ cpc'[w] = "cb" /\ cpc[w] = "clear"
    BY <1>0, <1>5 DEF WriteClear, CallTypes, OwedAt
  <2>2. Current(w)' = Current(w)
    BY <1>1, <2>1 DEF Current
  <2>3. owed' = Current(w)' \o es_iowrites' /\ OnceInv'
    BY <2>1, <2>2, OwedSame DEF OwedAt
  <2>. QED
    BY <1>1, <2>1, <2>3 DEF OwedAt
<1>6. CASE WriteCallback(w)
  <2>1. /\ cio[w] \in Ios /\ cio[w] # NoIo /\ cio'[w] = NoIo /\ es_write = NoIo
        /\ UNCHANGED <<es_iowrites, es_write, write>> /\ GiveBack(cio[w])
        /\ cpc[w] = "cb" /\ cpc'[w] = "incb"
    BY <1>0, <1>6 DEF WriteCallback, WriteCallbackReturns, CallTypes, OwedAt
  <2>2. owed = <<cio[w]>> \o es_iowrites
    BY <1>1, <2>1 DEF OwedAt, Current
  <2>3. owed' = es_iowrites /\ OnceInv'
    BY <1>0, <2>1, <2>2, GiveBackHead DEF SockTypes
  <2>4. owed # <<>>
    BY <1>0, <2>1, <2>2 DEF SockTypes
  <2>5. write
    BY <2>4 DEF OwedAt
  <2>6. Current(w)' = <<>>
    BY <1>1, <2>1 DEF Current
  <2>7. owed' = Current(w)' \o es_iowrites'
    BY <1>0, <2>1, <2>3, <2>6, NoneBefore DEF SockTypes
  <2>. QED
    BY <1>1, <2>1, <2>3, <2>5, <2>7 DEF OwedAt
<1>7. ASSUME \/ \E v \in Workers, e \in Events : WriteDispatch(w, v, e)
             \/ WriteCallbackReturns(w) \/ WriteNoEvent(w) \/ ReadCall(w) \/ ReadNow(w) \/ ReadClear(w)
      PROVE  OwedAt(w)' /\ OnceInv'
  <2>. DEFINE InCallback == {"incb", "cbread", "cbclear"}
              Moves == \/ cpc'[w] \in {"idle", "read", "clearread"}
                       \/ cpc[w] \in InCallback /\ cpc'[w] \in InCallback \cup {"dispatch"}
              Same == UNCHANGED <<owed, es_iowrites, es_write, write, cio>>
  <2>1. Same /\ Moves
    <3>1. ASSUME NEW v \in Workers, NEW e \in Events, WriteDispatch(w, v, e) PROVE Same /\ Moves
      BY <1>0, <3>1 DEF WriteDispatch, CallTypes
    <3>2. CASE WriteCallbackReturns(w) \/ WriteNoEvent(w)
      BY <1>0, <3>2 DEF WriteCallbackReturns, WriteNoEvent, CallTypes
    <3>3. CASE ReadCall(w)
      BY <1>0, <3>3 DEF ReadCall, AtCall, Nested, CallTypes
    <3>4. CASE ReadNow(w)
      BY <1>0, <3>4 DEF ReadNow, ReadReturns, ReadFails, Nested, CallTypes
    <3>5. CASE ReadClear(w)
      BY <1>0, <3>5 DEF ReadClear, ReadReturns, Nested, CallTypes
    <3>. QED
      BY <1>7, <3>1, <3>2, <3>3, <3>4, <3>5
  <2>2. Current(w)' = Current(w)
    BY <1>1, <2>1 DEF Current
  <2>3. owed' = Current(w)' \o es_iowrites' /\ OnceInv'
    BY <2>1, <2>2, OwedSame DEF OwedAt
  <2>. QED
    BY <1>1, <2>1, <2>3 DEF OwedAt
<1>. QED
  BY <1>2, <1>3, <1>4, <1>5, <1>6, <1>7 DEF CallStep

\* Nobody but the one worker is there.
LEMMA OneIsAll ==
    ASSUME OneThread
    PROVE  \E w : Workers = {w} /\ Threads = {w}
  BY DEF OneThread, Threads

\* Every step keeps what is owed in order.
LEMMA OwedStep ==
    ASSUME OneThread, TypeOK, PoolInv, CallInv, OwedInv, OnceInv, Next
    PROVE  OwedInv' /\ OnceInv'
<1>1. PICK w : Workers = {w} /\ Threads = {w}
  BY OneIsAll
<1>2. OwedAt(w)
  BY <1>1 DEF OwedInv
<1>3. CASE Kernel \/ EpollStep
  <2>1. UNCHANGED <<hvars, cvars>>
    BY <1>3, HandFrame, CallFrame
  <2>2. UNCHANGED <<svars, wvars, owed>>
    BY <1>3 DEF Kernel, Connect, Answer, DataArrives, RoomAgain, PeerCloses, EpollStep, EpollWait,
                EpollNoEvent, EpollDispatch, avars
  <2>. QED
    BY <2>1, <2>2 DEF OwedInv, OwedAt, Current, OnceInv, hvars, cvars, svars, wvars
<1>4. CASE HandlerStep(w)
  <2>1. OwedAt(w)' /\ OnceInv'
    BY <1>1, <1>2, <1>4, OwedQuiet, OwedHandler DEF HandlerStep
  <2>. QED
    BY <1>1, <2>1 DEF OwedInv
<1>5. CASE CallStep(w)
  <2>1. OwedAt(w)' /\ OnceInv'
    BY <1>1, <1>2, <1>5, OwedCall
  <2>. QED
    BY <1>1, <2>1 DEF OwedInv
<1>. QED
  BY <1>1, <1>3, <1>4, <1>5 DEF Next

\* The invariant of a sock of one worker.
IInv == TypeOK /\ PoolInv /\ CallInv /\ OwedInv /\ OnceInv

\* It holds in every state such a sock gets to.
LEMMA IInvCorrect ==
    ASSUME OneThread
    PROVE  Spec => []IInv
<1>1. Init => IInv
  <2>. SUFFICES ASSUME Init PROVE IInv
    OBVIOUS
  <2>1. \A w \in Workers : w \in Threads
    BY DEF Threads
  <2>2. CallInv
    BY <2>1 DEF Init, CallInv
  <2>3. OwedInv
    <3>1. <<>> \o <<>> = <<>>
      OBVIOUS
    <3>. QED
      BY <2>1, <3>1 DEF Init, OwedInv, OwedAt, Current
  <2>4. OnceInv
    BY DEF Init, OnceInv
  <2>. QED
    BY <2>2, <2>3, <2>4, TypeInit DEF IInv
<1>2. ASSUME IInv, Next PROVE IInv'
  BY <1>2, TypeStep, CallInvStep, OwedStep DEF IInv
<1>3. ASSUME IInv, UNCHANGED vars PROVE IInv'
  <2>1. CallInv' /\ OwedInv' /\ OnceInv'
    BY <1>3 DEF IInv, CallInv, OwedInv, OwedAt, Current, OnceInv, vars, svars, wvars, hvars,
                cvars, avars
  <2>. QED
    BY <1>3, <2>1, TypeStep DEF IInv
<1>4. IInv /\ [Next]_vars => IInv'
  BY <1>2, <1>3
<1>. QED
  BY <1>1, <1>4, PTL DEF Spec

\* An io is called back only in its turn (edpnet.c:184-207, 232-250, 526-555).
THEOREM OrderCorrect ==
    ASSUME OneThread
    PROVE  Spec => []InOrder
<1>1. ASSUME NEW w \in Workers, NEW i \in Ios, NEW q \in Seq(Ios), owed = <<i>> \o q
      PROVE  owed # <<>> /\ i = Head(owed)
  BY <1>1
<1>2. ASSUME IInv PROVE InOrder
  <2>1. PICK w : Workers = {w} /\ Threads = {w}
    BY OneIsAll
  <2>2. HandTypes /\ CallTypes /\ SockTypes /\ OwedAt(w) /\ CallInv
    BY <1>2, <2>1, TypeParts DEF IInv, OwedInv
  <2>3. ASSUME NEW i \in Ios, hpc[w] \in {"okay", "written"}, hio[w] = i
        PROVE  owed # <<>> /\ i = Head(owed)
    <3>1. owed = <<i>> \o es_iowrites
      BY <2>1, <2>2, <2>3, SockAssumption DEF OwedAt, Current
    <3>. QED
      BY <1>1, <2>1, <2>2, <3>1 DEF SockTypes
  <2>4. ASSUME NEW i \in Ios, cpc[w] = "cb", cio[w] = i
        PROVE  owed # <<>> /\ i = Head(owed)
    <3>1. hio[w] = NoIo
      BY <2>1, <2>2, <2>4 DEF CallInv, HandTypes
    <3>2. owed = <<i>> \o es_iowrites
      BY <2>2, <2>4, <3>1, SockAssumption DEF OwedAt, Current
    <3>. QED
      BY <1>1, <2>1, <2>2, <3>2 DEF SockTypes
  <2>. QED
    BY <2>1, <2>3, <2>4 DEF InOrder
<1>3. IInv => InOrder
  BY <1>2
<1>. QED
  BY <1>3, IInvCorrect, PTL

\* What a sock owes is the current io and the queue, each once: there is one
\* place from where an io is called back (edpnet.c:177-207, 235-250, 526-555).
LEMMA OneDuty ==
    ASSUME OneThread, IInv, NEW i \in Ios
    PROVE  IF Owed(i) THEN \E d : Duties(i) = {d} ELSE Duties(i) = {}
<1>1. PICK w : Workers = {w} /\ Threads = {w}
  BY OneIsAll
<1>2. HandTypes /\ CallTypes /\ SockTypes /\ OwedAt(w) /\ CallInv /\ OnceInv
  BY <1>1, TypeParts DEF IInv, OwedInv
<1>. DEFINE H == {<<"handler", v>> : v \in {u \in Workers : hio[u] = i}}
            C == {<<"call", t>> : t \in {u \in Threads : cio[u] = i}}
            Q == {<<"queue", k>> : k \in {j \in DOMAIN es_iowrites : es_iowrites[j] = i}}
            E == IF es_write = i /\ (\A v \in Workers : hio[v] # i) /\ (\A t \in Threads : cio[t] # i)
                 THEN {<<"current">>} ELSE {}
<1>3. Duties(i) = ((H \cup C) \cup Q) \cup E
  BY DEF Duties
<1>4. H = IF hio[w] = i THEN {<<"handler", w>>} ELSE {}
  BY <1>1
<1>5. C = IF cio[w] = i THEN {<<"call", w>>} ELSE {}
  BY <1>1
<1>6. E = IF es_write = i /\ hio[w] # i /\ cio[w] # i THEN {<<"current">>} ELSE {}
  BY <1>1
<1>7. hio[w] = NoIo \/ cio[w] = NoIo
  BY <1>1, <1>2 DEF CallInv, HandTypes, CallTypes
<1>8. i # NoIo
  BY SockAssumption
<1>9. es_write = NoIo \/ Current(w) = <<es_write>>
  BY <1>1, <1>2, <1>7 DEF OwedAt, Current, HandTypes, CallTypes
<1>. HIDE DEF H, C, Q, E
<1>10. CASE Current(w) = <<i>>
  <2>1. owed = <<i>> \o es_iowrites
    BY <1>2, <1>10 DEF OwedAt
  <2>2. Owed(i)
    BY <1>2, <2>1 DEF SockTypes, Owed
  <2>3. \A k \in DOMAIN es_iowrites : es_iowrites[k] # i
    <3>1. ASSUME NEW k \in DOMAIN es_iowrites, es_iowrites[k] = i PROVE FALSE
      <4>1. 1 \in DOMAIN owed /\ k + 1 \in DOMAIN owed /\ owed[1] = i /\ owed[k + 1] = i /\ k + 1 # 1
        BY <1>2, <2>1, <3>1 DEF SockTypes
      <4>. QED
        BY <1>2, <4>1 DEF OnceInv
    <3>. QED
      BY <3>1
  <2>4. Q = {}
    BY <2>3 DEF Q
  <2>5. \E d : (H \cup C) \cup E = {d}
    BY <1>4, <1>5, <1>6, <1>7, <1>8, <1>10 DEF Current
  <2>. QED
    BY <1>3, <2>2, <2>4, <2>5
<1>11. CASE Current(w) # <<i>>
  <2>1. hio[w] # i /\ cio[w] # i /\ es_write # i
    BY <1>7, <1>8, <1>9, <1>11 DEF Current
  <2>2. Duties(i) = Q
    BY <1>3, <1>4, <1>5, <1>6, <2>1
  <2>3. Current(w) = <<>> \/ \E x \in Ios : x # i /\ Current(w) = <<x>>
    BY <1>1, <1>2, <1>11 DEF Current, HandTypes, CallTypes, SockTypes
  <2>4. PICK n \in {0, 1} :
            /\ Len(owed) = n + Len(es_iowrites)
            /\ \A k \in 1 .. Len(es_iowrites) : owed[k + n] = es_iowrites[k]
            /\ n = 1 => owed[1] # i
    <3>1. CASE Current(w) = <<>>
      BY <1>2, <3>1, NoneBefore DEF OwedAt, SockTypes
    <3>2. ASSUME NEW x \in Ios, x # i, Current(w) = <<x>> 
          PROVE  /\ Len(owed) = 1 + Len(es_iowrites)
                 /\ \A k \in 1 .. Len(es_iowrites) : owed[k + 1] = es_iowrites[k]
                 /\ owed[1] # i
      BY <1>2, <3>2 DEF OwedAt, SockTypes
    <3>. QED
      BY <2>3, <3>1, <3>2
  <2>5. ASSUME NEW j \in DOMAIN es_iowrites, NEW k \in DOMAIN es_iowrites,
               es_iowrites[j] = i, es_iowrites[k] = i
        PROVE  j = k
    <3>0. ASSUME NEW m \in DOMAIN es_iowrites
          PROVE  m + n \in DOMAIN owed /\ owed[m + n] = es_iowrites[m]
      BY <1>2, <2>4 DEF SockTypes
    <3>1. j + n \in DOMAIN owed /\ k + n \in DOMAIN owed /\ owed[j + n] = i /\ owed[k + n] = i
      BY <2>5, <3>0
    <3>2. j + n = k + n
      BY <1>2, <3>1 DEF OnceInv
    <3>. QED
      BY <1>2, <2>4, <3>2 DEF SockTypes
  <2>6. Owed(i) <=> \E k \in DOMAIN es_iowrites : es_iowrites[k] = i
    <3>1. ASSUME NEW m \in DOMAIN owed, owed[m] = i
          PROVE  \E k \in DOMAIN es_iowrites : es_iowrites[k] = i
      <4>1. m \in 1 .. n + Len(es_iowrites) /\ m > n
        BY <1>2, <2>4, <3>1 DEF SockTypes
      <4>2. m - n \in 1 .. Len(es_iowrites) /\ (m - n) + n = m
        BY <1>2, <2>4, <4>1 DEF SockTypes
      <4>3. es_iowrites[m - n] = i /\ m - n \in DOMAIN es_iowrites
        BY <1>2, <2>4, <3>1, <4>2 DEF SockTypes
      <4>. QED
        BY <4>3
    <3>2. ASSUME NEW k \in DOMAIN es_iowrites, es_iowrites[k] = i PROVE Owed(i)
      <4>1. k + n \in DOMAIN owed /\ owed[k + n] = i
        BY <1>2, <2>4, <3>2 DEF SockTypes
      <4>. QED
        BY <4>1 DEF Owed
    <3>. QED
      BY <3>1, <3>2 DEF Owed
  <2>7. CASE \E k \in DOMAIN es_iowrites : es_iowrites[k] = i
    <3>1. PICK k \in DOMAIN es_iowrites : es_iowrites[k] = i
      BY <2>7
    <3>2. Q = {<<"queue", k>>}
      BY <2>5, <3>1 DEF Q
    <3>. QED
      BY <2>2, <2>6, <2>7, <3>2
  <2>8. CASE ~\E k \in DOMAIN es_iowrites : es_iowrites[k] = i
    <3>1. Q = {}
      BY <2>8 DEF Q
    <3>. QED
      BY <2>2, <2>6, <2>8, <3>1
  <2>. QED
    BY <2>7, <2>8
<1>. QED
  BY <1>10, <1>11

\* Every io given to edpnet_sock_write is called back once, and not used after it.
THEOREM CallbackCorrect ==
    ASSUME OneThread
    PROVE  Spec => []OneCallback
<1>1. ASSUME IInv PROVE OneCallback
  BY <1>1, OneDuty, FS_Singleton DEF OneCallback
<1>2. IInv => OneCallback
  BY <1>1
<1>. QED
  BY <1>2, IInvCorrect, PTL

-----------------------------------------------------------------------------
(* Data that came in is announced.                                          *)

\* An event that is dispatched keeps those that wait, with their types.
LEMMA DispatchKeeps ==
    ASSUME TypeOK, PoolInv, NEW w \in Workers, NEW e \in Events, NEW f \in Flags,
           SockDispatch(w, e, f)
    PROVE  /\ \A v \in Workers : \A x \in waiting[v] : x \in waiting'[v] /\ etype'[x[1]] = etype[x[1]]
           /\ \E x \in waiting'[w] : etype'[x[1]] = f
<1>1. /\ etype \in [Events -> Flags \cup {NoType}]
      /\ waiting \in [Workers -> SUBSET (Events \X {NORM})]
  BY TypeParts DEF KernelTypes, PoolInv
<1>2. /\ waiting' = [waiting EXCEPT ![w] = @ \cup {<<e, NORM>>}]
      /\ etype' = [etype EXCEPT ![e] = f]
      /\ \A v \in Workers : \A x \in waiting[v] : x[1] # e
  BY DEF SockDispatch, Pool!Submit, Pool!Held, Pool!Waits
<1>3. ASSUME NEW v \in Workers, NEW x \in waiting[v]
      PROVE  x \in waiting'[v] /\ etype'[x[1]] = etype[x[1]]
  BY <1>1, <1>2
<1>4. <<e, NORM>> \in waiting'[w] /\ etype'[<<e, NORM>>[1]] = f
  BY <1>1, <1>2
<1>. QED
  BY <1>3, <1>4

\* What is announced stays so until a handler runs.
LEMMA AnnouncedKept ==
    ASSUME Announced, UNCHANGED <<edge, todo, hpc, waiting, etype>>
    PROVE  Announced'
  BY DEF Announced

\* The kernel raises the edge with data; epoll passes it on to the pool.
LEMMA ReadyOutside ==
    ASSUME TypeOK, PoolInv, ReadyInv, Kernel \/ EpollStep
    PROVE  ReadyInv'
<1>1. UNCHANGED <<hvars, cvars>>
  BY HandFrame, CallFrame
<1>2. UNCHANGED read
  BY DEF Kernel, Connect, Answer, DataArrives, RoomAgain, PeerCloses, EpollStep, EpollWait,
         EpollNoEvent, EpollDispatch, svars
<1>3. CASE Connect
  BY <1>3 DEF Connect, ReadyInv
<1>4. CASE Answer \/ DataArrives \/ RoomAgain \/ PeerCloses
  <2>1. edge'
    BY <1>4 DEF Answer, DataArrives, RoomAgain, PeerCloses
  <2>. QED
    BY <2>1 DEF ReadyInv, Announced
<1>5. CASE EpollWait
  <2>1. conn' = conn /\ data' = data /\ UNCHANGED <<hpc, pvars>>
    BY <1>5 DEF EpollWait, hvars
  <2>2. CASE conn = "up" /\ data
    <3>1. "IN" \in Reported
      BY <2>2 DEF Reported
    <3>2. Flag("IN") = <<"IN">> /\ Flag("OUT") \in Seq(Flags) /\ Len(Flag("OUT")) \in {0, 1}
      <4>1. <<"OUT">> \in Seq(Flags) /\ <<>> \in Seq(Flags) /\ Len(<<"OUT">>) = 1 /\ Len(<<>>) = 0
        BY DEF Flags
      <4>. QED
        BY <3>1, <4>1 DEF Flag
    <3>3. ASSUME NEW a \in Seq(Flags), NEW b \in Seq(Flags), NEW c \in Seq(Flags)
          PROVE  LET s == ((a \o <<"IN">>) \o b) \o c IN Len(a) + 1 \in DOMAIN s /\ s[Len(a) + 1] = "IN"
      <4>1. "IN" \in Flags
        BY DEF Flags
      <4>. QED
        BY <4>1
    <3>4. Flag("ERR") \in Seq(Flags) /\ Flag("HUP") \in Seq(Flags)
      <4>1. <<"ERR">> \in Seq(Flags) /\ <<"HUP">> \in Seq(Flags) /\ <<>> \in Seq(Flags)
        BY DEF Flags
      <4>. QED
        BY <4>1 DEF Flag
    <3>5. todo' = ((Flag("OUT") \o <<"IN">>) \o Flag("ERR")) \o Flag("HUP")
      BY <1>5, <3>2 DEF EpollWait
    <3>6. \E k \in DOMAIN todo' : todo'[k] = "IN"
      BY <3>2, <3>3, <3>4, <3>5
    <3>. QED
      BY <3>6 DEF ReadyInv, Announced
  <2>3. CASE ~(conn = "up" /\ data)
    BY <2>1, <2>3 DEF ReadyInv
  <2>. QED
    BY <2>2, <2>3
<1>6. ASSUME NEW w \in Workers, NEW e \in Events, EpollDispatch(w, e) PROVE ReadyInv'
  <2>1. todo \in Seq(Flags) /\ todo # <<>> /\ todo' = Tail(todo) /\ UNCHANGED <<kvars, hpc, cpc>>
    BY <1>1, <1>6, TypeParts DEF EpollDispatch, KernelTypes, hvars, cvars
  <2>2. Head(todo) \in Flags /\ SockDispatch(w, e, Head(todo))
    BY <1>6, <2>1 DEF EpollDispatch
  <2>3. \A v \in Workers : \A x \in waiting[v] : x \in waiting'[v] /\ etype'[x[1]] = etype[x[1]]
    BY <2>2, DispatchKeeps
  <2>4. \E x \in waiting'[w] : etype'[x[1]] = Head(todo)
    BY <2>2, DispatchKeeps
  <2>5. ASSUME NEW k \in DOMAIN todo, todo[k] = "IN"
        PROVE  \/ Head(todo) = "IN"
               \/ \E j \in DOMAIN todo' : todo'[j] = "IN"
    <3>1. CASE k = 1
      BY <2>1, <2>5, <3>1
    <3>2. CASE k # 1
      <4>1. k - 1 \in DOMAIN Tail(todo) /\ Tail(todo)[k - 1] = "IN"
        BY <2>1, <2>5, <3>2
      <4>. QED
        BY <2>1, <4>1
    <3>. QED
      BY <3>1, <3>2
  <2>6. ASSUME Announced PROVE Announced'
    <3>1. CASE edge
      BY <2>1, <3>1 DEF Announced, kvars
    <3>2. CASE \E k \in DOMAIN todo : todo[k] = "IN"
      BY <2>4, <2>5, <3>2 DEF Announced
    <3>3. ASSUME NEW v \in Workers, hpc[v] = "IN" PROVE Announced'
      BY <2>1, <3>3 DEF Announced
    <3>4. ASSUME NEW v \in Workers, NEW x \in waiting[v], etype[x[1]] = "IN" PROVE Announced'
      BY <2>3, <3>4 DEF Announced
    <3>. QED
      BY <2>6, <3>1, <3>2, <3>3, <3>4 DEF Announced
  <2>7. missed' = missed
    BY <1>6 DEF EpollDispatch, avars
  <2>. QED
    BY <1>1, <1>2, <2>1, <2>6, <2>7 DEF ReadyInv, kvars, cvars
<1>7. CASE EpollNoEvent
  <2>1. /\ todo \in Seq(Flags) /\ todo # <<>> /\ todo' = Tail(todo)
        /\ UNCHANGED <<pvars, kvars, hpc, cpc>>
        /\ missed' = (missed \/ Head(todo) = "IN")
    BY <1>1, <1>7, TypeParts DEF EpollNoEvent, KernelTypes, hvars, cvars
  <2>2. ASSUME NEW k \in DOMAIN todo, todo[k] = "IN" PROVE Announced' \/ missed'
    <3>1. CASE k = 1
      <4>1. Head(todo) = "IN"
        BY <2>1, <2>2, <3>1
      <4>. QED
        BY <2>1, <4>1, Zenon
    <3>2. CASE k # 1
      <4>1. k - 1 \in DOMAIN Tail(todo) /\ Tail(todo)[k - 1] = "IN"
        BY <2>1, <2>2, <3>2
      <4>. QED
        BY <2>1, <4>1 DEF Announced
    <3>. QED
      BY <3>1, <3>2
  <2>3. Announced => Announced' \/ missed'
    BY <2>1, <2>2 DEF Announced, pvars, kvars
  <2>4. missed => missed'
    BY <2>1
  <2>. QED
    BY <1>1, <1>2, <2>1, <2>3, <2>4 DEF ReadyInv, kvars, cvars
<1>. QED
  BY <1>3, <1>4, <1>5, <1>6, <1>7 DEF Kernel, EpollStep

\* The calls: READ is cleared by a read that found nothing, or missed the data.
LEMMA ReadyCall ==
    ASSUME TypeOK, PoolInv, ReadyInv, NEW t \in Threads, CallStep(t)
    PROVE  ReadyInv'
<1>. DEFINE Clears(u) == cpc[u] \in {"clearread", "cbclear"}
<1>0. CallTypes /\ data \in BOOLEAN /\ missed \in BOOLEAN
  BY TypeParts DEF KernelTypes
<1>1. hpc' = hpc /\ conn' = conn /\ edge' = edge /\ todo' = todo
  BY HandFrame DEF hvars, CallStep, WriteDirect, WriteQueue, WriteNow, WriteClear,
     WriteCallback, WriteCallbackReturns, WriteDispatch, WriteNoEvent, ReadCall, ReadNow,
     ReadReturns, ReadFails, ReadClear, kvars
<1>2. ASSUME NEW w \in Workers, NEW e \in Events, WriteDispatch(t, w, e) PROVE ReadyInv'
  <2>1. SockDispatch(w, e, "OUT") /\ "OUT" \in Flags
    BY <1>2 DEF WriteDispatch, Flags
  <2>2. \A v \in Workers : \A x \in waiting[v] : x \in waiting'[v] /\ etype'[x[1]] = etype[x[1]]
    BY <2>1, DispatchKeeps
  <2>3. Announced => Announced'
    BY <1>1, <2>2 DEF Announced
  <2>4. /\ read' = read /\ data' = data /\ missed' = missed
        /\ \A u \in Threads : Clears(u)' => Clears(u)
    BY <1>0, <1>2 DEF WriteDispatch, svars, kvars, avars, Call, CallTypes
  <2>. QED
    BY <1>1, <2>3, <2>4 DEF ReadyInv
<1>3. ASSUME ~\E w \in Workers, e \in Events : WriteDispatch(t, w, e) PROVE ReadyInv'
  <2>1. waiting' = waiting /\ etype' = etype
    BY <1>3 DEF CallStep, WriteDirect, WriteQueue, WriteNow, WriteClear, WriteCallback,
       WriteCallbackReturns, WriteNoEvent, ReadCall, ReadNow, ReadClear, pvars
  <2>2. Announced => Announced'
    BY <1>1, <2>1, AnnouncedKept
  <2>3. CASE ReadNow(t)
    <3>0. \/ data' \in {FALSE, data} /\ missed' = missed
          \/ data' = data /\ missed' = (missed \/ data)
      BY <2>3 DEF ReadNow
    <3>1. read' = read /\ (data' => data) /\ (missed => missed')
      <4>1. read' = read
        BY <2>3 DEF ReadNow, svars
      <4>2. CASE data' \in {FALSE, data} /\ missed' = missed
        <5>1. data' => data
          BY <1>0, <4>2, Zenon
        <5>2. missed => missed'
          BY <4>2, Zenon
        <5>. QED
          BY <4>1, <5>1, <5>2
      <4>3. CASE data' = data /\ missed' = (missed \/ data)
        <5>1. missed => missed'
          BY <4>3, Zenon
        <5>. QED
          BY <4>1, <4>3, <5>1
      <4>. QED
        BY <3>0, <4>1, <4>2, <4>3
    <3>2. data' /\ ~missed' => \A u \in Threads : Clears(u)' => Clears(u)
      BY <1>0, <2>3 DEF ReadNow, ReadReturns, ReadFails, Nested, Call, CallTypes
    <3>. QED
      BY <1>1, <2>2, <3>1, <3>2 DEF ReadyInv
  <2>4. CASE ReadClear(t)
    <3>1. Clears(t) /\ data' = data /\ missed' = missed
      BY <2>4 DEF ReadClear, kvars, avars
    <3>. QED
      BY <1>1, <2>2, <3>1 DEF ReadyInv
  <2>5. CASE ~ReadNow(t) /\ ~ReadClear(t)
    <3>1. read' = read /\ data' = data /\ missed' = missed
      BY <1>3, <2>5 DEF CallStep, WriteDirect, WriteQueue, WriteNow, WriteClear, WriteCallback,
         WriteCallbackReturns, WriteNoEvent, ReadCall, svars, kvars, avars
    <3>2. \A u \in Threads : Clears(u)' => Clears(u)
      BY <1>0, <1>3, <2>5 DEF CallStep, WriteDirect, WriteQueue, WriteNow, WriteClear,
         WriteCallback, WriteCallbackReturns, WriteNoEvent, ReadCall, Nested, Call, CallTypes,
         cvars
    <3>. QED
      BY <1>1, <2>2, <3>1, <3>2 DEF ReadyInv
  <2>. QED
    BY <2>3, <2>4, <2>5
<1>. QED
  BY <1>2, <1>3

\* The handlers: EPOLLIN sets READ, and no call is in between.
LEMMA ReadyHandler ==
    ASSUME OneThread, TypeOK, PoolInv, CallInv, ReadyInv, NEW w \in Workers, HandlerStep(w)
    PROVE  ReadyInv'
<1>0. HandTypes /\ Threads = {w}
  BY TypeParts, OneIsAll
<1>1. cpc' = cpc
  BY CallFrame DEF cvars
<1>2. UNCHANGED <<conn, data, edge, todo, missed>>
  BY DEF HandlerStep, StartHandler, OutConnects, SetConnect, OutWrites, OutDrains, TakeCurrent,
     NoCurrent, Okay, NextEmpty, NextTake, NextWrite, NextClear, NextCallback, NextReturns,
     InReady, InAgain, Err, Hup, CallbackReturns, HandlerDone, kvars, avars
<1>3. ASSUME NEW e \in Events, StartHandler(w, e) PROVE ReadyInv'
  <2>1. /\ hpc[w] = "idle" /\ hpc'[w] = etype[e] /\ etype' = etype /\ read' = read
        /\ \A v \in Workers : v # w => hpc'[v] = hpc[v]
    BY <1>0, <1>3 DEF StartHandler, At, HandTypes, svars
  <2>2. waiting' = [waiting EXCEPT ![w] = {x \in @ : x[1] # e}]
    BY <1>3 DEF StartHandler, Pool!Start
  <2>3. ASSUME NEW v \in Workers, NEW x \in waiting[v], etype[x[1]] = "IN" PROVE Announced'
    <3>1. CASE v = w /\ x[1] = e
      BY <2>1, <2>3, <3>1 DEF Announced
    <3>2. CASE ~(v = w /\ x[1] = e)
      <4>1. x \in waiting'[v]
        BY <2>2, <3>2 DEF PoolInv
      <4>. QED
        BY <2>1, <2>3, <4>1 DEF Announced
    <3>. QED
      BY <3>1, <3>2
  <2>4. ASSUME NEW v \in Workers, hpc[v] = "IN" PROVE Announced'
    BY <2>1, <2>4 DEF Announced
  <2>5. Announced => Announced'
    BY <1>2, <2>3, <2>4 DEF Announced
  <2>. QED
    BY <1>1, <1>2, <2>1, <2>5 DEF ReadyInv
<1>4. CASE InReady(w) \/ InAgain(w)
  <2>1. hpc[w] = "IN" /\ read'
    BY <1>4 DEF InReady, InAgain, svars
  <2>2. cpc[w] \notin {"clearread", "cbclear"}
    BY <2>1 DEF CallInv
  <2>. QED
    BY <1>0, <1>1, <2>1, <2>2 DEF ReadyInv
<1>5. ASSUME ~InReady(w), ~InAgain(w), ~\E e \in Events : StartHandler(w, e) PROVE ReadyInv'
  <2>1. waiting' = waiting /\ read' = read
    BY <1>5 DEF HandlerStep, OutConnects, SetConnect, OutWrites, OutDrains, TakeCurrent,
       NoCurrent, Okay, NextEmpty, NextTake, NextWrite, NextClear, NextCallback, NextReturns,
       Err, Hup, CallbackReturns, HandlerDone, Pool!Finish, pvars, svars
  <2>4. \A v \in Workers : \A x \in waiting[v] : etype'[x[1]] = etype[x[1]]
    <3>1. CASE HandlerDone(w)
      BY <3>1, DoneKeepsTypes
    <3>2. CASE ~HandlerDone(w)
      BY <1>5, <3>2 DEF HandlerStep, OutConnects, SetConnect, OutWrites, OutDrains, TakeCurrent,
         NoCurrent, Okay, NextEmpty, NextTake, NextWrite, NextClear, NextCallback, NextReturns,
         Err, Hup, CallbackReturns, pvars
    <3>. QED
      BY <3>1, <3>2
  <2>2. hpc[w] # "IN" /\ \A v \in Workers : v # w => hpc'[v] = hpc[v]
    BY <1>0, <1>5 DEF HandTypes, At, HandlerStep, OutConnects, SetConnect, OutWrites, OutDrains,
       TakeCurrent, NoCurrent, Okay, NextEmpty, NextTake, NextWrite, NextClear, NextCallback,
       NextReturns, Err, Hup, CallbackReturns, HandlerDone
  <2>3. Announced => Announced'
    BY <1>2, <2>1, <2>2, <2>4 DEF Announced
  <2>. QED
    BY <1>1, <1>2, <2>1, <2>3 DEF ReadyInv
<1>. QED
  BY <1>3, <1>4, <1>5

\* data_ready is lost in two ways only: data that is not announced has an EPOLLIN
\* under way, unless epoll's last one found no event or a read() failed with the
\* data left (edpnet.c:269-278, 325-329, 588-594).
THEOREM ReadyCorrect ==
    ASSUME OneThread
    PROVE  Spec => []ReadyNotLost
<1>1. Init => ReadyInv
  BY DEF Init, ReadyInv
<1>2. ASSUME IInv, ReadyInv, Next PROVE ReadyInv'
  BY <1>2, ReadyOutside, ReadyCall, ReadyHandler DEF IInv, Next
<1>3. ASSUME ReadyInv, UNCHANGED vars PROVE ReadyInv'
  BY <1>3 DEF ReadyInv, Announced, vars, pvars, svars, kvars, hvars, cvars,
     avars
<1>4. IInv /\ ReadyInv /\ [Next]_vars => ReadyInv'
  BY <1>2, <1>3
<1>5. Spec => []ReadyInv
  BY <1>1, <1>4, IInvCorrect, PTL DEF Spec
<1>6. ReadyInv => ReadyNotLost
  BY DEF ReadyInv, Announced, ReadyNotLost
<1>. QED
  BY <1>5, <1>6, PTL
=============================================================================
