---------------------------- MODULE EdpNetProofs ----------------------------
(****************************************************************************)
(* Theorems about EdpNet for any threads, objects, descriptors and events:  *)
(* the types, the count of the event cache and that of an emit's pending    *)
(* events, what must have come before a fault, and that an object destroyed *)
(* while nothing reaches it leaves nothing behind.                          *)
(****************************************************************************)
EXTENDS EdpNet, FiniteSetTheorems, TLAPS

-----------------------------------------------------------------------------
(* The inductive invariant, part by part.                                   *)

MonTypes ==
    /\ fdof \in [Ioes -> Fds \cup {NoFd}]
    /\ watch \in [Fds -> Ioes \cup {NoIoe}]
    /\ ioe_data \in [Ioes -> Objects \cup {NoObj}]

KernelTypes ==
    /\ holder \in [Fds -> Objects \cup {NoObj}]
    /\ listening \subseteq Servs
    /\ edge \subseteq {f \in Fds : watch[f] # NoIoe}

ObjTypes ==
    /\ obj \in [Objects -> {"none", "new", "live", "closing", "freed", "lost"}]
    /\ es_sock \in [Objects -> Fds \cup {NoFd}]
    /\ monitor \in [Objects -> BOOLEAN]
    /\ emit \in [Socks -> {"null", "live", "dead", "freed"}]

\* On the way in; on the way out; on the way out after close().
In_ == {"set", "add", "mark", "refuse"}
Past == {"emit", "kill", "unemit", "free"}
Out == {"close"} \cup Past

CallTypes ==
    /\ cpc \in [Threads -> {"idle", "socket"} \cup In_ \cup Out]
    /\ cobj \in [Threads -> Objects \cup {NoObj}]
    /\ \A t \in Threads : cpc[t] = "idle" <=> cobj[t] = NoObj

\* The entry being worked off is an object's, that of an event a sock's.
EpollTypes ==
    /\ epc \in {"wait", "cb", "count", "submit", "callback", "ended"}
    /\ batch \subseteq [ioe : Ioes, ev : (SUBSET Flags) \ {{}}]
    /\ cur \in [data : Objects \cup {NoObj}, ev : SUBSET Flags]
    /\ IF epc \in {"wait", "ended"} THEN cur = NoEntry ELSE cur.data \in Objects
    /\ IF epc \in {"count", "submit"} THEN eev \in Events /\ cur.data \in Socks ELSE eev = NoEvent
    /\ epc = "callback" => cur.data \in Servs

PoolTypes ==
    /\ waiting \in [Workers -> SUBSET (Events \X {NORM})]
    /\ running \in [Workers -> Events \cup {NoEvent}]
    /\ ev_emit \in [Events -> Socks \cup {NoObj}]
    /\ hpc \in [Workers -> {"idle", "handler", "callback", "done"}]
    /\ \A w \in Workers : hpc[w] = "idle" <=> running[w] = NoEvent

\* Worker w has event e, waiting or in its handler.
Has(w, e) == running[w] = e \/ <<e, NORM>> \in waiting[w]

\* An event is in one place of the pool or with the epoll thread.
PlaceInv ==
    /\ \A v, w \in Workers, e \in Events : Has(v, e) /\ Has(w, e) => v = w
    /\ \A w \in Workers, e \in Events : ~(running[w] = e /\ <<e, NORM>> \in waiting[w])
    /\ epc \in {"count", "submit"} => \A w \in Workers : ~Has(w, eev)

\* Only a sock with an emit is reached by events.
EmitInv ==
    /\ \A e \in Events : Pool!Held(e) => ev_emit[e] \in Socks /\ emit[ev_emit[e]] # "null"
    /\ epc \in {"count", "submit"} => emit[cur.data] # "null"
    /\ \A s \in Socks : emit[s] = "null" => pend[s] = 0
    /\ \A s \in Socks : obj[s] \in {"none", "lost"} => emit[s] = "null"
    /\ \A s \in Socks : emit[s] = "freed" => obj[s] \in {"closing", "freed"}

\* What an object is while thread t has it in a call.
CallAt(t) ==
    LET o == cobj[t] IN
    /\ cpc[t] = "socket" => obj[o] = "new" /\ es_sock[o] = NoFd /\ ~monitor[o]
    /\ cpc[t] \in In_ => obj[o] \in {"new", "live"} /\ es_sock[o] \in Fds /\ ~monitor[o]
    /\ cpc[t] \in Out => obj[o] = "closing" /\ es_sock[o] \in Fds
    /\ cpc[t] \in {"emit", "kill", "unemit"} => o \in Socks
    /\ cpc[t] \in {"kill", "unemit"} => emit[o] \in {"live", "dead"}
    /\ cpc[t] = "refuse" => o \in refused
    /\ o \in Servs /\ cpc[t] \in In_ => obj[o] = "new"
    /\ o \in Servs /\ cpc[t] \in {"socket", "set", "add", "mark"} => o \notin refused

\* What an object is in any case.
ObjAt(o) ==
    /\ obj[o] = "none" => es_sock[o] = NoFd /\ ~monitor[o] /\ o \notin refused
    /\ obj[o] \in {"freed", "lost"} => es_sock[o] = NoFd
    /\ obj[o] = "live" => es_sock[o] \in Fds
    /\ obj[o] = "live" /\ o \in Servs => o \notin refused

CallInv ==
    /\ \A t, u \in Threads : cobj[t] = cobj[u] /\ cobj[t] # NoObj => t = u
    /\ \A t \in Threads : CallAt(t)
    /\ \A o \in Objects : ObjAt(o)

\* A descriptor is its object's until that closes it or its eio_addfd fails.
HoldInv ==
    /\ \A f \in Fds : holder[f] # NoObj =>
          /\ es_sock[holder[f]] = f
          /\ \A t \in Threads : cobj[t] = holder[f] => cpc[t] \notin Past
    /\ \A o \in Objects : es_sock[o] # NoFd =>
          \/ holder[es_sock[o]] = o
          \/ o \in refused
          \/ obj[o] = "closing" /\ \A t \in Threads : cobj[t] = o => cpc[t] \in Past

\* A watched descriptor reports with an object that is allocated for it and for
\* the one that has it open.
WatchInv ==
    \A f \in Fds : watch[f] # NoIoe =>
        /\ fdof[watch[f]] = f
        /\ ioe_data[watch[f]] = holder[f]
        /\ \A t \in Threads : cpc[t] = "add" => cobj[t] # holder[f]

\* An eio_event_t may carry the address of o.
Claimed(o) == \/ obj[o] \in {"closing", "freed"}
              \/ monitor[o]
              \/ \E t \in Threads : cobj[t] = o /\ cpc[t] \in {"add", "mark"}

\* An eio_event_t is for one object, and a sock or serv has one at most.
IoeInv ==
    /\ \A i \in Ioes : fdof[i] = NoFd <=> ioe_data[i] = NoObj
    /\ \A i, j \in Ioes : ioe_data[i] = ioe_data[j] /\ ioe_data[i] # NoObj => i = j
    /\ \A i \in Ioes : ioe_data[i] # NoObj => Claimed(ioe_data[i])

\* Nothing knows an object that never had a descriptor.
UnusedInv ==
    \A o \in Objects : es_sock[o] = NoFd /\ obj[o] # "freed" =>
        /\ \A i \in Ioes : ioe_data[i] # o
        /\ cur.data # o
        /\ \A e \in Events : Pool!Held(e) => ev_emit[e] # o

Out1 == {e \in Events : Pool!Held(e) \/ eev = e}

CacheInv == IsFiniteSet(Out1) /\ CacheBalanced

Counted(s) == {e \in Events :
                      \/ epc = "submit" /\ eev = e /\ Data = s
                      \/ \E w \in Workers : /\ ev_emit[e] = s
                                            /\ \/ Pool!Waits(w, e)
                                               \/ running[w] = e /\ hpc[w] # "done"}

PendInv == pend \in [Socks -> Nat] /\ PendExact

\* Nothing reaches an object that was quiet when it was destroyed.
QuietInv ==
    \A o \in Objects :
        obj[o] \in {"closing", "freed"} /\ (noisy = {} \/ o \in Socks \ noisy) => ~Active(o)

\* While every object was quiet when it was destroyed, an entry of the epoll
\* thread is that of an eio_event_t whose eio_addfd is through.
EntryInv ==
    noisy = {} =>
        /\ \A x \in batch : /\ fdof[x.ioe] # NoFd
                            /\ \A t \in Threads : cpc[t] = "add" => cobj[t] # ioe_data[x.ioe]
        /\ \A t \in Threads :
              cobj[t] \in Servs /\ cpc[t] \in {"set", "add", "refuse"} => cobj[t] # cur.data

\* The emit of a sock that was quiet when it was destroyed is freed before it.
FreeInv ==
    /\ \A t \in Threads : cpc[t] = "free" /\ cobj[t] \in Socks \ noisy => emit[cobj[t]] = "freed"
    /\ \A s \in Socks : obj[s] = "freed" /\ s \notin noisy => emit[s] = "freed"

IInv == /\ MonTypes /\ KernelTypes /\ ObjTypes /\ CallTypes /\ EpollTypes /\ PoolTypes
        /\ PlaceInv /\ EmitInv /\ CallInv /\ HoldInv /\ WatchInv /\ IoeInv /\ UnusedInv
        /\ CacheInv /\ PendInv /\ QuietInv /\ EntryInv /\ FreeInv /\ CloseSafe /\ TouchSafe

\* Everything but the fault.
core == <<mvars, pvars, kvars, ovars, mtvars, cvars, evars, hpc, cache, refused, noisy>>

-----------------------------------------------------------------------------
(* Who changes what.                                                        *)

\* A call of edpnet leaves the pool, the epoll thread and the events alone.
LEMMA CallKeeps ==
    ASSUME NEW t \in Threads, CallStep(t)
    PROVE  UNCHANGED <<pvars, evars, hpc, cache>>
  BY DEF CallStep, Create, CreateNoEmit, SocketOpens, SocketFails, Set, AddFd, AddNoMem, AddWatch,
         AddRefused, Mark, Refuse, Listen, SockDestroy, ServDestroy, Close, Foreign, DestroyNull,
         DestroyRefused, DestroyTested, DestroyKills, DestroyFrees, Free, Fault, avars

\* The epoll thread makes no calls and leaves the emits and what eio_addfd and
\* eio_delfd keep alone.
LEMMA EpollKeeps ==
    ASSUME EpollStep
    PROVE  UNCHANGED <<fdof, ioe_data, running, listening, monitor, emit, cvars, hpc, refused, noisy>>
<1>. USE DEF mvars, pvars, kvars, ovars, mtvars, avars, Fault
<1>1. CASE EpollWait \/ EpollFails \/ EntryDone \/ FlagFreed \/ EmitMissing \/ SockRefused
  BY <1>1 DEF EpollWait, EpollFails, EntryDone, FlagFreed, EmitMissing, SockRefused, Mon!Fail
<1>2. ASSUME NEW x \in batch, Entry(x) \/ EntryFreed(x)
      PROVE  UNCHANGED <<fdof, ioe_data, running, listening, monitor, emit, cvars, hpc, refused, noisy>>
  BY <1>2 DEF Entry, EntryFreed
<1>3. CASE Count \/ CountFreed \/ AcceptNoMem \/ ServOut \/ ServHup \/ ServReturns
  BY <1>3 DEF Count, CountFreed, AcceptNoMem, ServOut, ServHup, ServReturns
<1>4. CASE (\E e \in Events : SockDispatch(e)) \/ (\E w \in Workers : Submit(w))
  BY <1>4 DEF SockDispatch, Submit, Pool!Submit
<1>5. CASE \E s \in Socks : AcceptFails(s) \/ \E f \in Fds : Accept(s, f)
  BY <1>5 DEF AcceptFails, Accept
<1>. QED
  BY <1>1, <1>2, <1>3, <1>4, <1>5 DEF EpollStep

\* A worker changes the pool and the counts.
LEMMA WorkerKeeps ==
    ASSUME NEW w \in Workers, WorkerStep(w)
    PROVE  UNCHANGED <<mvars, kvars, ovars, emit, cvars, evars, refused, noisy>>
  BY DEF WorkerStep, Start, StartFreed, Callback, CallbackFreed, Return, ReturnFreed, Done, Fault,
         mtvars, avars

\* A fault moves nothing.
LEMMA FaultIs ==
    ASSUME NEW kind, NEW o, Fault(kind, o)
    PROVE  UNCHANGED core /\ fault' = [kind |-> kind, obj |-> o]
  BY DEF Fault, core

-----------------------------------------------------------------------------
(* Types.                                                                   *)

Types == MonTypes /\ KernelTypes /\ ObjTypes /\ CallTypes /\ EpollTypes /\ PoolTypes

\* The types hold after edpnet_init.
LEMMA TypesInit == Init => Types
<1>. SUFFICES ASSUME Init PROVE Types
  OBVIOUS
<1>. USE NetAssumption DEF Init, Mon!Init, Pool!Init
<1>1. MonTypes
  BY DEF MonTypes
<1>2. KernelTypes
  BY DEF KernelTypes
<1>3. ObjTypes
  BY DEF ObjTypes
<1>4. CallTypes
  BY DEF CallTypes
<1>5. EpollTypes
  BY DEF EpollTypes, NoEntry
<1>6. PoolTypes
  BY DEF PoolTypes
<1>. QED
  BY <1>1, <1>2, <1>3, <1>4, <1>5, <1>6 DEF Types

\* A thread in a call has an object.
LEMMA HasObject ==
    ASSUME CallTypes, NEW t \in Threads, cpc[t] # "idle"
    PROVE  cobj[t] \in Objects
  BY DEF CallTypes

\* A step of a call leads to another place of it or out of it.
LEMMA GoTypes ==
    ASSUME CallTypes, NEW t \in Threads, NEW label \in {"idle", "socket"} \cup In_ \cup Out,
           NEW o \in Objects, Go(t, label, o)
    PROVE  CallTypes'
  BY NetAssumption DEF CallTypes, Go, Objects

\* A call of edpnet leaves every thread idle or at a place with an object.
LEMMA CallCallTypes ==
    ASSUME CallTypes, NEW t \in Threads, CallStep(t)
    PROVE  CallTypes'
<1>. DEFINE Labels == {"idle", "socket"} \cup In_ \cup Out
<1>0. \A label \in Labels : In(t, label) /\ label # "idle" => cobj[t] \in Objects
  BY HasObject DEF In
<1>1. CASE UNCHANGED cvars
  BY <1>1 DEF CallTypes, cvars
<1>2. CASE \E label \in Labels, o \in Objects : Go(t, label, o)
  BY <1>2, GoTypes
<1>3. ASSUME NEW o \in Objects, Create(t, o) PROVE Go(t, "socket", o)
  BY <1>3 DEF Create
<1>4. ASSUME NEW s \in Socks, CreateNoEmit(t, s) \/ Set(t, s) \/ SockDestroy(t, s)
      PROVE  UNCHANGED cvars \/ Go(t, "set", s) \/ Go(t, "close", s)
  BY <1>4 DEF CreateNoEmit, Set, SockDestroy
<1>5. ASSUME NEW v \in Servs, Listen(t, v) \/ ServDestroy(t, v)
      PROVE  UNCHANGED cvars \/ Go(t, "close", v)
  BY <1>5 DEF Listen, ServDestroy
<1>6. ASSUME NEW f \in Fds, SocketOpens(t, f) PROVE cobj[t] \in Objects /\ Go(t, "set", cobj[t])
  BY <1>0, <1>6 DEF SocketOpens, Labels
<1>7. ASSUME NEW i \in Ioes, AddFd(t, i) \/ AddWatch(t, i) \/ AddRefused(t, i)
      PROVE  /\ cobj[t] \in Objects
             /\ Go(t, "add", cobj[t]) \/ Go(t, "mark", cobj[t]) \/ Go(t, "refuse", cobj[t])
  BY <1>0, <1>7 DEF AddFd, AddWatch, AddRefused, Labels, In_
<1>8. CASE SocketFails(t) \/ AddNoMem(t) \/ Mark(t) \/ Refuse(t)
  <2>1. /\ cobj[t] \in Objects
        /\ Go(t, "idle", cobj[t]) \/ Go(t, "refuse", cobj[t])
    BY <1>0, <1>8 DEF SocketFails, AddNoMem, Mark, Refuse, Labels, In_
  <2>. QED
    BY <1>2, <2>1 DEF In_
<1>9. CASE Close(t) \/ DestroyRefused(t) \/ DestroyTested(t) \/ DestroyKills(t) \/ DestroyFrees(t)
           \/ Free(t)
  <2>1. /\ cobj[t] \in Objects
        /\ \/ Go(t, "free", cobj[t]) \/ Go(t, "emit", cobj[t]) \/ Go(t, "kill", cobj[t])
           \/ Go(t, "unemit", cobj[t]) \/ Go(t, "idle", cobj[t])
    BY <1>0, <1>9 DEF Close, DestroyRefused, DestroyTested, DestroyKills, DestroyFrees, Free,
                      Labels, Out, Past
  <2>. QED
    BY <1>2, <2>1 DEF Out, Past
<1>10. CASE Foreign(t) \/ DestroyNull(t)
  BY <1>1, <1>10 DEF Foreign, DestroyNull, Fault
<1>11. ASSUME \E s \in Objects : \/ Go(t, "socket", s) \/ Go(t, "set", s) \/ Go(t, "close", s)
                                 \/ Go(t, "add", s) \/ Go(t, "mark", s) \/ Go(t, "refuse", s)
       PROVE  CallTypes'
  BY <1>2, <1>11 DEF In_, Out, Past
<1>. QED
  BY <1>1, <1>3, <1>4, <1>5, <1>6, <1>7, <1>8, <1>9, <1>10, <1>11 DEF CallStep, Objects

\* Which calls change what the monitor and the kernel keep.
LEMMA CallMon ==
    ASSUME NEW t \in Threads, CallStep(t),
           ~\E i \in Ioes : AddFd(t, i) \/ AddWatch(t, i) \/ AddRefused(t, i),
           ~Refuse(t), ~Close(t), ~\E v \in Servs : ServDestroy(t, v)
    PROVE  UNCHANGED <<mvars, edge>>
  BY DEF CallStep, Create, CreateNoEmit, SocketOpens, SocketFails, Set, AddNoMem, Mark, Listen,
         SockDestroy, Foreign, DestroyNull, DestroyRefused, DestroyTested, DestroyKills,
         DestroyFrees, Free, Fault, kvars

\* Which calls open or close a descriptor.
LEMMA CallHolder ==
    ASSUME NEW t \in Threads, CallStep(t), ~\E f \in Fds : SocketOpens(t, f), ~Refuse(t), ~Close(t)
    PROVE  holder' = holder
<1>. USE DEF kvars
<1>1. ASSUME NEW i \in Ioes, AddFd(t, i) \/ AddWatch(t, i) \/ AddRefused(t, i)
      PROVE  holder' = holder
  BY <1>1 DEF AddFd, AddWatch, AddRefused
<1>2. ASSUME NEW v \in Servs, Listen(t, v) \/ ServDestroy(t, v) PROVE holder' = holder
  BY <1>2 DEF Listen, ServDestroy
<1>. QED
  BY <1>1, <1>2
     DEF CallStep, Create, CreateNoEmit, SocketFails, Set, AddNoMem, Mark, SockDestroy, Foreign,
         DestroyNull, DestroyRefused, DestroyTested, DestroyKills, DestroyFrees, Free, Fault

\* close() of a descriptor in a call.
LEMMA Closes ==
    ASSUME NEW o \in Objects, es_sock[o] \in Fds, CloseSock(o), KernelTypes, MonTypes
    PROVE  /\ fdof' = fdof
           /\ \/ /\ holder[es_sock[o]] = o /\ holder' = [holder EXCEPT ![es_sock[o]] = NoObj]
                 /\ edge' = edge \ {es_sock[o]} /\ watch' = [watch EXCEPT ![es_sock[o]] = NoIoe]
              \/ holder[es_sock[o]] = NoObj /\ UNCHANGED <<holder, edge, watch>>
  BY DEF CloseSock, Mon!Close

\* The types of what the monitor and the kernel keep, after a call.
LEMMA CallMonTypes ==
    ASSUME Types, CallInv, NEW t \in Threads, CallStep(t)
    PROVE  MonTypes' /\ KernelTypes'
<1>. USE NetAssumption
<1>0. /\ MonTypes /\ KernelTypes /\ CallTypes /\ ObjTypes
      /\ cpc[t] # "idle" => cobj[t] \in Objects
  BY HasObject DEF Types
<1>1. ASSUME NEW i \in Ioes, AddFd(t, i) PROVE MonTypes' /\ KernelTypes'
  <2>1. /\ cobj[t] \in Objects /\ es_sock[cobj[t]] \in Fds /\ UNCHANGED kvars
        /\ fdof' = [fdof EXCEPT ![i] = es_sock[cobj[t]]] /\ watch' = watch
        /\ ioe_data' = [ioe_data EXCEPT ![i] = cobj[t]]
    BY <1>0, <1>1 DEF AddFd, In, In_, CallInv, CallAt, Mon!Reserve
  <2>. QED
    BY <1>0, <2>1 DEF MonTypes, KernelTypes, kvars
<1>2. ASSUME NEW i \in Ioes, AddWatch(t, i) PROVE MonTypes' /\ KernelTypes'
  <2>1. /\ cobj[t] \in Objects /\ es_sock[cobj[t]] \in Fds
        /\ UNCHANGED <<fdof, ioe_data, holder, listening>>
        /\ watch' = [watch EXCEPT ![es_sock[cobj[t]]] = i]
        /\ edge' = edge \cup {es_sock[cobj[t]]}
    BY <1>0, <1>2 DEF AddWatch, In, In_, CallInv, CallAt, Mon!Watch
  <2>. QED
    BY <1>0, <2>1 DEF MonTypes, KernelTypes
<1>3. ASSUME NEW i \in Ioes, AddRefused(t, i) PROVE MonTypes' /\ KernelTypes'
  BY <1>0, <1>3 DEF AddRefused, Mon!Refuse, MonTypes, KernelTypes, kvars
<1>4. CASE Refuse(t) \/ Close(t)
  <2>1. /\ cobj[t] \in Objects /\ es_sock[cobj[t]] \in Fds /\ CloseSock(cobj[t])
        /\ UNCHANGED <<ioe_data, listening>>
    BY <1>0, <1>4 DEF Refuse, Close, In, In_, Out, CallInv, CallAt
  <2>. QED
    BY <1>0, <2>1, Closes DEF MonTypes, KernelTypes
<1>5. ASSUME NEW v \in Servs, ServDestroy(t, v) PROVE MonTypes' /\ KernelTypes'
  <2>1. v \in Objects /\ es_sock[v] \in Fds
    BY <1>5 DEF ServDestroy, MayUse, CallInv, ObjAt, Objects
  <2>2. CASE UNCHANGED <<mvars, edge>>
    BY <1>0, <1>5, <2>2 DEF ServDestroy, MonTypes, KernelTypes, mvars
  <2>3. CASE ~UNCHANGED <<mvars, edge>>
    <3>1. /\ watch[es_sock[v]] # NoIoe /\ fdof' = [fdof EXCEPT ![watch[es_sock[v]]] = NoFd]
          /\ watch' = [watch EXCEPT ![es_sock[v]] = NoIoe]
          /\ ioe_data' = [ioe_data EXCEPT ![watch[es_sock[v]]] = NoObj]
          /\ edge' = edge \ {es_sock[v]} /\ UNCHANGED <<holder, listening>>
      BY <1>5, <2>3 DEF ServDestroy, Mon!Unwatch
    <3>. QED
      BY <1>0, <2>1, <3>1 DEF MonTypes, KernelTypes
  <2>. QED
    BY <2>2, <2>3
<1>6. CASE UNCHANGED <<mvars, edge>>
  <2>1. MonTypes'
    BY <1>0, <1>6 DEF MonTypes, mvars
  <2>2. ASSUME NEW f \in Fds, SocketOpens(t, f) PROVE KernelTypes'
    BY <1>0, <1>6, <2>2 DEF SocketOpens, In, KernelTypes, mvars
  <2>3. ASSUME NEW v \in Servs, Listen(t, v) PROVE KernelTypes'
    BY <1>0, <1>6, <2>3 DEF Listen, KernelTypes, mvars
  <2>4. CASE UNCHANGED <<holder, listening>>
    <3>1. KernelTypes'
      BY <1>0, <1>6, <2>4 DEF KernelTypes, mvars
    <3>. QED
      BY <2>1, <3>1
  <2>5. (~\E f \in Fds : SocketOpens(t, f)) /\ (~\E v \in Servs : Listen(t, v))
        /\ ~Refuse(t) /\ ~Close(t) => UNCHANGED <<holder, listening>>
    BY CallHolder DEF CallStep, Create, CreateNoEmit, SocketFails, Set, AddFd, AddNoMem, AddWatch,
         AddRefused, Mark, SockDestroy, ServDestroy, Foreign, DestroyNull,
         DestroyRefused, DestroyTested, DestroyKills, DestroyFrees, Free, Fault, kvars
  <2>. QED
    BY <1>4, <2>1, <2>2, <2>3, <2>4, <2>5
<1>. QED
  BY <1>1, <1>2, <1>3, <1>4, <1>5, <1>6, CallMon

\* The calls that change an object or its emit.
LEMMA CallObjTypes ==
    ASSUME Types, CallInv, NEW t \in Threads, CallStep(t)
    PROVE  ObjTypes'
<1>. USE NetAssumption DEF ObjTypes, Obj, ovars, mtvars
<1>0. ObjTypes /\ \A label : In(t, label) /\ label # "idle" => cobj[t] \in Objects
  BY HasObject DEF Types, In
<1>1. ASSUME NEW o \in Objects, Create(t, o) PROVE ObjTypes'
  BY <1>0, <1>1 DEF Create
<1>2. ASSUME NEW s \in Socks, CreateNoEmit(t, s) \/ SockDestroy(t, s) \/ Set(t, s) PROVE ObjTypes'
  BY <1>0, <1>2 DEF CreateNoEmit, SockDestroy, Set, Objects
<1>3. ASSUME NEW v \in Servs, ServDestroy(t, v) \/ Listen(t, v) PROVE ObjTypes'
  BY <1>0, <1>3 DEF ServDestroy, Listen, Objects
<1>4. ASSUME NEW f \in Fds, SocketOpens(t, f) PROVE ObjTypes'
  BY <1>0, <1>4 DEF SocketOpens
<1>5. CASE SocketFails(t)
  BY <1>0, <1>5 DEF SocketFails
<1>6. CASE Mark(t)
  BY <1>0, <1>6 DEF Mark
<1>7. CASE Refuse(t)
  BY <1>0, <1>7 DEF Refuse
<1>8. CASE DestroyKills(t) \/ DestroyFrees(t) \/ Free(t)
  BY <1>0, <1>8 DEF DestroyKills, DestroyFrees, Free
<1>9. ASSUME NEW i \in Ioes, AddFd(t, i) \/ AddWatch(t, i) \/ AddRefused(t, i) PROVE ObjTypes'
  BY <1>0, <1>9 DEF AddFd, AddWatch, AddRefused
<1>10. CASE \/ AddNoMem(t) \/ Close(t) \/ Foreign(t) \/ DestroyNull(t) \/ DestroyRefused(t)
            \/ DestroyTested(t)
  BY <1>0, <1>10 DEF AddNoMem, Close, Foreign, DestroyNull, DestroyRefused, DestroyTested, Fault
<1>. QED
  BY <1>1, <1>2, <1>3, <1>4, <1>5, <1>6, <1>7, <1>8, <1>9, <1>10 DEF CallStep

\* All types after a step of a call.
LEMMA CallTypesStep ==
    ASSUME Types, CallInv, NEW t \in Threads, CallStep(t)
    PROVE  Types'
<1>1. CallTypes' /\ MonTypes' /\ KernelTypes' /\ ObjTypes'
  BY CallCallTypes, CallMonTypes, CallObjTypes DEF Types
<1>2. EpollTypes'
  BY CallKeeps DEF Types, EpollTypes, evars
<1>3. PoolTypes'
  BY CallKeeps DEF Types, PoolTypes, pvars
<1>. QED
  BY <1>1, <1>2, <1>3 DEF Types

\* The entry the epoll thread takes up is for an object.
LEMMA EpollEpollTypes ==
    ASSUME Types, IoeInv, EpollStep
    PROVE  EpollTypes'
<1>. USE NetAssumption DEF EpollTypes
<1>0. EpollTypes /\ MonTypes /\ KernelTypes
  BY DEF Types
<1>1. CASE EpollWait
  <2>1. PICK r \in [edge -> SUBSET Flags] :
           batch' = {[ioe |-> watch[f], ev |-> r[f]] : f \in {g \in edge : r[g] # {}}}
    BY <1>1 DEF EpollWait
  <2>2. \A f \in edge : watch[f] \in Ioes
    BY <1>0 DEF MonTypes, KernelTypes
  <2>3. batch' \subseteq [ioe : Ioes, ev : (SUBSET Flags) \ {{}}]
    BY <2>1, <2>2
  <2>. QED
    BY <1>0, <1>1, <2>3 DEF EpollWait
<1>2. CASE EpollFails
  BY <1>0, <1>2 DEF EpollFails, EpollAt
<1>3. CASE EntryDone
  <2>1. cur' = NoEntry /\ epc' = "wait" /\ UNCHANGED <<batch, eev>> /\ epc = "cb"
    BY <1>3 DEF EntryDone, EpollAt
  <2>. QED
    BY <1>0, <2>1 DEF NoEntry
<1>4. CASE \/ FlagFreed \/ EmitMissing \/ CountFreed \/ ServOut \/ \E x \in batch : EntryFreed(x)
  BY <1>0, <1>4 DEF FlagFreed, EmitMissing, CountFreed, ServOut, EntryFreed, Fault, evars
<1>5. ASSUME NEW x \in batch, Entry(x) PROVE EpollTypes'
  <2>1. /\ x.ioe \in Ioes /\ x.ev \in SUBSET Flags /\ fdof[x.ioe] # NoFd /\ epc = "wait"
        /\ batch' = batch \ {x} /\ cur' = [data |-> ioe_data[x.ioe], ev |-> x.ev]
        /\ epc' = "cb" /\ eev' = eev
    BY <1>0, <1>5 DEF Entry, EpollAt
  <2>2. ioe_data[x.ioe] \in Objects
    BY <1>0, <2>1 DEF IoeInv, MonTypes
  <2>. QED
    BY <1>0, <2>1, <2>2
<1>6. CASE SockRefused
  BY <1>0, <1>6 DEF SockRefused, FlagDone, AtFlag, EpollAt
<1>7. CASE Count
  BY <1>0, <1>7 DEF Count, EpollAt
<1>8. ASSUME NEW e \in Events, SockDispatch(e) PROVE EpollTypes'
  BY <1>0, <1>8 DEF SockDispatch, AtFlag, EpollAt, Data
<1>9. ASSUME NEW w \in Workers, Submit(w) PROVE EpollTypes'
  BY <1>0, <1>9 DEF Submit, FlagDone, EpollAt
<1>10. ASSUME NEW s \in Socks, AcceptFails(s) \/ \E f \in Fds : Accept(s, f) PROVE EpollTypes'
  BY <1>0, <1>10 DEF AcceptFails, Accept, AtFlag, EpollAt, Data
<1>11. CASE AcceptNoMem \/ ServHup \/ ServReturns
  BY <1>0, <1>11 DEF AcceptNoMem, ServHup, ServReturns, AtFlag, EpollAt, Data, FlagDone
<1>. QED
  BY <1>1, <1>2, <1>3, <1>4, <1>5, <1>6, <1>7, <1>8, <1>9, <1>10, <1>11 DEF EpollStep

\* What the epoll thread changes besides its own variables.
LEMMA EpollMon ==
    ASSUME EpollStep
    PROVE  \/ EpollWait \/ EpollFails
           \/ UNCHANGED <<mvars, edge>>
<1>1. ASSUME EpollStep, ~EpollWait, ~EpollFails, ~(\E s \in Socks, f \in Fds : Accept(s, f)),
             ~(\E x \in batch : Entry(x) \/ EntryFreed(x))
      PROVE  UNCHANGED <<mvars, edge>>
  BY <1>1 DEF EpollStep, EntryDone, FlagFreed, EmitMissing, SockRefused, Count, CountFreed,
         AcceptNoMem, ServOut, ServHup, ServReturns, SockDispatch, Submit, AcceptFails, Fault, kvars
<1>2. ASSUME NEW s \in Socks, NEW f \in Fds, Accept(s, f) PROVE UNCHANGED <<mvars, edge>>
  BY <1>2 DEF Accept
<1>3. ASSUME NEW x \in batch, Entry(x) \/ EntryFreed(x) PROVE UNCHANGED <<mvars, edge>>
  BY <1>3 DEF Entry, EntryFreed, Fault, kvars
<1>. QED
  BY <1>1, <1>2, <1>3

\* Only accept() makes something of an object in the epoll thread.
LEMMA EpollObj ==
    ASSUME EpollStep
    PROVE  \/ \E s \in Socks : AcceptFails(s) \/ \E f \in Fds : Accept(s, f)
           \/ UNCHANGED <<holder, ovars>>
<1>1. ASSUME EpollStep, ~(\E s \in Socks : AcceptFails(s) \/ \E f \in Fds : Accept(s, f)),
             ~(\E x \in batch : Entry(x) \/ EntryFreed(x))
      PROVE  UNCHANGED <<holder, ovars>>
  BY <1>1 DEF EpollStep, EpollWait, EpollFails, EntryDone, FlagFreed, EmitMissing, SockRefused,
         Count, CountFreed, AcceptNoMem, ServOut, ServHup, ServReturns, SockDispatch, Submit,
         Fault, kvars
<1>2. ASSUME NEW x \in batch, Entry(x) \/ EntryFreed(x) PROVE UNCHANGED <<holder, ovars>>
  BY <1>2 DEF Entry, EntryFreed, Fault, kvars
<1>. QED
  BY <1>1, <1>2

\* All types after a step of the epoll thread.
LEMMA EpollTypesStep ==
    ASSUME Types, IoeInv, EpollStep
    PROVE  Types'
<1>. USE NetAssumption
<1>0. MonTypes /\ KernelTypes /\ ObjTypes /\ CallTypes /\ PoolTypes /\ EpollTypes
  BY DEF Types
<1>1. CallTypes' /\ EpollTypes'
  BY <1>0, EpollKeeps, EpollEpollTypes DEF CallTypes, cvars
<1>2. MonTypes' /\ edge' \subseteq {f \in Fds : watch'[f] # NoIoe}
  <2>1. CASE EpollWait
    BY <1>0, <2>1 DEF EpollWait, mvars, MonTypes, KernelTypes
  <2>2. CASE EpollFails
    BY <1>0, <2>2 DEF EpollFails, Mon!Fail, MonTypes, KernelTypes
  <2>3. CASE UNCHANGED <<mvars, edge>>
    BY <1>0, <2>3 DEF mvars, MonTypes, KernelTypes
  <2>. QED
    BY <2>1, <2>2, <2>3, EpollMon
<1>3. KernelTypes' /\ ObjTypes'
  <2>1. ASSUME NEW s \in Socks, AcceptFails(s) PROVE KernelTypes' /\ ObjTypes'
    BY <1>0, <1>2, <2>1 DEF AcceptFails, kvars, mtvars, Obj, KernelTypes, ObjTypes, Objects
  <2>2. ASSUME NEW s \in Socks, NEW f \in Fds, Accept(s, f) PROVE KernelTypes' /\ ObjTypes'
    BY <1>0, <1>2, <2>2 DEF Accept, mtvars, Obj, KernelTypes, ObjTypes, Objects
  <2>3. CASE UNCHANGED <<holder, ovars>>
    <3>1. UNCHANGED <<listening, emit>>
      BY EpollKeeps
    <3>2. KernelTypes'
      BY <1>0, <1>2, <2>3, <3>1 DEF KernelTypes
    <3>3. ObjTypes'
      BY <1>0, <2>3, <3>1 DEF ObjTypes, ovars
    <3>. QED
      BY <3>2, <3>3
  <2>. QED
    BY <2>1, <2>2, <2>3, EpollObj
<1>4. PoolTypes'
  <2>1. UNCHANGED <<running, hpc>>
    BY EpollKeeps
  <2>2. ASSUME NEW w \in Workers, Submit(w) PROVE PoolTypes'
    <3>1. /\ waiting' = [waiting EXCEPT ![w] = @ \cup {<<eev, NORM>>}]
          /\ ev_emit' = [ev_emit EXCEPT ![eev] = cur.data] /\ eev \in Events /\ cur.data \in Socks
      BY <1>0, <2>2 DEF Submit, Pool!Submit, EpollTypes, EpollAt, Data
    <3>. QED
      BY <1>0, <2>1, <3>1 DEF PoolTypes
  <2>3. CASE ~\E w \in Workers : Submit(w)
    <3>1. ASSUME NEW x \in batch, Entry(x) \/ EntryFreed(x) PROVE UNCHANGED <<waiting, ev_emit>>
      BY <3>1 DEF Entry, EntryFreed, Fault, pvars
    <3>2. UNCHANGED <<waiting, ev_emit>>
      BY <2>3, <3>1 DEF EpollStep, EpollWait, EpollFails, EntryDone, FlagFreed, EmitMissing,
         SockRefused, Count, CountFreed, AcceptNoMem, ServOut, ServHup, ServReturns, SockDispatch,
         AcceptFails, Accept, Fault, pvars
    <3>. QED
      BY <1>0, <2>1, <3>2 DEF PoolTypes
  <2>. QED
    BY <2>2, <2>3
<1>. QED
  BY <1>1, <1>2, <1>3, <1>4 DEF Types

\* A worker takes an event of its own, and is done with it.
LEMMA StartIs ==
    ASSUME PoolTypes, NEW w \in Workers, NEW e \in Events, Start(w, e)
    PROVE  /\ <<e, NORM>> \in waiting[w] /\ hpc[w] = "idle" /\ running[w] = NoEvent
           /\ waiting' = [waiting EXCEPT ![w] = @ \ {<<e, NORM>>}]
           /\ running' = [running EXCEPT ![w] = e]
           /\ hpc' = [hpc EXCEPT ![w] = "handler"] /\ ev_emit' = ev_emit
<1>1. \A x \in waiting[w] : x = <<x[1], NORM>>
  BY DEF PoolTypes
<1>2. {x \in waiting[w] : x[1] # e} = waiting[w] \ {<<e, NORM>>}
  BY <1>1
<1>. QED
  BY <1>1, <1>2 DEF Start, Pool!Start, Pool!Waits, WorkerAt, At, PoolTypes

\* A worker hands an event back to the cache.
LEMMA DoneIs ==
    ASSUME PoolTypes, NEW w \in Workers, Done(w)
    PROVE  /\ hpc[w] = "done" /\ running[w] \in Events
           /\ hpc' = [hpc EXCEPT ![w] = "idle"] /\ waiting' = waiting
           /\ running' = [running EXCEPT ![w] = NoEvent]
           /\ ev_emit' = [ev_emit EXCEPT ![running[w]] = NoObj]
  BY DEF Done, Pool!Finish, WorkerAt, At, PoolTypes

\* All types after a step of a worker.
LEMMA WorkerTypesStep ==
    ASSUME Types, NEW w \in Workers, WorkerStep(w)
    PROVE  Types'
<1>. USE NetAssumption
<1>0. MonTypes /\ KernelTypes /\ ObjTypes /\ CallTypes /\ PoolTypes /\ EpollTypes
  BY DEF Types
<1>1. MonTypes' /\ KernelTypes'
  BY <1>0, WorkerKeeps DEF MonTypes, KernelTypes, mvars, kvars
<1>2. ObjTypes' /\ CallTypes'
  BY <1>0, WorkerKeeps DEF ObjTypes, CallTypes, ovars, cvars
<1>3. EpollTypes'
  BY <1>0, WorkerKeeps DEF EpollTypes, evars
<1>4. PoolTypes'
  <2>1. ASSUME NEW e \in Events, Start(w, e) PROVE PoolTypes'
    <3>1. /\ waiting' = [waiting EXCEPT ![w] = @ \ {<<e, NORM>>}]
          /\ running' = [running EXCEPT ![w] = e]
          /\ hpc' = [hpc EXCEPT ![w] = "handler"] /\ ev_emit' = ev_emit
      BY <1>0, <2>1, StartIs
    <3>. QED
      BY <1>0, <3>1 DEF PoolTypes
  <2>2. CASE Done(w)
    <3>1. /\ hpc' = [hpc EXCEPT ![w] = "idle"] /\ waiting' = waiting
          /\ running' = [running EXCEPT ![w] = NoEvent]
          /\ ev_emit' = [ev_emit EXCEPT ![running[w]] = NoObj]
      BY <1>0, <2>2, DoneIs
    <3>. QED
      BY <1>0, <3>1 DEF PoolTypes
  <2>3. CASE Callback(w) \/ Return(w)
    <3>1. /\ hpc[w] \in {"handler", "callback"} /\ UNCHANGED pvars
          /\ \E label \in {"callback", "done"} : hpc' = [hpc EXCEPT ![w] = label]
      BY <2>3 DEF Callback, Return, WorkerAt, At
    <3>. QED
      BY <1>0, <3>1 DEF PoolTypes, pvars
  <2>4. CASE CallbackFreed(w) \/ ReturnFreed(w) \/ \E e \in Events : StartFreed(w, e)
    <3>1. UNCHANGED <<pvars, hpc>>
      BY <2>4 DEF CallbackFreed, ReturnFreed, StartFreed, Fault
    <3>. QED
      BY <1>0, <3>1 DEF PoolTypes, pvars
  <2>. QED
    BY <2>1, <2>2, <2>3, <2>4 DEF WorkerStep
<1>. QED
  BY <1>1, <1>2, <1>3, <1>4 DEF Types

\* All types after a descriptor has become ready.
LEMMA ReadyTypes ==
    ASSUME Types, NEW f \in Fds, Ready(f)
    PROVE  Types'
<1>1. /\ edge' = edge \cup {f} /\ watch[f] # NoIoe
      /\ UNCHANGED <<mvars, holder, listening, ovars, emit, cvars, evars, pvars, hpc>>
  BY DEF Ready, mtvars
<1>2. MonTypes' /\ KernelTypes'
  BY <1>1 DEF Types, MonTypes, KernelTypes, mvars
<1>3. ObjTypes' /\ CallTypes'
  BY <1>1 DEF Types, ObjTypes, CallTypes, ovars, cvars
<1>4. EpollTypes' /\ PoolTypes'
  BY <1>1 DEF Types, EpollTypes, PoolTypes, evars, pvars
<1>. QED
  BY <1>2, <1>3, <1>4 DEF Types

-----------------------------------------------------------------------------
(* The objects of the calls.                                                *)

\* A step of thread t that concerns object o, which no other thread has.
Only(t, o) ==
    /\ \A u \in Threads \ {t} : cpc'[u] = cpc[u] /\ cobj'[u] = cobj[u] /\ cobj[u] # o
    /\ cobj'[t] \in {NoObj, o}
    /\ \A p \in Objects \ {o} : /\ obj'[p] = obj[p] /\ es_sock'[p] = es_sock[p]
                                /\ monitor'[p] = monitor[p]
                                /\ p \in refused' <=> p \in refused
                                /\ p \in Socks => emit'[p] = emit[p]

\* A step that touches one object needs to be looked at for that object only.
LEMMA OnlyCalls ==
    ASSUME CallTypes, CallInv, NEW t \in Threads, NEW o \in Objects, Only(t, o), CallTypes',
           CallAt(t)', ObjAt(o)'
    PROVE  CallInv'
<1>. USE NetAssumption
<1>1. \A u, v \in Threads : cobj'[u] = cobj'[v] /\ cobj'[u] # NoObj => u = v
  BY DEF CallInv, Only
<1>2. ASSUME NEW u \in Threads, u # t PROVE CallAt(u)'
  <2>1. /\ cpc'[u] = cpc[u] /\ cobj'[u] = cobj[u] /\ cobj[u] # o /\ CallAt(u)
        /\ cobj[u] \in Objects \/ (cpc[u] = "idle" /\ cobj[u] = NoObj)
    BY <1>2 DEF Only, CallInv, CallTypes
  <2>2. CASE cobj[u] \in Objects
    <3>1. /\ obj'[cobj[u]] = obj[cobj[u]] /\ es_sock'[cobj[u]] = es_sock[cobj[u]]
          /\ monitor'[cobj[u]] = monitor[cobj[u]]
          /\ cobj[u] \in refused' <=> cobj[u] \in refused
          /\ cobj[u] \in Socks => emit'[cobj[u]] = emit[cobj[u]]
      BY <2>1, <2>2 DEF Only
    <3>. QED
      BY <2>1, <3>1 DEF CallAt
  <2>3. CASE cpc[u] = "idle" /\ cobj[u] = NoObj
    BY <2>1, <2>3 DEF CallAt, In_, Out, Past, Objects
  <2>. QED
    BY <2>1, <2>2, <2>3
<1>3. ASSUME NEW p \in Objects, p # o PROVE ObjAt(p)'
  BY <1>3 DEF Only, CallInv, ObjAt
<1>. QED
  BY <1>1, <1>2, <1>3 DEF CallInv

\* A step into place label of a call.
LEMMA GoIs ==
    ASSUME CallTypes, NEW t \in Threads, NEW label, NEW o \in Objects, Go(t, label, o)
    PROVE  /\ cpc'[t] = label /\ cobj'[t] = IF label = "idle" THEN NoObj ELSE o
           /\ \A u \in Threads \ {t} : cpc'[u] = cpc[u] /\ cobj'[u] = cobj[u]
  BY DEF Go, CallTypes

\* Whose object is whose.
LEMMA Others ==
    ASSUME CallInv, CallTypes, NEW t \in Threads, cobj[t] \in Objects
    PROVE  \A u \in Threads \ {t} : cobj[u] # cobj[t]
  BY NetAssumption DEF CallInv

\* An object that is not there, not yet or no more, is in no call.
LEMMA Nobodys ==
    ASSUME CallInv, CallTypes, NEW o \in Objects, obj[o] \in {"none", "lost", "freed"}
    PROVE  \A u \in Threads : cobj[u] # o
<1>. SUFFICES ASSUME NEW u \in Threads, cobj[u] = o PROVE FALSE
  OBVIOUS
<1>1. CallAt(u) /\ cpc[u] \in {"socket"} \cup In_ \cup Out
  BY NetAssumption DEF CallInv, CallTypes
<1>. QED
  BY <1>1 DEF CallAt

\* The calls that take up an object of their own accord.
LEMMA CallInvTakes ==
    ASSUME Types, CallInv, NEW t \in Threads,
           \/ \E o \in Objects : Create(t, o)
           \/ \E s \in Socks : CreateNoEmit(t, s) \/ Set(t, s) \/ SockDestroy(t, s)
           \/ \E v \in Servs : Listen(t, v) \/ ServDestroy(t, v),
           CallTypes'
    PROVE  CallInv'
<1>. USE NetAssumption DEF Obj, ovars, mtvars, cvars, avars
<1>0. CallTypes /\ ObjTypes
  BY DEF Types
<1>1. ASSUME NEW o \in Objects, obj[o] = "none" PROVE (\A u \in Threads : cobj[u] # o) /\ ObjAt(o)
  BY <1>0, <1>1, Nobodys DEF CallInv
<1>2. ASSUME NEW o \in Objects, Create(t, o) PROVE CallInv'
  <2>1. /\ cpc'[t] = "socket" /\ cobj'[t] = o
        /\ \A u \in Threads \ {t} : cpc'[u] = cpc[u] /\ cobj'[u] = cobj[u]
    BY <1>0, <1>2, GoIs DEF Create
  <2>2. /\ obj[o] = "none" /\ obj' = [obj EXCEPT ![o] = "new"] /\ UNCHANGED <<es_sock, monitor, refused>>
        /\ emit' = [s \in Socks |-> IF s = o THEN "live" ELSE emit[s]]
    BY <1>2 DEF Create
  <2>3. Only(t, o)
    BY <1>0, <1>1, <2>1, <2>2 DEF Only, ObjTypes
  <2>4. CallAt(t)' /\ ObjAt(o)'
    BY <1>0, <1>1, <2>1, <2>2 DEF CallAt, ObjAt, ObjTypes, In_, Out, Past
  <2>. QED
    BY <1>0, <2>3, <2>4, OnlyCalls
<1>3. ASSUME NEW o \in Socks, CreateNoEmit(t, o) PROVE CallInv'
  <2>1. cpc[t] = "idle" /\ cobj[t] = NoObj /\ UNCHANGED cvars /\ o \in Objects
    BY <1>0, <1>3 DEF CreateNoEmit, AtCall, In, CallTypes, Objects
  <2>2. /\ obj[o] = "none" /\ obj' = [obj EXCEPT ![o] = "lost"]
        /\ UNCHANGED <<es_sock, monitor, refused, emit>>
    BY <1>3 DEF CreateNoEmit
  <2>3. Only(t, o)
    BY <1>0, <1>1, <2>1, <2>2 DEF Only, ObjTypes
  <2>4. CallAt(t)' /\ ObjAt(o)'
    BY <1>0, <1>1, <2>1, <2>2 DEF CallAt, ObjAt, ObjTypes, In_, Out, Past
  <2>. QED
    BY <1>0, <2>1, <2>3, <2>4, OnlyCalls
<1>4. ASSUME NEW o \in Socks, Set(t, o) PROVE CallInv'
  <2>1. /\ cpc'[t] = "set" /\ cobj'[t] = o /\ o \in Objects
        /\ \A u \in Threads \ {t} : cpc'[u] = cpc[u] /\ cobj'[u] = cobj[u]
    BY <1>0, <1>4, GoIs DEF Set, Objects
  <2>2. /\ obj[o] = "live" /\ ~monitor[o] /\ (\A u \in Threads : cobj[u] # o) /\ ObjAt(o)
        /\ UNCHANGED <<obj, es_sock, monitor, refused, emit>>
    BY <1>4, <2>1 DEF Set, MayUse, CallInv
  <2>3. Only(t, o)
    BY <2>1, <2>2 DEF Only
  <2>4. CallAt(t)' /\ ObjAt(o)'
    BY <1>0, <1>4, <2>1, <2>2 DEF CallAt, ObjAt, ObjTypes, In_, Out, Past
  <2>. QED
    BY <1>0, <2>1, <2>3, <2>4, OnlyCalls
<1>5. ASSUME NEW o \in Objects, SockDestroy(t, o) \/ ServDestroy(t, o) PROVE CallInv'
  <2>1. /\ cpc'[t] = "close" /\ cobj'[t] = o
        /\ \A u \in Threads \ {t} : cpc'[u] = cpc[u] /\ cobj'[u] = cobj[u]
    BY <1>0, <1>5, GoIs DEF SockDestroy, ServDestroy
  <2>2. /\ obj[o] = "live" /\ (\A u \in Threads : cobj[u] # o) /\ ObjAt(o)
        /\ obj' = [obj EXCEPT ![o] = "closing"]
        /\ UNCHANGED <<es_sock, refused, emit>>
        /\ \A p \in Objects \ {o} : monitor'[p] = monitor[p]
    BY <1>0, <1>5 DEF SockDestroy, ServDestroy, MayUse, CallInv, ObjTypes
  <2>3. Only(t, o)
    BY <1>0, <2>1, <2>2 DEF Only, ObjTypes
  <2>4. CallAt(t)' /\ ObjAt(o)'
    BY <1>0, <2>1, <2>2 DEF CallAt, ObjAt, ObjTypes, In_, Out, Past
  <2>. QED
    BY <1>0, <2>1, <2>3, <2>4, OnlyCalls
<1>6. ASSUME NEW v \in Servs, Listen(t, v) PROVE CallInv'
  BY <1>6 DEF Listen, CallInv, CallAt, ObjAt
<1>. QED
  BY <1>2, <1>3, <1>4, <1>5, <1>6 DEF Objects

\* The steps of a call on its object o.
LEMMA CallInvStep ==
    ASSUME Types, CallInv, NEW t \in Threads, NEW o \in Objects, o = cobj[t],
           \/ \E f \in Fds : SocketOpens(t, f)
           \/ \E i \in Ioes : AddFd(t, i) \/ AddWatch(t, i) \/ AddRefused(t, i)
           \/ SocketFails(t) \/ AddNoMem(t) \/ Mark(t) \/ Refuse(t)
           \/ Close(t) \/ DestroyRefused(t) \/ DestroyTested(t)
           \/ DestroyKills(t) \/ DestroyFrees(t) \/ Free(t),
           CallTypes'
    PROVE  CallInv'
<1>. USE NetAssumption DEF Obj, ovars, mtvars, avars, In
<1>0. /\ CallTypes /\ ObjTypes /\ CallAt(t) /\ ObjAt(o)
      /\ \A u \in Threads \ {t} : cobj[u] # o
  BY Others DEF Types, CallInv
<1>1. ASSUME Only(t, o), CallAt(t)', ObjAt(o)' PROVE CallInv'
  BY <1>0, <1>1, OnlyCalls
<1>2. ASSUME NEW label, Go(t, label, o)
      PROVE  /\ cpc'[t] = label /\ cobj'[t] = IF label = "idle" THEN NoObj ELSE o
             /\ \A u \in Threads \ {t} : cpc'[u] = cpc[u] /\ cobj'[u] = cobj[u] /\ cobj[u] # o
  BY <1>0, <1>2, GoIs
<1>3. ASSUME NEW f \in Fds, SocketOpens(t, f) PROVE CallInv'
  <2>1. /\ cpc[t] = "socket" /\ Go(t, "set", o)
        /\ es_sock' = [es_sock EXCEPT ![o] = f] /\ UNCHANGED <<obj, monitor, emit, refused>>
    BY <1>3 DEF SocketOpens
  <2>2. Only(t, o)
    BY <1>0, <1>2, <2>1 DEF Only, ObjTypes
  <2>3. CallAt(t)' /\ ObjAt(o)'
    BY <1>0, <1>2, <2>1 DEF CallAt, ObjAt, ObjTypes, In_, Out, Past
  <2>. QED
    BY <1>1, <2>2, <2>3
<1>4. ASSUME NEW i \in Ioes, AddFd(t, i) PROVE CallInv'
  <2>1. cpc[t] = "set" /\ Go(t, "add", o) /\ UNCHANGED <<obj, es_sock, monitor, emit, refused>>
    BY <1>4 DEF AddFd
  <2>2. Only(t, o)
    BY <1>0, <1>2, <2>1 DEF Only
  <2>3. CallAt(t)' /\ ObjAt(o)'
    BY <1>0, <1>2, <2>1 DEF CallAt, ObjAt, In_, Out, Past
  <2>. QED
    BY <1>1, <2>2, <2>3
<1>5. ASSUME NEW i \in Ioes, AddWatch(t, i) PROVE CallInv'
  <2>1. cpc[t] = "add" /\ Go(t, "mark", o) /\ UNCHANGED <<obj, es_sock, monitor, emit, refused>>
    BY <1>5 DEF AddWatch
  <2>2. Only(t, o)
    BY <1>0, <1>2, <2>1 DEF Only
  <2>3. CallAt(t)' /\ ObjAt(o)'
    BY <1>0, <1>2, <2>1 DEF CallAt, ObjAt, In_, Out, Past
  <2>. QED
    BY <1>1, <2>2, <2>3
<1>6. ASSUME AddNoMem(t) \/ \E i \in Ioes : AddRefused(t, i) PROVE CallInv'
  <2>1. /\ cpc[t] \in {"set", "add"} /\ Go(t, "refuse", o) /\ refused' = refused \cup {o}
        /\ UNCHANGED <<obj, es_sock, monitor, emit>>
    BY <1>6 DEF AddNoMem, AddRefused
  <2>2. Only(t, o)
    BY <1>0, <1>2, <2>1 DEF Only
  <2>3. CallAt(t)' /\ ObjAt(o)'
    BY <1>0, <1>2, <2>1 DEF CallAt, ObjAt, In_, Out, Past
  <2>. QED
    BY <1>1, <2>2, <2>3
<1>7. CASE SocketFails(t)
  <2>1. /\ cpc[t] = "socket" /\ Go(t, "idle", o) /\ obj' = [obj EXCEPT ![o] = "freed"]
        /\ UNCHANGED <<es_sock, monitor, refused>>
        /\ emit' = [s \in Socks |-> IF s = o THEN "freed" ELSE emit[s]]
    BY <1>7 DEF SocketFails
  <2>2. Only(t, o)
    BY <1>0, <1>2, <2>1 DEF Only, ObjTypes
  <2>3. CallAt(t)' /\ ObjAt(o)'
    BY <1>0, <1>2, <2>1 DEF CallAt, ObjAt, ObjTypes, In_, Out, Past, Objects
  <2>. QED
    BY <1>1, <2>2, <2>3
<1>8. CASE Mark(t)
  <2>1. /\ cpc[t] = "mark" /\ Go(t, "idle", o) /\ obj' = [obj EXCEPT ![o] = "live"]
        /\ monitor' = [monitor EXCEPT ![o] = TRUE] /\ UNCHANGED <<es_sock, emit, refused>>
    BY <1>8 DEF Mark
  <2>2. Only(t, o)
    BY <1>0, <1>2, <2>1 DEF Only, ObjTypes
  <2>3. CallAt(t)' /\ ObjAt(o)'
    BY <1>0, <1>2, <2>1 DEF CallAt, ObjAt, ObjTypes, In_, Out, Past, Objects
  <2>. QED
    BY <1>1, <2>2, <2>3
<1>9. CASE Refuse(t)
  <2>1. /\ cpc[t] = "refuse" /\ Go(t, "idle", o) /\ UNCHANGED <<monitor, emit, refused>>
        /\ obj' = [obj EXCEPT ![o] = IF o \in Servs THEN "freed" ELSE "live"]
        /\ es_sock' = [es_sock EXCEPT ![o] = IF o \in Servs THEN NoFd ELSE @]
    BY <1>9 DEF Refuse
  <2>2. Only(t, o)
    BY <1>0, <1>2, <2>1 DEF Only, ObjTypes
  <2>3. CallAt(t)' /\ ObjAt(o)'
    BY <1>0, <1>2, <2>1 DEF CallAt, ObjAt, ObjTypes, In_, Out, Past, Objects
  <2>. QED
    BY <1>1, <2>2, <2>3
<1>10. CASE Close(t) \/ DestroyRefused(t) \/ DestroyTested(t)
  <2>1. /\ cpc[t] \in {"close", "emit"} /\ UNCHANGED <<obj, es_sock, monitor, emit, refused>>
        /\ cpc[t] = "close" => Go(t, IF o \in Servs THEN "free" ELSE "emit", o)
        /\ cpc[t] = "emit" => Go(t, "free", o) \/ (Go(t, "kill", o) /\ emit[o] = "live")
    BY <1>10 DEF Close, DestroyRefused, DestroyTested
  <2>2. Only(t, o)
    BY <1>0, <1>2, <2>1 DEF Only
  <2>3. CallAt(t)' /\ ObjAt(o)'
    BY <1>0, <1>2, <2>1 DEF CallAt, ObjAt, In_, Out, Past, Objects
  <2>. QED
    BY <1>1, <2>2, <2>3
<1>11. CASE DestroyKills(t) \/ DestroyFrees(t)
  <2>1. /\ cpc[t] \in {"kill", "unemit"} /\ UNCHANGED <<obj, es_sock, monitor, refused>>
        /\ cpc[t] = "kill" => Go(t, "unemit", o) /\ emit' = [emit EXCEPT ![o] = "dead"]
        /\ cpc[t] = "unemit" => Go(t, "free", o) /\ emit' = [emit EXCEPT ![o] = "freed"]
    BY <1>11 DEF DestroyKills, DestroyFrees
  <2>2. Only(t, o)
    BY <1>0, <1>2, <2>1 DEF Only, ObjTypes
  <2>3. CallAt(t)' /\ ObjAt(o)'
    BY <1>0, <1>2, <2>1 DEF CallAt, ObjAt, ObjTypes, In_, Out, Past, Objects
  <2>. QED
    BY <1>1, <2>2, <2>3
<1>12. CASE Free(t)
  <2>1. /\ cpc[t] = "free" /\ Go(t, "idle", o) /\ obj' = [obj EXCEPT ![o] = "freed"]
        /\ es_sock' = [es_sock EXCEPT ![o] = NoFd] /\ UNCHANGED <<monitor, emit, refused>>
    BY <1>12 DEF Free
  <2>2. Only(t, o)
    BY <1>0, <1>2, <2>1 DEF Only, ObjTypes
  <2>3. CallAt(t)' /\ ObjAt(o)'
    BY <1>0, <1>2, <2>1 DEF CallAt, ObjAt, ObjTypes, In_, Out, Past, Objects
  <2>. QED
    BY <1>1, <2>2, <2>3
<1>. QED
  BY <1>3, <1>4, <1>5, <1>6, <1>7, <1>8, <1>9, <1>10, <1>11, <1>12

\* CallInv is inductive.
LEMMA CallInvCalls ==
    ASSUME Types, CallInv, NEW t \in Threads, CallStep(t)
    PROVE  CallInv'
<1>0. CallTypes /\ CallTypes'
  BY CallCallTypes DEF Types
<1>1. CASE Foreign(t) \/ DestroyNull(t)
  BY <1>1 DEF Foreign, DestroyNull, Fault, cvars, ovars, mtvars, CallInv, CallAt, ObjAt
<1>2. CASE cobj[t] \in Objects
  BY <1>0, <1>1, <1>2, CallInvTakes, CallInvStep DEF CallStep
<1>3. CASE cobj[t] \notin Objects
  <2>1. cpc[t] = "idle"
    BY <1>0, <1>3, HasObject
  <2>. QED
    BY <1>0, <1>1, <2>1, CallInvTakes
       DEF CallStep, SocketOpens, AddFd, AddWatch, AddRefused, SocketFails, AddNoMem, Mark, Refuse,
           Close, DestroyRefused, DestroyTested, DestroyKills, DestroyFrees, Free, In
<1>. QED
  BY <1>2, <1>3

\* The other threads leave an object alone that is in a call.
LEMMA CallInvOthers ==
    ASSUME Types, CallInv, EpollStep \/ (\E f \in Fds : Ready(f)) \/ \E w \in Workers : WorkerStep(w)
    PROVE  CallInv'
<1>. USE NetAssumption
<1>0. CallTypes /\ ObjTypes
  BY DEF Types
<1>1. CASE UNCHANGED <<cvars, ovars, emit, refused>>
  BY <1>1 DEF cvars, ovars, CallInv, CallAt, ObjAt
<1>2. ASSUME NEW f \in Fds, Ready(f) PROVE CallInv'
  BY <1>1, <1>2 DEF Ready, mtvars
<1>3. ASSUME NEW w \in Workers, WorkerStep(w) PROVE CallInv'
  BY <1>1, <1>3, WorkerKeeps
<1>4. ASSUME NEW s \in Socks, EpollStep, UNCHANGED monitor,
             \/ AcceptFails(s)
             \/ \E f \in Fds : Accept(s, f)
      PROVE  CallInv'
  <2>1. /\ s \in Objects /\ s \notin Servs /\ obj[s] = "none" /\ ObjAt(s) /\ UNCHANGED <<cvars, emit, refused>>
        /\ \/ obj' = [obj EXCEPT ![s] = "lost"] /\ es_sock' = es_sock
           \/ /\ obj' = [obj EXCEPT ![s] = "live"]
              /\ \E f \in Fds : es_sock' = [es_sock EXCEPT ![s] = f]
    BY <1>4, EpollKeeps DEF AcceptFails, Accept, Obj, CallInv, Objects
  <2>2. \A u \in Threads : cobj[u] # s
    BY <1>0, <2>1, Nobodys
  <2>3. ASSUME NEW u \in Threads PROVE CallAt(u)'
    <3>1. CallAt(u) /\ (cobj[u] \in Objects \/ (cpc[u] = "idle" /\ cobj[u] = NoObj))
      BY <1>0 DEF CallInv, CallTypes
    <3>. QED
      BY <1>0, <1>4, <2>1, <2>2, <3>1 DEF CallAt, cvars, ObjTypes, In_, Out, Past, Objects
  <2>4. ASSUME NEW o \in Objects PROVE ObjAt(o)'
    BY <1>0, <1>4, <2>1 DEF CallInv, ObjAt, ObjTypes
  <2>. QED
    BY <2>1, <2>3, <2>4 DEF CallInv, cvars
<1>5. CASE EpollStep
  BY <1>1, <1>4, <1>5, EpollObj, EpollKeeps DEF ovars
<1>. QED
  BY <1>2, <1>3, <1>5

-----------------------------------------------------------------------------
(* Whose descriptor is whose.                                               *)

\* Neither a holder nor a place before or after close() changes.
LEMMA HoldKept ==
    ASSUME HoldInv, Types, Types', UNCHANGED <<holder, es_sock>>, refused \subseteq refused',
           \A u \in Threads : cpc'[u] \in Past => cpc[u] \in Past /\ cobj'[u] = cobj[u],
           \A p \in Objects : obj[p] = "closing" =>
               /\ obj'[p] = "closing"
               /\ \A u \in Threads : cobj'[u] = p => cobj[u] = p /\ (cpc[u] \in Past => cpc'[u] \in Past)
    PROVE  HoldInv'
<1>1. ASSUME NEW f \in Fds, holder'[f] # NoObj
      PROVE  /\ es_sock'[holder'[f]] = f
             /\ \A t \in Threads : cobj'[t] = holder'[f] => cpc'[t] \notin Past
  BY <1>1 DEF HoldInv
<1>2. ASSUME NEW o \in Objects, es_sock'[o] # NoFd
      PROVE  \/ holder'[es_sock'[o]] = o
             \/ o \in refused'
             \/ obj'[o] = "closing" /\ \A t \in Threads : cobj'[t] = o => cpc'[t] \in Past
  <2>1. CASE holder[es_sock[o]] = o \/ o \in refused
    BY <2>1
  <2>2. CASE obj[o] = "closing" /\ \A t \in Threads : cobj[t] = o => cpc[t] \in Past
    BY <2>2
  <2>. QED
    BY <1>2, <2>1, <2>2 DEF HoldInv
<1>. QED
  BY <1>1, <1>2 DEF HoldInv

\* The calls of HoldKept.
LEMMA HoldTakes ==
    ASSUME Types, Types', CallInv, HoldInv, NEW t \in Threads,
           \/ \E o \in Objects : Create(t, o)
           \/ \E s \in Socks : CreateNoEmit(t, s) \/ Set(t, s) \/ SockDestroy(t, s)
           \/ \E v \in Servs : Listen(t, v) \/ ServDestroy(t, v)
    PROVE  HoldInv'
<1>. USE NetAssumption DEF Obj, ovars, avars, kvars, cvars
<1>0. CallTypes /\ ObjTypes /\ cpc[t] = "idle" /\ cobj[t] = NoObj
  BY DEF Types, Create, CreateNoEmit, Set, SockDestroy, Listen, ServDestroy, AtCall, In, CallTypes
<1>1. ASSUME NEW o \in Objects, NEW label \in {"idle", "socket", "set", "close"},
             Go(t, label, o), UNCHANGED <<holder, es_sock, refused>>, obj[o] # "closing",
             \A p \in Objects \ {o} : obj'[p] = obj[p]
      PROVE  HoldInv'
  <2>1. /\ cpc'[t] = label
        /\ \A u \in Threads \ {t} : cpc'[u] = cpc[u] /\ cobj'[u] = cobj[u]
        /\ cobj'[t] \in {o, NoObj}
    BY <1>0, <1>1, GoIs
  <2>2. \A u \in Threads : cpc'[u] \in Past => cpc[u] \in Past /\ cobj'[u] = cobj[u]
    BY <2>1 DEF Past
  <2>3. ASSUME NEW p \in Objects, obj[p] = "closing"
        PROVE  /\ obj'[p] = "closing"
               /\ \A u \in Threads : cobj'[u] = p => cobj[u] = p /\ (cpc[u] \in Past => cpc'[u] \in Past)
    BY <1>1, <2>1, <2>3
  <2>. QED
    BY <1>1, <2>2, <2>3, HoldKept
<1>2. ASSUME NEW o \in Objects, Create(t, o) PROVE HoldInv'
  BY <1>0, <1>1, <1>2 DEF Create, ObjTypes
<1>3. ASSUME NEW o \in Socks, CreateNoEmit(t, o) PROVE HoldInv'
  <2>1. /\ UNCHANGED <<holder, es_sock, refused, cpc, cobj>> /\ obj[o] = "none"
        /\ \A p \in Objects \ {o} : obj'[p] = obj[p]
    BY <1>0, <1>3 DEF CreateNoEmit, ObjTypes
  <2>. QED
    BY <2>1, HoldKept
<1>4. ASSUME NEW o \in Socks, Set(t, o) PROVE HoldInv'
  BY <1>0, <1>1, <1>4 DEF Set, MayUse, ObjTypes, Objects
<1>5. ASSUME NEW o \in Objects, SockDestroy(t, o) \/ ServDestroy(t, o) PROVE HoldInv'
  BY <1>0, <1>1, <1>5 DEF SockDestroy, ServDestroy, MayUse, ObjTypes
<1>6. ASSUME NEW v \in Servs, Listen(t, v) PROVE HoldInv'
  <2>1. UNCHANGED <<holder, es_sock, refused, cpc, cobj, obj>>
    BY <1>6 DEF Listen
  <2>. QED
    BY <2>1, HoldKept
<1>. QED
  BY <1>2, <1>3, <1>4, <1>5, <1>6 DEF Objects

\* socket(), close() and the steps that keep the descriptor.
LEMMA HoldStep ==
    ASSUME Types, Types', CallInv, HoldInv, NEW t \in Threads, NEW o \in Objects, o = cobj[t],
           \/ \E f \in Fds : SocketOpens(t, f)
           \/ \E i \in Ioes : AddFd(t, i) \/ AddWatch(t, i) \/ AddRefused(t, i)
           \/ SocketFails(t) \/ AddNoMem(t) \/ Mark(t) \/ Refuse(t)
           \/ Close(t) \/ DestroyRefused(t) \/ DestroyTested(t)
           \/ DestroyKills(t) \/ DestroyFrees(t) \/ Free(t)
    PROVE  HoldInv'
<1>. USE NetAssumption DEF Obj, ovars, mtvars, avars, kvars, In
<1>0. /\ CallTypes /\ ObjTypes /\ KernelTypes /\ MonTypes /\ CallAt(t) /\ ObjAt(o)
      /\ \A u \in Threads \ {t} : cobj[u] # o
  BY Others DEF Types, CallInv
<1>1. ASSUME NEW label, Go(t, label, o)
      PROVE  /\ cpc'[t] = label /\ cobj'[t] = IF label = "idle" THEN NoObj ELSE o
             /\ \A u \in Threads \ {t} : cpc'[u] = cpc[u] /\ cobj'[u] = cobj[u] /\ cobj'[u] # o
  BY <1>0, <1>1, GoIs
<1>2. ASSUME UNCHANGED <<holder, es_sock>>, refused \subseteq refused',
             \A p \in Objects : obj[p] = "closing" => obj'[p] = "closing",
             NEW label, Go(t, label, o), label \in Past <=> cpc[t] \in Past
      PROVE  HoldInv'
  <2>1. \A u \in Threads : cpc'[u] \in Past => cpc[u] \in Past /\ cobj'[u] = cobj[u]
    BY <1>1, <1>2 DEF Past
  <2>2. \A p \in Objects, u \in Threads : cobj'[u] = p => cobj[u] = p /\ (cpc[u] \in Past => cpc'[u] \in Past)
    BY <1>1, <1>2
  <2>. QED
    BY <1>2, <2>1, <2>2, HoldKept
<1>3. CASE \/ \E i \in Ioes : AddFd(t, i) \/ AddWatch(t, i) \/ AddRefused(t, i)
           \/ AddNoMem(t)
  <2>1. /\ UNCHANGED <<holder, es_sock, obj>> /\ refused \subseteq refused'
        /\ cpc[t] \in {"set", "add"} /\ \E label \in {"add", "mark", "refuse"} : Go(t, label, o)
    BY <1>3 DEF AddFd, AddWatch, AddRefused, AddNoMem
  <2>. QED
    BY <1>2, <2>1 DEF Past
<1>4. CASE SocketFails(t) \/ Mark(t)
  <2>1. /\ UNCHANGED <<holder, es_sock, refused>> /\ cpc[t] \in {"socket", "mark"} /\ Go(t, "idle", o)
        /\ \A p \in Objects \ {o} : obj'[p] = obj[p]
    BY <1>0, <1>4 DEF SocketFails, Mark, ObjTypes
  <2>2. obj[o] # "closing"
    BY <1>0, <2>1 DEF CallAt, In_
  <2>. QED
    BY <1>2, <2>1, <2>2 DEF Past
<1>5. CASE DestroyRefused(t) \/ DestroyTested(t) \/ DestroyKills(t) \/ DestroyFrees(t)
  <2>1. /\ UNCHANGED <<holder, es_sock, refused, obj>> /\ cpc[t] \in Past
        /\ \E label \in Past : Go(t, label, o)
    BY <1>5 DEF DestroyRefused, DestroyTested, DestroyKills, DestroyFrees, Past
  <2>. QED
    BY <1>2, <2>1
<1>6. ASSUME NEW f \in Fds, SocketOpens(t, f) PROVE HoldInv'
  <2>1. /\ holder[f] = NoObj /\ holder' = [holder EXCEPT ![f] = o] /\ cpc'[t] = "set"
        /\ es_sock[o] = NoFd /\ es_sock' = [es_sock EXCEPT ![o] = f]
        /\ UNCHANGED <<obj, refused>> /\ obj[o] = "new"
    BY <1>0, <1>1, <1>6 DEF SocketOpens, CallAt
  <2>2. cobj'[t] = o /\ \A u \in Threads \ {t} : cpc'[u] = cpc[u] /\ cobj'[u] = cobj[u] /\ cobj'[u] # o
    BY <1>1, <1>6 DEF SocketOpens
  <2>3. ASSUME NEW g \in Fds, holder'[g] # NoObj
        PROVE  /\ es_sock'[holder'[g]] = g
               /\ \A u \in Threads : cobj'[u] = holder'[g] => cpc'[u] \notin Past
    <3>1. CASE g = f
      BY <1>0, <2>1, <2>2, <3>1 DEF KernelTypes, ObjTypes, Past
    <3>2. CASE g # f
      <4>1. holder'[g] = holder[g] /\ es_sock[holder[g]] = g /\ holder[g] # o /\ holder[g] \in Objects
        BY <1>0, <2>1, <2>3, <3>2 DEF KernelTypes, HoldInv
      <4>. QED
        BY <1>0, <2>1, <2>2, <2>3, <4>1 DEF HoldInv, ObjTypes
    <3>. QED
      BY <3>1, <3>2
  <2>4. ASSUME NEW p \in Objects, es_sock'[p] # NoFd
        PROVE  \/ holder'[es_sock'[p]] = p
               \/ p \in refused'
               \/ obj'[p] = "closing" /\ \A u \in Threads : cobj'[u] = p => cpc'[u] \in Past
    <3>1. CASE p = o
      BY <1>0, <2>1, <3>1 DEF KernelTypes, ObjTypes
    <3>2. CASE p # o
      <4>1. es_sock'[p] = es_sock[p] /\ es_sock[p] \in Fds
        BY <1>0, <2>1, <2>4, <3>2 DEF ObjTypes
      <4>2. \A u \in Threads : cobj'[u] = p => cobj[u] = p /\ cpc'[u] = cpc[u]
        BY <2>2, <3>2
      <4>3. holder[es_sock[p]] = p => holder'[es_sock[p]] = p
        BY <1>0, <2>1, <4>1 DEF KernelTypes
      <4>. QED
        BY <2>1, <4>1, <4>2, <4>3 DEF HoldInv
    <3>. QED
      BY <3>1, <3>2
  <2>. QED
    BY <2>3, <2>4 DEF HoldInv
<1>7. CASE Free(t)
  <2>1. /\ UNCHANGED <<holder, refused>> /\ cpc[t] = "free" /\ cpc'[t] = "idle" /\ cobj'[t] = NoObj
        /\ es_sock' = [es_sock EXCEPT ![o] = NoFd] /\ obj' = [obj EXCEPT ![o] = "freed"]
        /\ \A u \in Threads \ {t} : cpc'[u] = cpc[u] /\ cobj'[u] = cobj[u]
    BY <1>1, <1>7 DEF Free
  <2>2. \A g \in Fds : holder[g] # o
    BY <1>0, <2>1 DEF HoldInv, Past
  <2>3. ASSUME NEW g \in Fds, holder'[g] # NoObj
        PROVE  /\ es_sock'[holder'[g]] = g
               /\ \A u \in Threads : cobj'[u] = holder'[g] => cpc'[u] \notin Past
    BY <1>0, <2>1, <2>2, <2>3 DEF KernelTypes, HoldInv, ObjTypes, Past
  <2>4. ASSUME NEW p \in Objects, es_sock'[p] # NoFd
        PROVE  \/ holder'[es_sock'[p]] = p
               \/ p \in refused'
               \/ obj'[p] = "closing" /\ \A u \in Threads : cobj'[u] = p => cpc'[u] \in Past
    <3>1. p # o /\ es_sock'[p] = es_sock[p] /\ obj'[p] = obj[p]
      BY <1>0, <2>1, <2>4 DEF ObjTypes
    <3>2. \A u \in Threads : cobj'[u] = p => cobj[u] = p /\ cpc'[u] = cpc[u]
      BY <2>1, <3>1
    <3>. QED
      BY <2>1, <2>4, <3>1, <3>2 DEF HoldInv
  <2>. QED
    BY <2>3, <2>4 DEF HoldInv
<1>8. CASE Refuse(t) \/ Close(t)
  <2>1. /\ CloseSock(o) /\ es_sock[o] \in Fds /\ refused' = refused
        /\ \A p \in Objects \ {o} : obj'[p] = obj[p] /\ es_sock'[p] = es_sock[p]
        /\ cobj'[t] \in {NoObj, o}
        /\ \A u \in Threads \ {t} : cpc'[u] = cpc[u] /\ cobj'[u] = cobj[u] /\ cobj'[u] # o
        /\ \/ o \in refused
           \/ obj'[o] = "closing" /\ cpc'[t] \in Past
    BY <1>0, <1>1, <1>8 DEF Refuse, Close, CallAt, Past, Out, In_, ObjTypes
  <2>2. /\ holder'[es_sock[o]] = NoObj /\ \A g \in Fds \ {es_sock[o]} : holder'[g] = holder[g]
    BY <1>0, <2>1, Closes DEF KernelTypes
  <2>3. \A g \in Fds : holder'[g] # o
    BY <1>0, <2>2 DEF HoldInv
  <2>4. ASSUME NEW g \in Fds, holder'[g] # NoObj
        PROVE  /\ es_sock'[holder'[g]] = g
               /\ \A u \in Threads : cobj'[u] = holder'[g] => cpc'[u] \notin Past
    <3>1. holder'[g] = holder[g] /\ holder[g] \in Objects \ {o}
      BY <1>0, <2>2, <2>3, <2>4 DEF KernelTypes
    <3>. QED
      BY <2>1, <2>4, <3>1 DEF HoldInv
  <2>5. ASSUME NEW p \in Objects, es_sock'[p] # NoFd
        PROVE  \/ holder'[es_sock'[p]] = p
               \/ p \in refused'
               \/ obj'[p] = "closing" /\ \A u \in Threads : cobj'[u] = p => cpc'[u] \in Past
    <3>1. CASE p = o
      BY <2>1, <3>1
    <3>2. CASE p # o
      <4>1. es_sock'[p] = es_sock[p] /\ es_sock[p] \in Fds /\ obj'[p] = obj[p]
        BY <1>0, <2>1, <2>5, <3>2 DEF ObjTypes
      <4>2. \A u \in Threads : cobj'[u] = p => cobj[u] = p /\ cpc'[u] = cpc[u]
        BY <2>1, <3>2
      <4>3. holder[es_sock[p]] = p => holder'[es_sock[p]] = p
        BY <1>0, <2>1, <2>2, <3>2, <4>1, Closes DEF KernelTypes
      <4>. QED
        BY <2>1, <4>1, <4>2, <4>3 DEF HoldInv
    <3>. QED
      BY <3>1, <3>2
  <2>. QED
    BY <2>4, <2>5 DEF HoldInv
<1>. QED
  BY <1>3, <1>4, <1>5, <1>6, <1>7, <1>8

\* The two steps of a call that fail.
CallFault(t) == Foreign(t) \/ DestroyNull(t)

\* A call takes up an object, is at a step with its own, or has failed.
LEMMA CallCases ==
    ASSUME CallTypes, NEW t \in Threads, CallStep(t)
    PROVE  \/ CallFault(t)
           \/ \E o \in Objects : Create(t, o)
           \/ \E s \in Socks : CreateNoEmit(t, s) \/ Set(t, s) \/ SockDestroy(t, s)
           \/ \E v \in Servs : Listen(t, v) \/ ServDestroy(t, v)
           \/ /\ cobj[t] \in Objects
              /\ \/ \E f \in Fds : SocketOpens(t, f)
                 \/ \E i \in Ioes : AddFd(t, i) \/ AddWatch(t, i) \/ AddRefused(t, i)
                 \/ SocketFails(t) \/ AddNoMem(t) \/ Mark(t) \/ Refuse(t)
                 \/ Close(t) \/ DestroyRefused(t) \/ DestroyTested(t)
                 \/ DestroyKills(t) \/ DestroyFrees(t) \/ Free(t)
<1>1. CASE cpc[t] = "idle"
  BY <1>1 DEF CallStep, CallFault, SocketOpens, AddFd, AddWatch, AddRefused, SocketFails, AddNoMem,
              Mark, Refuse, Close, DestroyRefused, DestroyTested, DestroyKills, DestroyFrees, Free, In
<1>2. CASE cpc[t] # "idle"
  BY <1>2, HasObject DEF CallStep, CallFault
<1>. QED
  BY <1>1, <1>2

\* The faults of a call move nothing.
LEMMA CallFaultIs ==
    ASSUME NEW t, CallFault(t)
    PROVE  UNCHANGED core
  BY DEF CallFault, Foreign, DestroyNull, Fault, core

\* Descriptors and who has them open, after any call.
LEMMA HoldCalls ==
    ASSUME Types, Types', CallInv, HoldInv, NEW t \in Threads, CallStep(t)
    PROVE  HoldInv'
<1>1. CASE UNCHANGED core
  <2>1. UNCHANGED <<holder, es_sock, refused, cpc, cobj, obj>>
    BY <1>1 DEF core, kvars, ovars, cvars
  <2>. QED
    BY <2>1, HoldKept
<1>. QED
  BY <1>1, CallCases, CallFaultIs, HoldTakes, HoldStep DEF Types

\* Descriptors and who has them open, after the other steps.
LEMMA HoldOthers ==
    ASSUME Types, Types', CallInv, HoldInv,
           EpollStep \/ (\E f \in Fds : Ready(f)) \/ \E w \in Workers : WorkerStep(w)
    PROVE  HoldInv'
<1>. USE NetAssumption
<1>0. CallTypes /\ ObjTypes /\ KernelTypes
  BY DEF Types
<1>1. CASE UNCHANGED <<cvars, ovars, holder, refused>>
  <2>1. UNCHANGED <<holder, es_sock, refused, cpc, cobj, obj>>
    BY <1>1 DEF ovars, cvars
  <2>. QED
    BY <2>1, HoldKept
<1>2. ASSUME NEW f \in Fds, Ready(f) PROVE HoldInv'
  BY <1>1, <1>2 DEF Ready
<1>3. ASSUME NEW w \in Workers, WorkerStep(w) PROVE HoldInv'
  BY <1>1, <1>3, WorkerKeeps DEF kvars
<1>4. ASSUME NEW s \in Socks, EpollStep, AcceptFails(s) PROVE HoldInv'
  <2>1. /\ UNCHANGED <<holder, es_sock, refused, cpc, cobj>>
        /\ obj' = [obj EXCEPT ![s] = "lost"] /\ obj[s] = "none"
    BY <1>4, EpollKeeps DEF AcceptFails, Obj, kvars, cvars
  <2>2. \A p \in Objects : obj[p] = "closing" => obj'[p] = "closing"
    BY <1>0, <2>1 DEF ObjTypes
  <2>. QED
    BY <2>1, <2>2, HoldKept
<1>5. ASSUME NEW s \in Socks, NEW f \in Fds, EpollStep, Accept(s, f) PROVE HoldInv'
  <2>1. /\ holder[f] = NoObj /\ holder' = [holder EXCEPT ![f] = s] /\ s \in Objects
        /\ es_sock' = [es_sock EXCEPT ![s] = f] /\ obj[s] = "none"
        /\ UNCHANGED <<refused, cpc, cobj>> /\ obj' = [obj EXCEPT ![s] = "live"]
    BY <1>5, EpollKeeps DEF Accept, Obj, cvars, Objects
  <2>2. es_sock[s] = NoFd /\ \A u \in Threads : cobj[u] # s
    BY <1>0, <2>1, Nobodys DEF CallInv, ObjAt
  <2>3. ASSUME NEW g \in Fds, holder'[g] # NoObj
        PROVE  /\ es_sock'[holder'[g]] = g
               /\ \A u \in Threads : cobj'[u] = holder'[g] => cpc'[u] \notin Past
    <3>1. CASE g = f
      BY <1>0, <2>1, <2>2, <3>1 DEF KernelTypes, ObjTypes
    <3>2. CASE g # f
      <4>1. holder'[g] = holder[g] /\ es_sock[holder[g]] = g /\ holder[g] # s /\ holder[g] \in Objects
        BY <1>0, <2>1, <2>2, <2>3, <3>2 DEF KernelTypes, HoldInv
      <4>. QED
        BY <1>0, <2>1, <2>3, <4>1 DEF HoldInv, ObjTypes
    <3>. QED
      BY <3>1, <3>2
  <2>4. ASSUME NEW p \in Objects, es_sock'[p] # NoFd
        PROVE  \/ holder'[es_sock'[p]] = p
               \/ p \in refused'
               \/ obj'[p] = "closing" /\ \A u \in Threads : cobj'[u] = p => cpc'[u] \in Past
    <3>1. CASE p = s
      BY <1>0, <2>1, <3>1 DEF KernelTypes, ObjTypes
    <3>2. CASE p # s
      <4>1. es_sock'[p] = es_sock[p] /\ es_sock[p] \in Fds /\ obj'[p] = obj[p]
        BY <1>0, <2>1, <2>4, <3>2 DEF ObjTypes
      <4>2. holder[es_sock[p]] = p => holder'[es_sock[p]] = p
        BY <1>0, <2>1, <4>1 DEF KernelTypes
      <4>. QED
        BY <2>1, <4>1, <4>2 DEF HoldInv
    <3>. QED
      BY <3>1, <3>2
  <2>. QED
    BY <2>3, <2>4 DEF HoldInv
<1>6. CASE EpollStep
  BY <1>1, <1>4, <1>5, <1>6, EpollObj, EpollKeeps
<1>. QED
  BY <1>2, <1>3, <1>6

-----------------------------------------------------------------------------
(* What the monitor keeps of the objects.                                   *)

\* Before eio_addfd, and after it failed, no eio_event_t has the object.
LEMMA NotClaimed ==
    ASSUME Types, CallInv, IoeInv, NEW t \in Threads, cpc[t] \in {"socket", "set", "refuse"}
    PROVE  \A i \in Ioes : ioe_data[i] # cobj[t]
<1>1. CallTypes /\ CallAt(t) /\ cobj[t] \in Objects
  BY HasObject DEF Types, CallInv
<1>2. \A u \in Threads : cobj[u] = cobj[t] => u = t
  BY <1>1, Others DEF Types
<1>3. ~Claimed(cobj[t])
  BY <1>1, <1>2 DEF Claimed, CallAt, In_
<1>. QED
  BY <1>1, <1>3, NetAssumption DEF IoeInv

\* Nor has one an object that was not created.
LEMMA NotCreated ==
    ASSUME Types, CallInv, IoeInv, NEW o \in Objects, obj[o] = "none"
    PROVE  ~Claimed(o) /\ \A i \in Ioes : ioe_data[i] # o
<1>1. (\A u \in Threads : cobj[u] # o) /\ ObjAt(o)
  BY Nobodys DEF Types, CallInv
<1>. QED
  BY <1>1, NetAssumption DEF Claimed, IoeInv, ObjAt

\* Steps that leave the monitor alone.
LEMMA WatchKept ==
    ASSUME WatchInv, UNCHANGED <<mvars, holder>>,
           \A u \in Threads : cpc'[u] = "add" => cpc[u] = "add" /\ cobj'[u] = cobj[u]
    PROVE  WatchInv'
  BY DEF WatchInv, mvars

\* What eio_addfd has stays sound when the monitor does not move.
LEMMA IoeKept ==
    ASSUME IoeInv, UNCHANGED mvars,
           \A i \in Ioes : ioe_data[i] # NoObj /\ Claimed(ioe_data[i]) => Claimed(ioe_data[i])'
    PROVE  IoeInv'
  BY DEF IoeInv, mvars

\* The monitor after the calls that start with an object.
LEMMA MonTakes ==
    ASSUME Types, CallInv, HoldInv, WatchInv, IoeInv, NEW t \in Threads,
           \/ \E o \in Objects : Create(t, o)
           \/ \E s \in Socks : CreateNoEmit(t, s) \/ Set(t, s) \/ SockDestroy(t, s)
           \/ \E v \in Servs : Listen(t, v) \/ ServDestroy(t, v)
    PROVE  WatchInv' /\ IoeInv'
<1>. USE NetAssumption DEF Obj, ovars, mtvars, kvars, cvars
<1>0. CallTypes /\ ObjTypes /\ MonTypes /\ KernelTypes /\ cpc[t] = "idle" /\ cobj[t] = NoObj
  BY DEF Types, Create, CreateNoEmit, Set, SockDestroy, Listen, ServDestroy, AtCall, In, CallTypes
<1>1. ASSUME NEW o \in Objects, NEW label \in {"idle", "socket", "set", "close"}, Go(t, label, o)
      PROVE  /\ \A u \in Threads : cpc'[u] = "add" => cpc[u] = "add" /\ cobj'[u] = cobj[u]
             /\ \A u \in Threads : cpc[u] \in {"add", "mark"} => cpc'[u] = cpc[u] /\ cobj'[u] = cobj[u]
  BY <1>0, <1>1, GoIs
<1>2. ASSUME NEW o \in Objects, Create(t, o) PROVE WatchInv' /\ IoeInv'
  <2>1. UNCHANGED <<mvars, holder, monitor>> /\ obj[o] = "none" /\ obj' = [obj EXCEPT ![o] = "new"] /\ Go(t, "socket", o)
    BY <1>2 DEF Create
  <2>2. WatchInv'
    BY <1>1, <2>1, WatchKept
  <2>3. ASSUME NEW i \in Ioes, ioe_data[i] # NoObj, Claimed(ioe_data[i]) PROVE Claimed(ioe_data[i])'
    <3>1. ioe_data[i] # o /\ ioe_data[i] \in Objects
      BY <1>0, <2>1, <2>3, NotCreated DEF MonTypes
    <3>. QED
      BY <1>0, <1>1, <2>1, <2>3, <3>1 DEF Claimed, mvars, ObjTypes
  <2>. QED
    BY <2>1, <2>2, <2>3, IoeKept
<1>3. ASSUME NEW o \in Socks, CreateNoEmit(t, o) PROVE WatchInv' /\ IoeInv'
  <2>1. /\ UNCHANGED <<mvars, holder, monitor, cpc, cobj>> /\ obj[o] = "none"
        /\ obj' = [obj EXCEPT ![o] = "lost"] /\ o \in Objects
    BY <1>3 DEF CreateNoEmit, Objects
  <2>2. WatchInv'
    BY <2>1, WatchKept
  <2>3. ASSUME NEW i \in Ioes, ioe_data[i] # NoObj, Claimed(ioe_data[i]) PROVE Claimed(ioe_data[i])'
    <3>1. ioe_data[i] # o /\ ioe_data[i] \in Objects
      BY <1>0, <2>1, <2>3, NotCreated DEF MonTypes
    <3>. QED
      BY <1>0, <2>1, <2>3, <3>1 DEF Claimed, mvars, ObjTypes
  <2>. QED
    BY <2>1, <2>2, <2>3, IoeKept
<1>4. ASSUME NEW o \in Socks, Set(t, o) PROVE WatchInv' /\ IoeInv'
  <2>1. UNCHANGED <<mvars, holder, monitor, obj>> /\ Go(t, "set", o) /\ o \in Objects
    BY <1>4 DEF Set, Objects
  <2>2. WatchInv'
    BY <1>1, <2>1, WatchKept
  <2>3. ASSUME NEW i \in Ioes, ioe_data[i] # NoObj, Claimed(ioe_data[i]) PROVE Claimed(ioe_data[i])'
    BY <1>0, <1>1, <2>1, <2>3 DEF Claimed, mvars
  <2>. QED
    BY <2>1, <2>2, <2>3, IoeKept
<1>5. ASSUME NEW o \in Objects, obj' = [obj EXCEPT ![o] = "closing"], Go(t, "close", o),
             \A p \in Objects \ {o} : monitor'[p] = monitor[p]
      PROVE  \A p \in Objects : Claimed(p) => Claimed(p)'
  BY <1>0, <1>1, <1>5 DEF Claimed, ObjTypes
<1>6. ASSUME NEW o \in Socks, SockDestroy(t, o) PROVE WatchInv' /\ IoeInv'
  <2>1. /\ UNCHANGED <<mvars, holder>> /\ obj' = [obj EXCEPT ![o] = "closing"] /\ Go(t, "close", o)
        /\ o \in Objects /\ \A p \in Objects \ {o} : monitor'[p] = monitor[p]
    BY <1>0, <1>6 DEF SockDestroy, ObjTypes, Objects
  <2>2. WatchInv'
    BY <1>1, <2>1, WatchKept
  <2>3. \A i \in Ioes : ioe_data[i] # NoObj /\ Claimed(ioe_data[i]) => Claimed(ioe_data[i])'
    <3>1. ASSUME NEW i \in Ioes, ioe_data[i] # NoObj, Claimed(ioe_data[i]) PROVE Claimed(ioe_data[i])'
      <4>1. PICK p \in Objects : p = ioe_data[i]
        BY <1>0, <3>1 DEF MonTypes
      <4>. QED
        BY <1>5, <2>1, <3>1, <4>1 DEF mvars, Claimed
    <3>. QED
      BY <3>1
  <2>. QED
    BY <2>1, <2>2, <2>3, IoeKept
<1>7. ASSUME NEW v \in Servs, Listen(t, v) PROVE WatchInv' /\ IoeInv'
  <2>1. UNCHANGED <<mvars, holder, monitor, cpc, cobj, obj>>
    BY <1>7 DEF Listen
  <2>2. WatchInv'
    BY <2>1, WatchKept
  <2>3. IoeInv'
    BY <2>1, IoeKept DEF Claimed, mvars
  <2>. QED
    BY <2>2, <2>3
<1>8. ASSUME NEW o \in Servs, ServDestroy(t, o) PROVE WatchInv' /\ IoeInv'
  <2>1. /\ UNCHANGED <<holder, monitor>> /\ obj' = [obj EXCEPT ![o] = "closing"] /\ Go(t, "close", o)
        /\ o \in Objects /\ es_sock[o] \in Fds /\ \A p \in Objects : Claimed(p) => Claimed(p)'
        /\ \/ UNCHANGED mvars
           \/ /\ watch[es_sock[o]] # NoIoe /\ fdof' = [fdof EXCEPT ![watch[es_sock[o]]] = NoFd]
              /\ watch' = [watch EXCEPT ![es_sock[o]] = NoIoe]
              /\ ioe_data' = [ioe_data EXCEPT ![watch[es_sock[o]]] = NoObj]
    BY <1>5, <1>8 DEF ServDestroy, Mon!Unwatch, MayUse, CallInv, ObjAt, Objects
  <2>2. CASE UNCHANGED mvars
    <3>1. WatchInv'
      BY <1>1, <2>1, <2>2, WatchKept
    <3>2. \A i \in Ioes : ioe_data[i] # NoObj /\ Claimed(ioe_data[i]) => Claimed(ioe_data[i])'
      <4>1. ASSUME NEW i \in Ioes, ioe_data[i] # NoObj, Claimed(ioe_data[i]) PROVE Claimed(ioe_data[i])'
        <5>1. PICK p \in Objects : p = ioe_data[i]
          BY <1>0, <4>1 DEF MonTypes
        <5>. QED
          BY <2>1, <2>2, <4>1, <5>1 DEF mvars, Claimed
      <4>. QED
        BY <4>1
    <3>. QED
      BY <2>2, <3>1, <3>2, IoeKept
  <2>3. CASE ~UNCHANGED mvars
    <3>1. PICK f \in Fds, i \in Ioes :
             /\ watch[f] = i /\ fdof' = [fdof EXCEPT ![i] = NoFd]
             /\ watch' = [watch EXCEPT ![f] = NoIoe] /\ ioe_data' = [ioe_data EXCEPT ![i] = NoObj]
      BY <1>0, <2>1, <2>3 DEF MonTypes
    <3>2. WatchInv'
      BY <1>0, <1>1, <2>1, <3>1 DEF WatchInv, MonTypes
    <3>3. ASSUME NEW j \in Ioes, NEW p \in Objects, p = ioe_data'[j] PROVE Claimed(p)'
      <4>1. p = ioe_data[j]
        BY <1>0, <3>1, <3>3 DEF MonTypes
      <4>2. Claimed(p)
        BY <4>1 DEF IoeInv
      <4>. QED
        BY <2>1, <4>2
    <3>4. \A j \in Ioes : ioe_data'[j] \in Objects \cup {NoObj}
      BY <1>0, <3>1 DEF MonTypes
    <3>5. \A j \in Ioes : fdof'[j] = NoFd <=> ioe_data'[j] = NoObj
      BY <1>0, <3>1 DEF IoeInv, MonTypes
    <3>6. \A j, k \in Ioes : ioe_data'[j] = ioe_data'[k] /\ ioe_data'[j] # NoObj => j = k
      BY <1>0, <3>1 DEF IoeInv, MonTypes
    <3>7. IoeInv'
      BY <3>3, <3>4, <3>5, <3>6 DEF IoeInv
    <3>. QED
      BY <3>2, <3>7
  <2>. QED
    BY <2>2, <2>3
<1>. QED
  BY <1>2, <1>3, <1>4, <1>6, <1>7, <1>8

\* The monitor after the calls that go on with an object.
LEMMA MonStep ==
    ASSUME Types, Types', CallInv, HoldInv, WatchInv, IoeInv,
           NEW t \in Threads, NEW o \in Objects, o = cobj[t],
           \/ \E f \in Fds : SocketOpens(t, f)
           \/ \E i \in Ioes : AddFd(t, i) \/ AddWatch(t, i) \/ AddRefused(t, i)
           \/ SocketFails(t) \/ AddNoMem(t) \/ Mark(t) \/ Refuse(t)
           \/ Close(t) \/ DestroyRefused(t) \/ DestroyTested(t)
           \/ DestroyKills(t) \/ DestroyFrees(t) \/ Free(t)
    PROVE  WatchInv' /\ IoeInv'
<1>. USE NetAssumption DEF Obj, ovars, mtvars, kvars, In
<1>0. /\ CallTypes /\ ObjTypes /\ KernelTypes /\ MonTypes /\ MonTypes' /\ CallAt(t) /\ ObjAt(o)
      /\ \A u \in Threads \ {t} : cobj[u] # o
  BY Others DEF Types, CallInv
<1>1. ASSUME NEW label, Go(t, label, o)
      PROVE  /\ cpc'[t] = label /\ cobj'[t] = IF label = "idle" THEN NoObj ELSE o
             /\ \A u \in Threads \ {t} : cpc'[u] = cpc[u] /\ cobj'[u] = cobj[u] /\ cobj'[u] # o
  BY <1>0, <1>1, GoIs
<1>2. ASSUME NEW label, Go(t, label, o), label # "add"
      PROVE  \A u \in Threads : cpc'[u] = "add" => cpc[u] = "add" /\ cobj'[u] = cobj[u]
  BY <1>1, <1>2
\* Other objects stay claimed, and o does or was not.
<1>3. ASSUME NEW label, Go(t, label, o),
             \A p \in Objects \ {o} : obj'[p] = obj[p] /\ monitor'[p] = monitor[p],
             Claimed(o) => Claimed(o)'
      PROVE  \A p \in Objects : Claimed(p) => Claimed(p)'
  <2>1. ASSUME NEW p \in Objects, p # o, Claimed(p) PROVE Claimed(p)'
    <3>1. CASE \E u \in Threads : cobj[u] = p /\ cpc[u] \in {"add", "mark"}
      <4>1. PICK u \in Threads \ {t} : cobj[u] = p /\ cpc[u] \in {"add", "mark"}
        BY <2>1, <3>1
      <4>. QED
        BY <1>1, <1>3, <4>1 DEF Claimed
    <3>. QED
      BY <1>3, <2>1, <3>1 DEF Claimed
  <2>. QED
    BY <1>3, <2>1
\* A step that leaves the monitor and the holders alone.
<1>4. ASSUME NEW label, Go(t, label, o), label # "add", UNCHANGED mvars,
             \A p \in Objects \ {o} : obj'[p] = obj[p] /\ monitor'[p] = monitor[p],
             Claimed(o) => Claimed(o)'
      PROVE  IoeInv' /\ (holder' = holder => WatchInv')
  <2>1. \A p \in Objects : Claimed(p) => Claimed(p)'
    BY <1>3, <1>4
  <2>2. ASSUME NEW i \in Ioes, ioe_data[i] # NoObj, Claimed(ioe_data[i]) PROVE Claimed(ioe_data[i])'
    <3>1. PICK p \in Objects : p = ioe_data[i]
      BY <1>0, <2>2 DEF MonTypes
    <3>2. Claimed(p)'
      BY <2>1, <2>2, <3>1
    <3>. QED
      BY <1>4, <3>1, <3>2 DEF mvars, Claimed
  <2>3. IoeInv'
    BY <1>4, <2>2, IoeKept
  <2>4. holder' = holder => WatchInv'
    BY <1>2, <1>4, WatchKept
  <2>. QED
    BY <2>3, <2>4
<1>5. CASE SocketFails(t) \/ Mark(t) \/ AddNoMem(t)
  <2>1. /\ UNCHANGED <<mvars, holder>> /\ cpc[t] \in {"socket", "mark", "set"}
        /\ \E label \in {"idle", "refuse"} : Go(t, label, o)
        /\ \A p \in Objects \ {o} : obj'[p] = obj[p] /\ monitor'[p] = monitor[p]
        /\ cpc[t] = "mark" => monitor'[o]
    BY <1>0, <1>5 DEF SocketFails, Mark, AddNoMem, ObjTypes
  <2>2. Claimed(o) => Claimed(o)'
    BY <1>0, <2>1 DEF Claimed, CallAt, In_
  <2>. QED
    BY <1>4, <2>1, <2>2
<1>6. CASE DestroyRefused(t) \/ DestroyTested(t) \/ DestroyKills(t) \/ DestroyFrees(t) \/ Free(t)
  <2>1. /\ UNCHANGED <<mvars, holder>>
        /\ \E label \in {"idle", "free", "kill", "unemit"} : Go(t, label, o)
        /\ \A p \in Objects \ {o} : obj'[p] = obj[p] /\ monitor'[p] = monitor[p]
        /\ obj'[o] \in {"closing", "freed"}
    BY <1>0, <1>6 DEF DestroyRefused, DestroyTested, DestroyKills, DestroyFrees, Free, ObjTypes,
                      CallAt, Out, Past
  <2>2. Claimed(o)'
    BY <2>1 DEF Claimed
  <2>. QED
    BY <1>4, <2>1, <2>2
<1>7. ASSUME NEW f \in Fds, SocketOpens(t, f) PROVE WatchInv' /\ IoeInv'
  <2>1. /\ UNCHANGED <<mvars, obj, monitor>> /\ Go(t, "set", o) /\ cpc[t] = "socket"
        /\ holder[f] = NoObj /\ holder' = [holder EXCEPT ![f] = o]
    BY <1>7 DEF SocketOpens
  <2>2. Claimed(o) => Claimed(o)'
    BY <1>0, <2>1 DEF Claimed, CallAt
  <2>3. IoeInv'
    BY <1>4, <2>1, <2>2
  <2>4. watch[f] = NoIoe
    BY <1>0, <2>1 DEF WatchInv, IoeInv, MonTypes
  <2>5. WatchInv'
    BY <1>0, <1>2, <2>1, <2>4 DEF WatchInv, mvars, KernelTypes
  <2>. QED
    BY <2>3, <2>5
<1>8. ASSUME NEW i \in Ioes, AddFd(t, i) PROVE WatchInv' /\ IoeInv'
  <2>1. /\ fdof[i] = NoFd /\ fdof' = [fdof EXCEPT ![i] = es_sock[o]] /\ es_sock[o] \in Fds
        /\ watch' = watch /\ holder' = holder /\ ioe_data' = [ioe_data EXCEPT ![i] = o]
        /\ UNCHANGED <<obj, monitor>> /\ Go(t, "add", o) /\ cpc[t] = "set"
    BY <1>0, <1>8 DEF AddFd, Mon!Reserve, CallAt, In_
  <2>2. \A j \in Ioes : ioe_data[j] # o
    BY <2>1, NotClaimed
  <2>3. Claimed(o)'
    BY <1>1, <2>1 DEF Claimed
  <2>4. \A p \in Objects : Claimed(p) => Claimed(p)'
    BY <1>3, <2>1, <2>3
  <2>5. \A j, k \in Ioes : ioe_data'[j] = ioe_data'[k] /\ ioe_data'[j] # NoObj => j = k
    BY <1>0, <2>1, <2>2 DEF IoeInv, MonTypes
  <2>6. \A j \in Ioes : fdof'[j] = NoFd <=> ioe_data'[j] = NoObj
    BY <1>0, <2>1 DEF IoeInv, MonTypes
  <2>7. ASSUME NEW j \in Ioes, NEW p \in Objects, p = ioe_data'[j] PROVE Claimed(p)'
    BY <1>0, <2>1, <2>3, <2>4, <2>7 DEF IoeInv, MonTypes
  <2>8. IoeInv'
    BY <1>0, <2>5, <2>6, <2>7 DEF IoeInv, MonTypes
  <2>9. ASSUME NEW f \in Fds, watch'[f] # NoIoe
        PROVE  /\ fdof'[watch'[f]] = f /\ ioe_data'[watch'[f]] = holder'[f]
               /\ \A u \in Threads : cpc'[u] = "add" => cobj'[u] # holder'[f]
    <3>1. /\ watch[f] \in Ioes /\ fdof[watch[f]] = f /\ watch[f] # i
          /\ ioe_data[watch[f]] = holder[f] /\ holder[f] # o
      BY <1>0, <2>1, <2>2, <2>9 DEF WatchInv, MonTypes
    <3>2. \A u \in Threads \ {t} : cpc'[u] = "add" => cobj'[u] # holder[f]
      BY <1>1, <2>1, <2>9 DEF WatchInv
    <3>. QED
      BY <1>0, <1>1, <2>1, <3>1, <3>2 DEF MonTypes
  <2>. QED
    BY <2>8, <2>9 DEF WatchInv
<1>9. ASSUME NEW i \in Ioes, AddWatch(t, i) PROVE WatchInv' /\ IoeInv'
  <2>1. /\ es_sock[o] \in Fds /\ fdof[i] = es_sock[o] /\ fdof' = fdof /\ ioe_data[i] = o
        /\ holder[es_sock[o]] = o /\ holder' = holder /\ ioe_data' = ioe_data
        /\ watch' = [watch EXCEPT ![es_sock[o]] = i]
        /\ UNCHANGED <<obj, monitor>> /\ Go(t, "mark", o) /\ cpc[t] = "add"
    BY <1>0, <1>9 DEF AddWatch, Mon!Watch, CallAt, In_
  <2>2. Claimed(o)'
    BY <1>1, <2>1 DEF Claimed
  <2>3. \A p \in Objects : Claimed(p) => Claimed(p)'
    BY <1>3, <2>1, <2>2
  <2>4. ASSUME NEW j \in Ioes, NEW p \in Objects, p = ioe_data'[j] PROVE Claimed(p)'
    BY <2>1, <2>3, <2>4 DEF IoeInv
  <2>5. IoeInv'
    BY <1>0, <2>1, <2>4 DEF IoeInv, MonTypes
  <2>6. \A u \in Threads : cpc'[u] = "add" => cpc[u] = "add" /\ cobj'[u] = cobj[u] /\ cobj'[u] # o
    BY <1>1, <2>1
  <2>7. WatchInv'
    BY <1>0, <2>1, <2>6 DEF WatchInv, MonTypes
  <2>. QED
    BY <2>5, <2>7
<1>10. ASSUME NEW i \in Ioes, AddRefused(t, i) PROVE WatchInv' /\ IoeInv'
  <2>1. /\ es_sock[o] \in Fds /\ fdof[i] = es_sock[o] /\ fdof' = [fdof EXCEPT ![i] = NoFd]
        /\ ioe_data[i] = o /\ ioe_data' = [ioe_data EXCEPT ![i] = NoObj]
        /\ watch[es_sock[o]] # i /\ watch' = watch /\ holder' = holder
        /\ UNCHANGED <<obj, monitor>> /\ Go(t, "refuse", o) /\ cpc[t] = "add"
    BY <1>0, <1>10 DEF AddRefused, Mon!Refuse, CallAt, In_
  <2>2. \A f \in Fds : watch[f] # i
    BY <2>1, NetAssumption DEF WatchInv
  <2>3. WatchInv'
    BY <1>0, <1>2, <2>1, <2>2 DEF WatchInv, MonTypes
  <2>4. \A u \in Threads \ {t} : cpc[u] \in {"add", "mark"} => cpc'[u] = cpc[u] /\ cobj'[u] = cobj[u]
    BY <1>1, <2>1
  <2>5. ASSUME NEW j \in Ioes, NEW p \in Objects, p = ioe_data'[j] PROVE Claimed(p)'
    <3>1. j # i /\ p = ioe_data[j] /\ p # o
      BY <1>0, <2>1, <2>5 DEF IoeInv, MonTypes
    <3>2. Claimed(p)
      BY <3>1 DEF IoeInv
    <3>. QED
      BY <2>1, <2>4, <3>1, <3>2 DEF Claimed
  <2>6. \A j \in Ioes : fdof'[j] = NoFd <=> ioe_data'[j] = NoObj
    BY <1>0, <2>1 DEF IoeInv, MonTypes
  <2>7. \A j, k \in Ioes : ioe_data'[j] = ioe_data'[k] /\ ioe_data'[j] # NoObj => j = k
    BY <1>0, <2>1 DEF IoeInv, MonTypes
  <2>8. IoeInv'
    BY <1>0, <2>5, <2>6, <2>7 DEF IoeInv, MonTypes
  <2>. QED
    BY <2>3, <2>8
<1>11. CASE Refuse(t) \/ Close(t)
  <2>1. /\ CloseSock(o) /\ es_sock[o] \in Fds /\ ioe_data' = ioe_data /\ monitor' = monitor
        /\ \A p \in Objects \ {o} : obj'[p] = obj[p]
        /\ \E label \in {"idle", "free", "emit"} : Go(t, label, o)
        /\ cpc[t] = "refuse" \/ obj'[o] = "closing"
    BY <1>0, <1>11 DEF Refuse, Close, CallAt, Out, In_, ObjTypes
  <2>2. fdof' = fdof
    BY <1>0, <2>1, Closes
  <2>3. Claimed(o) => Claimed(o)'
    BY <1>0, <2>1 DEF Claimed, CallAt, In_
  <2>4. \A p \in Objects : Claimed(p) => Claimed(p)'
    BY <1>3, <2>1, <2>3
  <2>5. ASSUME NEW j \in Ioes, NEW p \in Objects, p = ioe_data'[j] PROVE Claimed(p)'
    BY <2>1, <2>4, <2>5 DEF IoeInv
  <2>6. IoeInv'
    BY <1>0, <2>1, <2>2, <2>5 DEF IoeInv, MonTypes
  <2>7. \A u \in Threads : cpc'[u] = "add" => cpc[u] = "add" /\ cobj'[u] = cobj[u]
    BY <1>2, <2>1
  <2>8. WatchInv'
    BY <1>0, <2>1, <2>2, <2>7, Closes DEF WatchInv, MonTypes, KernelTypes
  <2>. QED
    BY <2>6, <2>8
<1>. QED
  BY <1>5, <1>6, <1>7, <1>8, <1>9, <1>10, <1>11

\* The monitor after any call.
LEMMA MonCalls ==
    ASSUME Types, Types', CallInv, HoldInv, WatchInv, IoeInv, NEW t \in Threads, CallStep(t)
    PROVE  WatchInv' /\ IoeInv'
<1>1. CASE UNCHANGED core
  <2>1. UNCHANGED <<mvars, holder, cpc, cobj, obj, monitor>>
    BY <1>1 DEF core, kvars, ovars, cvars
  <2>2. WatchInv'
    BY <2>1, WatchKept
  <2>3. IoeInv'
    BY <2>1, IoeKept DEF Claimed, mvars
  <2>. QED
    BY <2>2, <2>3
<1>. QED
  BY <1>1, CallCases, CallFaultIs, MonTakes, MonStep DEF Types

\* The monitor after the other steps.
LEMMA MonOthers ==
    ASSUME Types, Types', CallInv, HoldInv, WatchInv, IoeInv,
           EpollStep \/ (\E f \in Fds : Ready(f)) \/ \E w \in Workers : WorkerStep(w)
    PROVE  WatchInv' /\ IoeInv'
<1>. USE NetAssumption
<1>0. MonTypes /\ KernelTypes /\ ObjTypes
  BY DEF Types
<1>1. ASSUME UNCHANGED <<mvars, holder, cvars>>,
             \A p \in Objects : Claimed(p) => Claimed(p)'
      PROVE  WatchInv' /\ IoeInv'
  <2>1. WatchInv'
    BY <1>1, WatchKept DEF cvars
  <2>2. ASSUME NEW i \in Ioes, ioe_data[i] # NoObj, Claimed(ioe_data[i]) PROVE Claimed(ioe_data[i])'
    <3>1. PICK p \in Objects : p = ioe_data[i]
      BY <1>0, <2>2 DEF MonTypes
    <3>2. Claimed(p)'
      BY <1>1, <2>2, <3>1
    <3>. QED
      BY <1>1, <3>1, <3>2 DEF mvars, Claimed
  <2>. QED
    BY <1>1, <2>1, <2>2, IoeKept
<1>2. CASE UNCHANGED <<mvars, holder, cvars, obj, monitor>>
  BY <1>1, <1>2 DEF Claimed, cvars
<1>3. ASSUME NEW f \in Fds, Ready(f) PROVE WatchInv' /\ IoeInv'
  BY <1>2, <1>3 DEF Ready, ovars
<1>4. ASSUME NEW w \in Workers, WorkerStep(w) PROVE WatchInv' /\ IoeInv'
  BY <1>2, <1>4, WorkerKeeps DEF kvars, ovars
<1>5. ASSUME NEW s \in Socks, obj[s] = "none", \A p \in Objects \ {s} : obj'[p] = obj[p],
             UNCHANGED <<monitor, cvars>>
      PROVE  \A p \in Objects : Claimed(p) => Claimed(p)'
  BY <1>5, NotCreated DEF Claimed, cvars, Objects
<1>6. ASSUME NEW s \in Socks, EpollStep, AcceptFails(s) PROVE WatchInv' /\ IoeInv'
  <2>1. /\ UNCHANGED <<mvars, holder, cvars, monitor>> /\ obj[s] = "none"
        /\ \A p \in Objects \ {s} : obj'[p] = obj[p]
    BY <1>0, <1>6, EpollKeeps DEF AcceptFails, Obj, kvars, ObjTypes
  <2>. QED
    BY <1>1, <1>5, <2>1
<1>7. ASSUME NEW s \in Socks, NEW f \in Fds, EpollStep, Accept(s, f) PROVE WatchInv' /\ IoeInv'
  <2>1. /\ UNCHANGED <<mvars, cvars, monitor>> /\ obj[s] = "none"
        /\ \A p \in Objects \ {s} : obj'[p] = obj[p]
        /\ holder[f] = NoObj /\ \A g \in Fds \ {f} : holder'[g] = holder[g]
    BY <1>0, <1>7, EpollKeeps DEF Accept, Obj, ObjTypes, KernelTypes
  <2>2. watch[f] = NoIoe
    BY <1>0, <2>1 DEF WatchInv, IoeInv, MonTypes
  <2>3. WatchInv'
    BY <1>0, <2>1, <2>2 DEF WatchInv, mvars, cvars
  <2>4. \A p \in Objects : Claimed(p) => Claimed(p)'
    BY <1>5, <2>1
  <2>5. ASSUME NEW j \in Ioes, NEW p \in Objects, p = ioe_data'[j] PROVE Claimed(p)'
    BY <2>1, <2>4, <2>5 DEF IoeInv, mvars
  <2>6. IoeInv'
    BY <1>0, <2>1, <2>5 DEF IoeInv, MonTypes, mvars
  <2>. QED
    BY <2>3, <2>6
<1>8. ASSUME EpollStep, EpollFails PROVE WatchInv' /\ IoeInv'
  <2>1. UNCHANGED <<fdof, ioe_data, holder, cvars, obj, monitor>> /\ \A f \in Fds : watch'[f] = NoIoe
    BY <1>8 DEF EpollFails, Mon!Fail, ovars
  <2>. QED
    BY <2>1 DEF WatchInv, IoeInv, Claimed, cvars
<1>9. CASE EpollStep
  <2>1. CASE UNCHANGED <<holder, ovars>> /\ ~EpollFails
    <3>1. UNCHANGED mvars
      BY <1>9, <2>1, EpollMon DEF EpollWait
    <3>. QED
      BY <1>2, <1>9, <2>1, <3>1, EpollKeeps DEF ovars
  <2>. QED
    BY <1>6, <1>7, <1>8, <1>9, <2>1, EpollObj
<1>. QED
  BY <1>3, <1>4, <1>9

-----------------------------------------------------------------------------
(* Objects without a descriptor.                                            *)

\* No object comes to be without a descriptor, and none without one is watched.
LEMMA UnusedCalls ==
    ASSUME Types, CallInv, HoldInv, UnusedInv, NEW t \in Threads, CallStep(t)
    PROVE  UnusedInv'
<1>. USE NetAssumption DEF Obj, ovars
<1>0. /\ MonTypes /\ ObjTypes /\ CallTypes /\ UNCHANGED <<cur, pvars>>
  BY CallKeeps DEF Types, evars
<1>1. ASSUME NEW p \in Objects, es_sock'[p] = NoFd, obj'[p] # "freed"
      PROVE  /\ es_sock[p] = NoFd /\ obj[p] # "freed"
             /\ \A i \in Ioes : ioe_data'[i] = p => ioe_data[i] = p
  <2>. DEFINE Fine == /\ es_sock[p] = NoFd /\ obj[p] # "freed"
                      /\ \A i \in Ioes : ioe_data'[i] = p => ioe_data[i] = p
  <2>1. CASE CallFault(t)
    BY <1>1, <2>1, CallFaultIs DEF core, mvars
  <2>2. ASSUME NEW o \in Objects, Create(t, o) PROVE Fine
    BY <1>0, <1>1, <2>2 DEF Create, mvars, ObjTypes
  <2>3. ASSUME NEW s \in Socks, CreateNoEmit(t, s) \/ Set(t, s) \/ SockDestroy(t, s) PROVE Fine
    BY <1>0, <1>1, <2>3 DEF CreateNoEmit, Set, SockDestroy, MayUse, mvars, ObjTypes
  <2>4. ASSUME NEW v \in Servs, Listen(t, v) PROVE Fine
    BY <1>0, <1>1, <2>4 DEF Listen, mvars
  <2>5. ASSUME NEW v \in Servs, ServDestroy(t, v) PROVE Fine
    <3>1. /\ obj[v] = "live" /\ es_sock' = es_sock /\ obj' = [obj EXCEPT ![v] = "closing"]
          /\ \/ ioe_data' = ioe_data
             \/ \E i \in Ioes \cup {NoIoe} : ioe_data' = [ioe_data EXCEPT ![i] = NoObj]
      BY <1>0, <2>5 DEF ServDestroy, MayUse, CallInv, ObjAt, Objects, MonTypes, mvars
    <3>. QED
      BY <1>0, <1>1, <3>1 DEF ObjTypes, MonTypes
  <2>6. ASSUME NEW f \in Fds, SocketOpens(t, f), cobj[t] \in Objects PROVE Fine
    BY <1>0, <1>1, <2>6 DEF SocketOpens, mvars, ObjTypes
  <2>7. ASSUME NEW i \in Ioes, AddFd(t, i), cobj[t] \in Objects PROVE Fine
    <3>1. /\ ioe_data' = [ioe_data EXCEPT ![i] = cobj[t]] /\ UNCHANGED <<es_sock, obj>>
          /\ es_sock[cobj[t]] \in Fds
      BY <2>7 DEF AddFd, CallInv, CallAt, In, In_
    <3>. QED
      BY <1>0, <1>1, <3>1 DEF MonTypes
  <2>8. ASSUME NEW i \in Ioes, AddWatch(t, i) \/ AddRefused(t, i) PROVE Fine
    BY <1>0, <1>1, <2>8 DEF AddWatch, AddRefused, MonTypes
  <2>9. CASE cobj[t] \in Objects /\ (SocketFails(t) \/ AddNoMem(t) \/ Mark(t) \/ Refuse(t) \/ Free(t))
    <3>1. ioe_data' = ioe_data
      BY <2>9 DEF SocketFails, AddNoMem, Mark, Refuse, Free, mvars
    <3>2. CallAt(t)
      BY DEF CallInv
    <3>3. es_sock[p] = NoFd /\ obj[p] # "freed"
      BY <1>0, <1>1, <2>9, <3>2 DEF SocketFails, AddNoMem, Mark, Refuse, Free, ObjTypes, CallAt, In,
                                     In_, Out, Past
    <3>. QED
      BY <3>1, <3>3
  <2>10. CASE Close(t) \/ DestroyRefused(t) \/ DestroyTested(t) \/ DestroyKills(t) \/ DestroyFrees(t)
    BY <1>0, <1>1, <2>10 DEF Close, DestroyRefused, DestroyTested, DestroyKills, DestroyFrees, mvars
  <2>. QED
    BY <1>0, <2>1, <2>2, <2>3, <2>4, <2>5, <2>6, <2>7, <2>8, <2>9, <2>10, CallCases
<1>. QED
  BY <1>0, <1>1 DEF UnusedInv, pvars, Pool!Held, Pool!Waits

\* The pool's events, the types given.
LEMMA HeldIs ==
    ASSUME NEW e \in Events
    PROVE  /\ PoolTypes => /\ Pool!Held(e) <=> \E w \in Workers : Has(w, e)
                           /\ \A w \in Workers : Pool!Waits(w, e) <=> <<e, NORM>> \in waiting[w]
           /\ PoolTypes' => /\ Pool!Held(e)' <=> \E w \in Workers : Has(w, e)'
                            /\ \A w \in Workers : Pool!Waits(w, e)' <=> <<e, NORM>> \in waiting'[w]
<1>1. PoolTypes => \A w \in Workers : Pool!Waits(w, e) <=> <<e, NORM>> \in waiting[w]
  BY DEF PoolTypes, Pool!Waits
<1>2. PoolTypes' => \A w \in Workers : Pool!Waits(w, e)' <=> <<e, NORM>> \in waiting'[w]
  BY DEF PoolTypes, Pool!Waits
<1>. QED
  BY <1>1, <1>2 DEF Pool!Held, Has

\* A worker takes an event to a handler and out of the pool; the other steps of
\* a worker leave the pool alone.
LEMMA WorkerCases ==
    ASSUME NEW w \in Workers, WorkerStep(w)
    PROVE  \/ \E e \in Events : Start(w, e)
           \/ Done(w)
           \/ UNCHANGED pvars
  BY DEF WorkerStep, StartFreed, Callback, CallbackFreed, Return, ReturnFreed, Fault

\* Only a submitted event comes into the pool, with the sock it is for.
LEMMA WorkerHeld ==
    ASSUME PoolTypes, PoolTypes', NEW w \in Workers, WorkerStep(w), NEW e \in Events, Pool!Held(e)',
           ev_emit'[e] # NoObj
    PROVE  Pool!Held(e) /\ ev_emit'[e] = ev_emit[e]
<1>1. PICK v \in Workers : Has(v, e)'
  BY HeldIs
<1>2. ASSUME NEW d \in Events, Start(w, d) PROVE Pool!Held(e) /\ ev_emit'[e] = ev_emit[e]
  <2>1. /\ <<d, NORM>> \in waiting[w] /\ running[w] = NoEvent
        /\ waiting' = [waiting EXCEPT ![w] = @ \ {<<d, NORM>>}]
        /\ running' = [running EXCEPT ![w] = d] /\ ev_emit' = ev_emit
    BY <1>2, StartIs
  <2>2. Has(v, e)
    BY <1>1, <2>1 DEF Has, PoolTypes
  <2>. QED
    BY <2>1, <2>2, HeldIs
<1>3. CASE Done(w)
  <2>1. /\ waiting' = waiting /\ running[w] \in Events
        /\ running' = [running EXCEPT ![w] = NoEvent]
        /\ ev_emit' = [ev_emit EXCEPT ![running[w]] = NoObj]
    BY <1>3, DoneIs
  <2>2. Has(v, e)
    BY <1>1, <2>1, NetAssumption DEF Has, PoolTypes
  <2>3. ev_emit'[e] = ev_emit[e]
    BY <2>1 DEF PoolTypes
  <2>. QED
    BY <2>2, <2>3, HeldIs
<1>4. CASE UNCHANGED pvars
  BY <1>1, <1>4, HeldIs DEF pvars, Has
<1>. QED
  BY <1>2, <1>3, <1>4, WorkerCases

\* The epoll thread changes the pool with Submit only.
LEMMA EpollPool ==
    ASSUME EpollStep, ~\E w \in Workers : Submit(w)
    PROVE  UNCHANGED pvars
<1>1. ASSUME NEW x \in batch, Entry(x) \/ EntryFreed(x) PROVE UNCHANGED pvars
  BY <1>1 DEF Entry, EntryFreed, Fault
<1>. QED
  BY <1>1 DEF EpollStep, EpollWait, EpollFails, EntryDone, FlagFreed, EmitMissing,
     SockRefused, Count, CountFreed, AcceptNoMem, ServOut, ServHup, ServReturns, SockDispatch,
     AcceptFails, Accept, Fault

\* An event is given to a worker.
LEMMA SubmitIs ==
    ASSUME PoolTypes, EpollTypes, NEW w \in Workers, Submit(w)
    PROVE  /\ epc = "submit" /\ eev \in Events /\ ~Pool!Held(eev) /\ cur.data \in Socks
           /\ waiting' = [waiting EXCEPT ![w] = @ \cup {<<eev, NORM>>}]
           /\ ev_emit' = [ev_emit EXCEPT ![eev] = cur.data]
           /\ epc' = "cb" /\ eev' = NoEvent /\ cur'.data = cur.data
           /\ UNCHANGED <<running, hpc, pend, emit, cache>>
  BY DEF Submit, Pool!Submit, EpollTypes, EpollAt, Data, FlagDone, mtvars

\* An event is with the pool already, or the epoll thread gives it in now.
LEMMA EpollHeld ==
    ASSUME PoolTypes, PoolTypes', EpollTypes, EpollStep, NEW e \in Events, Pool!Held(e)'
    PROVE  \/ Pool!Held(e) /\ ev_emit'[e] = ev_emit[e]
           \/ /\ epc = "submit" /\ eev = e /\ ev_emit'[e] = cur.data /\ cur'.data = cur.data
              /\ epc' = "cb"
<1>1. PICK v \in Workers : Has(v, e)'
  BY HeldIs
<1>2. CASE UNCHANGED pvars
  BY <1>1, <1>2, HeldIs DEF pvars, Has
<1>3. ASSUME NEW w \in Workers, Submit(w), e # eev PROVE Pool!Held(e) /\ ev_emit'[e] = ev_emit[e]
  <2>1. Has(v, e) /\ ev_emit'[e] = ev_emit[e]
    BY <1>1, <1>3, SubmitIs DEF Has, PoolTypes
  <2>. QED
    BY <2>1, HeldIs
<1>4. ASSUME NEW w \in Workers, Submit(w), e = eev
      PROVE  /\ epc = "submit" /\ ev_emit'[e] = cur.data /\ cur'.data = cur.data /\ epc' = "cb"
  BY <1>4, SubmitIs DEF PoolTypes
<1>. QED
  BY <1>2, <1>3, <1>4, EpollPool

\* The entry stays the same, or is done with, or is taken from the batch.
LEMMA EpollCur ==
    ASSUME EpollTypes, EpollStep
    PROVE  \/ cur'.data = cur.data
           \/ epc = "cb" /\ epc' = "wait" /\ cur'.data = NoObj
           \/ \E x \in batch : Entry(x)
<1>1. ASSUME NEW x \in batch, EntryFreed(x) PROVE cur'.data = cur.data
  BY <1>1 DEF EntryFreed, Fault, evars
<1>2. CASE EpollWait \/ EpollFails \/ FlagFreed \/ EmitMissing \/ CountFreed \/ ServOut
  BY <1>2 DEF EpollWait, EpollFails, FlagFreed, EmitMissing, CountFreed, ServOut, Fault, evars
<1>3. CASE EntryDone
  BY <1>3 DEF EntryDone, EpollAt, NoEntry
<1>4. CASE SockRefused \/ Count \/ AcceptNoMem \/ ServHup \/ ServReturns
  BY <1>4 DEF SockRefused, Count, AcceptNoMem, ServHup, ServReturns, FlagDone, EpollTypes
<1>5. ASSUME NEW w \in Workers, Submit(w) PROVE cur'.data = cur.data
  BY <1>5 DEF Submit, FlagDone, EpollTypes
<1>6. ASSUME NEW e \in Events, SockDispatch(e) PROVE cur'.data = cur.data
  BY <1>6 DEF SockDispatch
<1>7. ASSUME NEW s \in Socks, AcceptFails(s) \/ \E f \in Fds : Accept(s, f) PROVE cur'.data = cur.data
  BY <1>7 DEF AcceptFails, Accept, EpollTypes
<1>. QED
  BY <1>1, <1>2, <1>3, <1>4, <1>5, <1>6, <1>7 DEF EpollStep

\* An object without a descriptor stays unknown in the other steps.
LEMMA UnusedOthers ==
    ASSUME Types, Types', CallInv, UnusedInv,
           EpollStep \/ (\E f \in Fds : Ready(f)) \/ \E w \in Workers : WorkerStep(w)
    PROVE  UnusedInv'
<1>. USE NetAssumption
<1>0. /\ MonTypes /\ ObjTypes /\ PoolTypes /\ PoolTypes' /\ EpollTypes
  BY DEF Types
<1>1. ASSUME UNCHANGED ioe_data, \A p \in Objects : es_sock'[p] = NoFd /\ obj'[p] # "freed" =>
                                       es_sock[p] = NoFd /\ obj[p] # "freed",
             \A p \in Objects : cur'.data = p => cur.data = p \/ \E i \in Ioes : ioe_data[i] = p,
             \A e \in Events, p \in Objects : Pool!Held(e)' /\ ev_emit'[e] = p =>
                 (Pool!Held(e) /\ ev_emit[e] = p) \/ cur.data = p
      PROVE  UnusedInv'
  BY <1>1 DEF UnusedInv
<1>2. ASSUME NEW f \in Fds, Ready(f) PROVE UnusedInv'
  BY <1>2 DEF Ready, mvars, pvars, ovars, evars, UnusedInv, Pool!Held, Pool!Waits
<1>3. ASSUME NEW w \in Workers, WorkerStep(w) PROVE UnusedInv'
  <2>1. UNCHANGED <<ioe_data, es_sock, obj, cur>>
    BY <1>3, WorkerKeeps DEF mvars, ovars, evars
  <2>2. \A e \in Events, p \in Objects : Pool!Held(e)' /\ ev_emit'[e] = p => Pool!Held(e) /\ ev_emit[e] = p
    BY <1>0, <1>3, WorkerHeld
  <2>. QED
    BY <1>1, <2>1, <2>2
<1>4. CASE EpollStep
  <2>1. ioe_data' = ioe_data
    BY <1>4, EpollKeeps
  <2>2. \A e \in Events, p \in Objects : Pool!Held(e)' /\ ev_emit'[e] = p =>
                 (Pool!Held(e) /\ ev_emit[e] = p) \/ cur.data = p
    BY <1>0, <1>4, EpollHeld
  <2>3. ASSUME NEW p \in Objects, cur'.data = p
        PROVE  cur.data = p \/ \E i \in Ioes : ioe_data[i] = p
    <3>1. ASSUME NEW x \in batch, Entry(x) PROVE x.ioe \in Ioes /\ cur'.data = ioe_data[x.ioe]
      BY <1>0, <3>1 DEF Entry, EpollTypes
    <3>. QED
      BY <1>0, <1>4, <2>3, <3>1, EpollCur
  <2>4. ASSUME NEW p \in Objects, es_sock'[p] = NoFd, obj'[p] # "freed"
        PROVE  es_sock[p] = NoFd /\ obj[p] # "freed"
    <3>1. ASSUME NEW s \in Socks, AcceptFails(s) \/ \E f \in Fds : Accept(s, f)
          PROVE  es_sock[p] = NoFd /\ obj[p] # "freed"
      BY <1>0, <2>4, <3>1 DEF AcceptFails, Accept, Obj, ObjTypes, Objects
    <3>. QED
      BY <1>4, <2>4, <3>1, EpollObj DEF ovars
  <2>. QED
    BY <1>1, <2>1, <2>2, <2>3, <2>4
<1>. QED
  BY <1>2, <1>3, <1>4

-----------------------------------------------------------------------------
(* Where an event is.                                                       *)

\* Who has an event: a step of a worker or of the epoll thread.
LEMMA PlaceWorker ==
    ASSUME PoolTypes, PoolTypes', EpollTypes, PlaceInv, NEW w \in Workers, WorkerStep(w), UNCHANGED evars
    PROVE  PlaceInv' /\ \A v \in Workers, e \in Events : Has(v, e)' => Has(v, e)
<1>. USE NetAssumption
<1>1. ASSUME NEW d \in Events, Start(w, d)
      PROVE  PlaceInv' /\ \A v \in Workers, e \in Events : Has(v, e)' => Has(v, e)
  <2>1. /\ <<d, NORM>> \in waiting[w] /\ running[w] = NoEvent
        /\ waiting' = [waiting EXCEPT ![w] = @ \ {<<d, NORM>>}]
        /\ running' = [running EXCEPT ![w] = d]
    BY <1>1, StartIs
  <2>2. \A v \in Workers, e \in Events : Has(v, e)' => Has(v, e)
    BY <2>1 DEF Has, PoolTypes
  <2>3. \A v \in Workers, e \in Events : ~(running'[v] = e /\ <<e, NORM>> \in waiting'[v])
    BY <2>1 DEF PlaceInv, Has, PoolTypes
  <2>. QED
    BY <2>2, <2>3 DEF PlaceInv, EpollTypes, evars
<1>2. CASE Done(w)
  <2>1. waiting' = waiting /\ running' = [running EXCEPT ![w] = NoEvent]
    BY <1>2, DoneIs
  <2>2. \A v \in Workers, e \in Events : Has(v, e)' => Has(v, e)
    BY <2>1 DEF Has, PoolTypes
  <2>3. \A v \in Workers, e \in Events : ~(running'[v] = e /\ <<e, NORM>> \in waiting'[v])
    BY <2>1 DEF PlaceInv, PoolTypes
  <2>. QED
    BY <2>2, <2>3 DEF PlaceInv, EpollTypes, evars
<1>3. CASE UNCHANGED pvars
  BY <1>3 DEF pvars, evars, PlaceInv, Has
<1>. QED
  BY <1>1, <1>2, <1>3, WorkerCases

\* An event stays in one place in a step of the epoll thread.
LEMMA PlaceEpoll ==
    ASSUME PoolTypes, PoolTypes', EpollTypes, EpollTypes', PlaceInv, EpollStep
    PROVE  PlaceInv'
<1>. USE NetAssumption
<1>1. ASSUME NEW w \in Workers, Submit(w) PROVE PlaceInv'
  <2>1. /\ epc = "submit" /\ eev \in Events /\ epc' = "cb" /\ running' = running
        /\ waiting' = [waiting EXCEPT ![w] = @ \cup {<<eev, NORM>>}]
    BY <1>1, SubmitIs
  <2>2. \A v \in Workers, e \in Events : Has(v, e)' <=> Has(v, e) \/ (v = w /\ e = eev)
    BY <2>1 DEF Has, PoolTypes
  <2>3. \A v \in Workers, e \in Events : ~(running'[v] = e /\ <<e, NORM>> \in waiting'[v])
    BY <2>1 DEF PlaceInv, Has, PoolTypes
  <2>. QED
    BY <2>1, <2>2, <2>3 DEF PlaceInv
<1>2. CASE ~\E w \in Workers : Submit(w)
  <2>1. UNCHANGED pvars
    BY <1>2, EpollPool
  <2>2. ASSUME NEW e \in Events, SockDispatch(e) PROVE PlaceInv'
    <3>1. ~Pool!Held(e) /\ eev' = e
      BY <2>2 DEF SockDispatch, FreeEvents
    <3>2. \A w \in Workers : ~Has(w, e)
      BY <3>1, HeldIs
    <3>. QED
      BY <2>1, <3>1, <3>2 DEF PlaceInv, pvars, Has
  <2>3. (~\E e \in Events : SockDispatch(e)) => (epc' \in {"count", "submit"} => epc \in {"count", "submit"} /\ eev' = eev)
    <3>1. ASSUME NEW x \in batch, Entry(x) \/ EntryFreed(x)
          PROVE  epc' \in {"count", "submit"} => epc \in {"count", "submit"} /\ eev' = eev
      BY <3>1 DEF Entry, EntryFreed, Fault, evars
    <3>. QED
      BY <1>2, <3>1 DEF EpollStep, EpollWait, EpollFails, EntryDone, FlagFreed, EmitMissing,
     SockRefused, Count, CountFreed, AcceptNoMem, ServOut, ServHup, ServReturns,
     AcceptFails, Accept, Fault, evars, EpollAt
  <2>. QED
    BY <2>1, <2>2, <2>3 DEF PlaceInv, pvars, Has
<1>. QED
  BY <1>1, <1>2

\* Calls and readiness move no event.
LEMMA PlaceOthers ==
    ASSUME PlaceInv, (\E t \in Threads : CallStep(t)) \/ (\E f \in Fds : Ready(f))
    PROVE  PlaceInv'
<1>1. UNCHANGED <<pvars, evars>>
  <2>1. ASSUME NEW f \in Fds, Ready(f) PROVE UNCHANGED <<pvars, evars>>
    BY <2>1 DEF Ready
  <2>. QED
    BY <2>1, CallKeeps
<1>. QED
  BY <1>1 DEF pvars, evars, PlaceInv, Has

-----------------------------------------------------------------------------
(* The emits.                                                               *)

\* What a call does to the emit of a sock.
EmitStep(s) ==
    \/ /\ emit'[s] = emit[s] /\ pend'[s] = pend[s]
       /\ obj'[s] \in {"none", "lost"} => obj[s] \in {"none", "lost"}
       /\ obj[s] \in {"closing", "freed"} => obj'[s] \in {"closing", "freed"}
    \/ emit[s] = "null" /\ emit'[s] = "live" /\ pend'[s] = pend[s] /\ obj'[s] = "new"
    \/ emit[s] \in {"live", "dead"} /\ emit'[s] = "dead" /\ pend'[s] = pend[s] /\ obj'[s] = "closing"
    \/ emit'[s] = "freed" /\ pend'[s] \in {pend[s], 0} /\ obj'[s] \in {"closing", "freed"}

\* Every call does one of these to the emit of a sock.
LEMMA EmitCalls ==
    ASSUME Types, CallInv, EmitInv, pend \in [Socks -> Nat], NEW t \in Threads, CallStep(t), NEW s \in Socks
    PROVE  EmitStep(s)
<1>. USE NetAssumption DEF Obj, ovars, mtvars
<1>0. ObjTypes /\ CallTypes /\ CallAt(t) /\ s \in Objects
  BY DEF Types, CallInv, Objects
<1>1. CASE CallFault(t)
  BY <1>1, CallFaultIs DEF core, EmitStep
<1>2. ASSUME NEW o \in Objects, Create(t, o) PROVE EmitStep(s)
  BY <1>0, <1>2 DEF Create, EmitStep, EmitInv, ObjTypes
<1>3. ASSUME NEW o \in Socks, CreateNoEmit(t, o) \/ Set(t, o) \/ SockDestroy(t, o) PROVE EmitStep(s)
  BY <1>0, <1>3 DEF CreateNoEmit, Set, SockDestroy, MayUse, EmitStep, ObjTypes, Objects
<1>4. ASSUME NEW v \in Servs, Listen(t, v) \/ ServDestroy(t, v) PROVE EmitStep(s)
  BY <1>0, <1>4 DEF Listen, ServDestroy, EmitStep, ObjTypes, Objects
<1>5. CASE (\E f \in Fds : SocketOpens(t, f))
           \/ (\E i \in Ioes : AddFd(t, i) \/ AddWatch(t, i) \/ AddRefused(t, i))
  BY <1>5 DEF SocketOpens, AddFd, AddWatch, AddRefused, EmitStep
<1>6. CASE AddNoMem(t) \/ Close(t) \/ DestroyRefused(t) \/ DestroyTested(t)
  BY <1>6 DEF AddNoMem, Close, DestroyRefused, DestroyTested, EmitStep
<1>7. CASE cobj[t] \in Objects /\ (SocketFails(t) \/ Mark(t) \/ Refuse(t) \/ Free(t))
  <2>1. CASE s # cobj[t]
    BY <1>0, <1>7, <2>1 DEF SocketFails, Mark, Refuse, Free, EmitStep, ObjTypes
  <2>2. CASE s = cobj[t]
    BY <1>0, <1>7, <2>2 DEF SocketFails, Mark, Refuse, Free, EmitStep, ObjTypes, CallAt, In, In_, Out, Past
  <2>. QED
    BY <2>1, <2>2
<1>8. CASE cobj[t] \in Objects /\ (DestroyKills(t) \/ DestroyFrees(t))
  BY <1>0, <1>8 DEF DestroyKills, DestroyFrees, EmitStep, ObjTypes, CallAt, In, Out, Past
<1>. QED
  BY <1>0, <1>1, <1>2, <1>3, <1>4, <1>5, <1>6, <1>7, <1>8, CallCases

\* An event that is with the pool after a step of a worker was there before.
LEMMA WorkerHeldKept ==
    ASSUME PoolTypes, PoolTypes', PlaceInv, NEW w \in Workers, WorkerStep(w), NEW e \in Events,
           Pool!Held(e)'
    PROVE  Pool!Held(e) /\ ev_emit'[e] = ev_emit[e]
<1>. USE NetAssumption
<1>1. PICK v \in Workers : Has(v, e)'
  BY HeldIs
<1>2. CASE Done(w)
  <2>1. /\ waiting' = waiting /\ running[w] \in Events
        /\ running' = [running EXCEPT ![w] = NoEvent]
        /\ ev_emit' = [ev_emit EXCEPT ![running[w]] = NoObj]
    BY <1>2, DoneIs
  <2>2. Has(v, e)
    BY <1>1, <2>1 DEF Has, PoolTypes
  <2>3. Has(w, running[w])
    BY DEF Has
  <2>4. e # running[w]
    BY <1>1, <2>1, <2>2, <2>3 DEF Has, PlaceInv, PoolTypes
  <2>. QED
    BY <2>1, <2>2, <2>4, HeldIs DEF PoolTypes
<1>3. ASSUME NEW d \in Events, Start(w, d) PROVE Pool!Held(e) /\ ev_emit'[e] = ev_emit[e]
  <2>1. /\ <<d, NORM>> \in waiting[w] /\ running[w] = NoEvent
        /\ waiting' = [waiting EXCEPT ![w] = @ \ {<<d, NORM>>}]
        /\ running' = [running EXCEPT ![w] = d] /\ ev_emit' = ev_emit
    BY <1>3, StartIs
  <2>2. Has(v, e)
    BY <1>1, <2>1 DEF Has, PoolTypes
  <2>. QED
    BY <2>1, <2>2, HeldIs
<1>4. CASE UNCHANGED pvars
  BY <1>1, <1>4, HeldIs DEF pvars, Has
<1>. QED
  BY <1>2, <1>3, <1>4, WorkerCases

\* What the epoll thread does with the event it dispatches.
LEMMA EpollBusy ==
    ASSUME EpollStep
    PROVE  /\ Count \/ pend' = pend
           /\ epc' \in {"count", "submit"} =>
                 Count \/ (\E e \in Events : SockDispatch(e)) \/ UNCHANGED <<epc, cur, eev>>
<1>. USE DEF mtvars, evars, Fault, EpollAt
<1>1. ASSUME NEW x \in batch, Entry(x) \/ EntryFreed(x)
      PROVE  pend' = pend /\ (epc' \in {"count", "submit"} => UNCHANGED <<epc, cur, eev>>)
  BY <1>1 DEF Entry, EntryFreed
<1>2. ASSUME NEW w \in Workers, Submit(w)
      PROVE  pend' = pend /\ epc' \notin {"count", "submit"}
  BY <1>2 DEF Submit
<1>3. ASSUME NEW s \in Socks, AcceptFails(s) \/ \E f \in Fds : Accept(s, f)
      PROVE  pend' = pend /\ epc' \notin {"count", "submit"}
  BY <1>3 DEF AcceptFails, Accept, AtFlag
<1>4. ASSUME NEW e \in Events, SockDispatch(e) PROVE pend' = pend
  BY <1>4 DEF SockDispatch
<1>5. CASE EpollWait \/ EpollFails \/ EntryDone \/ FlagFreed \/ EmitMissing \/ SockRefused
           \/ CountFreed \/ AcceptNoMem \/ ServOut \/ ServHup \/ ServReturns
  BY <1>5 DEF EpollWait, EpollFails, EntryDone, FlagFreed, EmitMissing, SockRefused, CountFreed,
              AcceptNoMem, ServOut, ServHup, ServReturns, AtFlag
<1>. QED
  BY <1>1, <1>2, <1>3, <1>4, <1>5 DEF EpollStep

\* What a worker does with the count of its event's sock.
LEMMA WorkerPend ==
    ASSUME PoolTypes, NEW w \in Workers, WorkerStep(w)
    PROVE  pend' = pend \/ Return(w)
  BY DEF WorkerStep, Start, StartFreed, Callback, CallbackFreed, ReturnFreed, Done, Fault, mtvars

\* An object that is not created is not turned by a step of another thread into
\* anything but what accept() makes of it.
LEMMA EpollObjs ==
    ASSUME ObjTypes, EpollStep, NEW o \in Objects
    PROVE  \/ obj'[o] = obj[o]
           \/ obj[o] = "none" /\ obj'[o] \in {"live", "lost"}
<1>1. ASSUME NEW s \in Socks, AcceptFails(s) \/ \E f \in Fds : Accept(s, f)
      PROVE  obj'[o] = obj[o] \/ (obj[o] = "none" /\ obj'[o] \in {"live", "lost"})
  BY <1>1 DEF AcceptFails, Accept, Obj, ObjTypes, Objects
<1>. QED
  BY <1>1, EpollObj DEF ovars

\* The emits after any step.
LEMMA EmitNext ==
    ASSUME Types, Types', CallInv, PlaceInv, EmitInv, pend \in [Socks -> Nat], Next
    PROVE  EmitInv'
<1>. USE NetAssumption
<1>0. PoolTypes /\ PoolTypes' /\ EpollTypes /\ ObjTypes /\ MonTypes
  BY DEF Types
<1>1. ASSUME NEW t \in Threads, CallStep(t) PROVE EmitInv'
  <2>1. UNCHANGED <<pvars, epc, cur>>
    BY <1>1, CallKeeps DEF evars
  <2>2. \A e \in Events : Pool!Held(e)' = Pool!Held(e)
    BY <2>1 DEF pvars, Pool!Held, Pool!Waits
  <2>3. \A s \in Socks : EmitStep(s)
    BY <1>1, EmitCalls
  <2>4. \A s \in Socks : emit[s] # "null" => emit'[s] # "null"
    BY <2>3 DEF EmitStep
  <2>5. \A e \in Events : Pool!Held(e)' => ev_emit'[e] \in Socks /\ emit'[ev_emit'[e]] # "null"
    BY <2>1, <2>2, <2>4 DEF EmitInv, pvars
  <2>6. epc' \in {"count", "submit"} => emit'[cur'.data] # "null"
    BY <1>0, <2>1, <2>4 DEF EmitInv, EpollTypes
  <2>7. \A s \in Socks : /\ emit'[s] = "null" => pend'[s] = 0
                         /\ obj'[s] \in {"none", "lost"} => emit'[s] = "null"
                         /\ emit'[s] = "freed" => obj'[s] \in {"closing", "freed"}
    BY <2>3 DEF EmitInv, EmitStep
  <2>. QED
    BY <2>5, <2>6, <2>7 DEF EmitInv
<1>2. ASSUME NEW f \in Fds, Ready(f) PROVE EmitInv'
  BY <1>2 DEF Ready, pvars, ovars, mtvars, evars, EmitInv, Pool!Held, Pool!Waits
<1>3. CASE EpollStep
  <2>1. emit' = emit
    BY <1>3, EpollKeeps
  <2>2. \A e \in Events : Pool!Held(e)' => ev_emit'[e] \in Socks /\ emit'[ev_emit'[e]] # "null"
    BY <1>0, <1>3, <2>1, EpollHeld DEF EmitInv, EpollTypes
  <2>3. ASSUME Count
        PROVE  EmitInv'
    <3>1. /\ epc = "count" /\ cur' = cur /\ UNCHANGED ovars
          /\ pend' = [pend EXCEPT ![cur.data] = @ + 1]
      BY <2>3 DEF Count, EpollAt, Data
    <3>. QED
      BY <1>0, <2>1, <2>2, <3>1 DEF EmitInv, ovars, EpollTypes
  <2>4. CASE pend' = pend
    <3>1. ASSUME epc' \in {"count", "submit"} PROVE emit'[cur'.data] # "null"
      <4>1. ASSUME NEW e \in Events, SockDispatch(e) PROVE emit'[cur'.data] # "null"
        BY <2>1, <4>1 DEF SockDispatch, Data
      <4>. QED
        BY <1>3, <2>1, <2>3, <3>1, <4>1, EpollBusy DEF EmitInv
    <3>2. \A s \in Socks : /\ emit'[s] = "null" => pend'[s] = 0
                           /\ obj'[s] \in {"none", "lost"} => emit'[s] = "null"
                           /\ emit'[s] = "freed" => obj'[s] \in {"closing", "freed"}
      BY <1>0, <1>3, <2>1, <2>4, EpollObjs DEF EmitInv, Objects
    <3>. QED
      BY <2>2, <3>1, <3>2 DEF EmitInv
  <2>. QED
    BY <1>3, <2>3, <2>4, EpollBusy
<1>4. ASSUME NEW w \in Workers, WorkerStep(w) PROVE EmitInv'
  <2>1. UNCHANGED <<emit, obj, epc, cur>>
    BY <1>4, WorkerKeeps DEF ovars, evars
  <2>2. \A e \in Events : Pool!Held(e)' => Pool!Held(e) /\ ev_emit'[e] = ev_emit[e]
    BY <1>0, <1>4, WorkerHeldKept
  <2>3. \A s \in Socks : emit'[s] = "null" => pend'[s] = 0
    <3>1. CASE Return(w)
      <4>1. /\ hpc[w] = "callback" /\ pend' = [pend EXCEPT ![Sock(w)] = @ - 1]
        BY <3>1 DEF Return, WorkerAt
      <4>2. running[w] \in Events /\ Pool!Held(running[w])
        BY <1>0, <4>1 DEF PoolTypes, Pool!Held
      <4>3. emit[Sock(w)] # "null" /\ Sock(w) \in Socks
        BY <4>2 DEF EmitInv, Sock
      <4>. QED
        BY <2>1, <4>1, <4>3 DEF EmitInv
    <3>. QED
      BY <1>0, <1>4, <2>1, <3>1, WorkerPend DEF EmitInv
  <2>. QED
    BY <2>1, <2>2, <2>3 DEF EmitInv
<1>. QED
  BY <1>1, <1>2, <1>3, <1>4 DEF Next

-----------------------------------------------------------------------------
(* The counts.                                                              *)

\* The events that are out, and those counted for a sock, the types given.
LEMMA OutIs ==
    /\ PoolTypes => Out1 = {e \in Events : (\E w \in Workers : Has(w, e)) \/ eev = e}
    /\ PoolTypes' => Out1' = {e \in Events : (\E w \in Workers : Has(w, e)') \/ eev' = e}
  BY HeldIs DEF Out1

Counts(s, e) == \/ epc = "submit" /\ eev = e /\ cur.data = s
                \/ /\ ev_emit[e] = s
                   /\ \E w \in Workers : <<e, NORM>> \in waiting[w] \/ (running[w] = e /\ hpc[w] # "done")

\* The set and the predicate agree, the types given.
LEMMA CountedIs ==
    ASSUME NEW s \in Socks
    PROVE  /\ PoolTypes => Counted(s) = {e \in Events : Counts(s, e)}
           /\ PoolTypes' => Counted(s)' = {e \in Events : Counts(s, e)'}
<1>1. ASSUME PoolTypes, NEW e \in Events
      PROVE  Counts(s, e) <=> \/ epc = "submit" /\ eev = e /\ Data = s
                              \/ \E w \in Workers : /\ ev_emit[e] = s
                                                    /\ \/ Pool!Waits(w, e)
                                                       \/ running[w] = e /\ hpc[w] # "done"
  BY <1>1, HeldIs DEF Counts, Data
<1>2. ASSUME PoolTypes', NEW e \in Events
      PROVE  Counts(s, e)' <=> \/ epc' = "submit" /\ eev' = e /\ cur'.data = s
                               \/ \E w \in Workers : /\ ev_emit'[e] = s
                                                     /\ \/ Pool!Waits(w, e)'
                                                        \/ running'[w] = e /\ hpc'[w] # "done"
  BY <1>2, HeldIs DEF Counts
<1>. QED
  BY <1>1, <1>2 DEF Counted, Data

\* Events are taken from the cache one at a time, by the epoll thread.
LEMMA EpollCache ==
    ASSUME EpollStep
    PROVE  \/ \E e \in Events : SockDispatch(e)
           \/ \E w \in Workers : Submit(w)
           \/ UNCHANGED <<pvars, eev, cache>>
<1>1. ASSUME NEW x \in batch, Entry(x) \/ EntryFreed(x) PROVE UNCHANGED <<pvars, eev, cache>>
  BY <1>1 DEF Entry, EntryFreed, Fault, evars
<1>. QED
  BY <1>1 DEF EpollStep, EpollWait, EpollFails, EntryDone, FlagFreed, EmitMissing,
     SockRefused, Count, CountFreed, AcceptNoMem, ServOut, ServHup, ServReturns,
     AcceptFails, Accept, Fault, evars

\* Only Done gives an event back to the cache.
LEMMA WorkerCache ==
    ASSUME NEW w \in Workers, WorkerStep(w)
    PROVE  /\ \/ (\E e \in Events : Start(w, e)) /\ cache' = cache
              \/ Done(w)
              \/ UNCHANGED <<pvars, cache>>
           /\ eev' = eev
  BY WorkerKeeps
     DEF WorkerStep, Start, StartFreed, Callback, CallbackFreed, Return, ReturnFreed, Fault, evars

\* The events out of the cache after any step.
LEMMA CacheNext ==
    ASSUME PoolTypes, PoolTypes', EpollTypes, EpollTypes', PlaceInv, CacheInv, Next
    PROVE  CacheInv'
<1>. USE NetAssumption
<1>0. IsFiniteSet(Out1) /\ cache = Cardinality(Out1) /\ Cardinality(Out1) \in Nat
  BY FS_CardinalityType DEF CacheInv, CacheBalanced, Out1
<1>1. ASSUME Out1' = Out1, cache' = cache PROVE CacheInv'
  BY <1>0, <1>1 DEF CacheInv, CacheBalanced, Out1
<1>2. CASE UNCHANGED <<pvars, eev, cache>>
  BY <1>1, <1>2, OutIs DEF pvars, Has
<1>3. ASSUME NEW e \in Events, SockDispatch(e) PROVE CacheInv'
  <2>1. /\ epc = "cb" /\ ~Pool!Held(e) /\ eev' = e /\ cache' = cache + 1 /\ UNCHANGED pvars
    BY <1>3 DEF SockDispatch, AtFlag, EpollAt, FreeEvents
  <2>2. e \notin Out1
    BY <2>1 DEF Out1, EpollTypes
  <2>3. Out1' = Out1 \cup {e}
    BY <2>1, OutIs DEF pvars, Has, EpollTypes
  <2>4. IsFiniteSet(Out1') /\ Cardinality(Out1') = Cardinality(Out1) + 1
    BY <1>0, <2>2, <2>3, FS_AddElement
  <2>. QED
    BY <1>0, <2>1, <2>4 DEF CacheInv, CacheBalanced, Out1
<1>4. ASSUME NEW w \in Workers, Submit(w) PROVE CacheInv'
  <2>1. /\ eev \in Events /\ eev' = NoEvent /\ running' = running /\ cache' = cache
        /\ waiting' = [waiting EXCEPT ![w] = @ \cup {<<eev, NORM>>}]
    BY <1>4, SubmitIs
  <2>2. \A v \in Workers, e \in Events : Has(v, e)' <=> Has(v, e) \/ (v = w /\ e = eev)
    BY <2>1 DEF Has, PoolTypes
  <2>3. Out1' = Out1
    BY <2>1, <2>2, OutIs
  <2>. QED
    BY <1>1, <2>1, <2>3
<1>5. ASSUME NEW w \in Workers, NEW e \in Events, Start(w, e), eev' = eev, cache' = cache PROVE CacheInv'
  <2>1. /\ <<e, NORM>> \in waiting[w] /\ running[w] = NoEvent
        /\ waiting' = [waiting EXCEPT ![w] = @ \ {<<e, NORM>>}]
        /\ running' = [running EXCEPT ![w] = e]
    BY <1>5, StartIs
  <2>2. \A v \in Workers, d \in Events : Has(v, d)' <=> Has(v, d)
    BY <2>1 DEF Has, PoolTypes
  <2>3. Out1' = Out1
    BY <1>5, <2>2, OutIs
  <2>. QED
    BY <1>1, <1>5, <2>3
<1>6. ASSUME NEW w \in Workers, Done(w), eev' = eev PROVE CacheInv'
  <2>1. /\ waiting' = waiting /\ running[w] \in Events
        /\ running' = [running EXCEPT ![w] = NoEvent]
    BY <1>6, DoneIs
  <2>2. Has(w, running[w])
    BY DEF Has
  <2>3. \A v \in Workers, d \in Events : Has(v, d)' <=> Has(v, d) /\ d # running[w]
    BY <2>1, <2>2 DEF Has, PoolTypes, PlaceInv
  <2>4. eev # running[w]
    BY <2>1, <2>2 DEF PlaceInv, EpollTypes
  <2>5. Out1' = Out1 \ {running[w]} /\ running[w] \in Out1
    BY <1>6, <2>1, <2>2, <2>3, <2>4, OutIs
  <2>6. IsFiniteSet(Out1') /\ Cardinality(Out1') = Cardinality(Out1) - 1
    <3>1. ASSUME NEW S, IsFiniteSet(S), NEW e \in S
          PROVE  IsFiniteSet(S \ {e}) /\ Cardinality(S \ {e}) = Cardinality(S) - 1
      BY <3>1, FS_RemoveElement
    <3>. QED
      BY <1>0, <2>5, <3>1
  <2>7. cache' = cache - 1
    BY <1>6 DEF Done
  <2>. QED
    BY <1>0, <2>6, <2>7 DEF CacheInv, CacheBalanced, Out1
<1>7. ASSUME NEW f \in Fds, Ready(f) PROVE UNCHANGED <<pvars, eev, cache>>
  BY <1>7 DEF Ready, evars
<1>8. ASSUME NEW t \in Threads, CallStep(t) PROVE UNCHANGED <<pvars, eev, cache>>
  BY <1>8, CallKeeps DEF evars
<1>9. ASSUME NEW w \in Workers, WorkerStep(w) PROVE CacheInv'
  <2>1. eev' = eev
    BY <1>9, WorkerCache
  <2>. QED
    BY <1>2, <1>5, <1>6, <1>9, <2>1, WorkerCache
<1>. QED
  BY <1>2, <1>3, <1>4, <1>7, <1>8, <1>9, EpollCache DEF Next

\* An event that is counted is out.
LEMMA CountedOut ==
    ASSUME PoolTypes, NEW s \in Socks
    PROVE  Counted(s) \subseteq Out1
<1>1. \A e \in Events : Counts(s, e) => eev = e \/ \E w \in Workers : Has(w, e)
  BY DEF Counts, Has
<1>. QED
  BY <1>1, OutIs, CountedIs

\* The same events are counted for a sock when each is counted as before.
LEMMA CountedSame ==
    ASSUME PoolTypes, PoolTypes', NEW s \in Socks, \A e \in Events : Counts(s, e)' <=> Counts(s, e)
    PROVE  Counted(s)' = Counted(s)
  BY CountedIs

\* The events counted stay the same when nothing moves them.
LEMMA CountedKept ==
    ASSUME PoolTypes, PoolTypes', UNCHANGED <<pvars, hpc>>,
           \/ epc # "submit" /\ epc' # "submit"
           \/ UNCHANGED <<epc, eev, cur>>,
           NEW s \in Socks
    PROVE  Counted(s)' = Counted(s)
<1>1. \A e \in Events : Counts(s, e)' <=> Counts(s, e)
  BY DEF Counts, pvars
<1>. QED
  BY <1>1, CountedSame

\* The counts after a call.
LEMMA PendCalls ==
    ASSUME Types, Types', CallInv, EmitInv, PendInv, NEW t \in Threads, CallStep(t)
    PROVE  PendInv'
<1>. USE NetAssumption
<1>0. PoolTypes /\ PoolTypes' /\ EpollTypes
  BY DEF Types
<1>1. pend' \in [Socks -> Nat]
  <2>1. CASE DestroyFrees(t)
    BY <2>1 DEF DestroyFrees, PendInv
  <2>2. pend' = pend \/ DestroyFrees(t)
    BY DEF CallStep, Create, CreateNoEmit, SocketOpens, SocketFails, Set, AddFd, AddNoMem, AddWatch,
         AddRefused, Mark, Refuse, Listen, SockDestroy, ServDestroy, Close, Foreign, DestroyNull,
         DestroyRefused, DestroyTested, DestroyKills, Free, Fault, mtvars
  <2>. QED
    BY <2>1, <2>2 DEF PendInv
<1>2. ASSUME NEW s \in Socks, emit'[s] \in {"live", "dead"}
      PROVE  pend'[s] = Cardinality(Counted(s)')
  <2>1. EmitStep(s) /\ pend'[s] = pend[s]
    BY <1>2, EmitCalls DEF PendInv, EmitStep
  <2>2. Counted(s)' = Counted(s)
    BY <1>0, CallKeeps, CountedKept DEF evars
  <2>3. CASE emit[s] \in {"live", "dead"}
    BY <2>1, <2>2, <2>3 DEF PendInv, PendExact, Counted
  <2>4. CASE emit[s] = "null"
    <3>1. Counted(s) = {}
      <4>1. \A e \in Events : ~Counts(s, e)
        <5>1. \A e \in Events : ev_emit[e] = s => \A w \in Workers : ~Has(w, e)
          BY <1>0, <2>4, HeldIs DEF EmitInv
        <5>. QED
          BY <2>4, <5>1 DEF Counts, Has, EmitInv
      <4>. QED
        BY <1>0, <4>1, CountedIs
    <3>. QED
      BY <2>1, <2>2, <2>4, <3>1, FS_EmptySet DEF EmitInv
  <2>. QED
    BY <1>2, <2>1, <2>3, <2>4 DEF EmitStep
<1>. QED
  BY <1>1, <1>2 DEF PendInv, PendExact, Counted

\* Only Count and Submit matter to what the epoll thread has counted.
LEMMA EpollSubmit ==
    ASSUME EpollStep
    PROVE  \/ Count
           \/ \E w \in Workers : Submit(w)
           \/ epc # "submit" /\ epc' # "submit" /\ UNCHANGED <<pvars, pend>>
<1>. USE DEF EpollAt, AtFlag, Fault, evars, mtvars
<1>1. ASSUME NEW x \in batch, Entry(x) \/ EntryFreed(x)
      PROVE  epc # "submit" /\ epc' # "submit" /\ UNCHANGED <<pvars, pend>>
  BY <1>1 DEF Entry, EntryFreed
<1>2. CASE EpollWait \/ EpollFails \/ EntryDone \/ FlagFreed \/ EmitMissing \/ SockRefused
           \/ CountFreed \/ AcceptNoMem \/ ServOut \/ ServHup \/ ServReturns
  BY <1>2 DEF EpollWait, EpollFails, EntryDone, FlagFreed, EmitMissing, SockRefused, CountFreed,
              AcceptNoMem, ServOut, ServHup, ServReturns
<1>3. ASSUME NEW e \in Events, SockDispatch(e)
      PROVE  epc # "submit" /\ epc' # "submit" /\ UNCHANGED <<pvars, pend>>
  BY <1>3 DEF SockDispatch
<1>4. ASSUME NEW s \in Socks, AcceptFails(s) \/ \E f \in Fds : Accept(s, f)
      PROVE  epc # "submit" /\ epc' # "submit" /\ UNCHANGED <<pvars, pend>>
  BY <1>4 DEF AcceptFails, Accept
<1>. QED
  BY <1>1, <1>2, <1>3, <1>4 DEF EpollStep

\* The counts after a step of the epoll thread.
LEMMA PendEpoll ==
    ASSUME Types, Types', PlaceInv, CacheInv, PendInv, EpollStep
    PROVE  PendInv'
<1>. USE NetAssumption
<1>0. PoolTypes /\ PoolTypes' /\ EpollTypes
  BY DEF Types
<1>1. emit' = emit /\ UNCHANGED <<running, hpc>>
  BY EpollKeeps
<1>2. CASE Count
  <2>1. /\ epc = "count" /\ epc' = "submit" /\ UNCHANGED <<pvars, cur, eev, hpc>>
        /\ pend' = [pend EXCEPT ![cur.data] = @ + 1] /\ eev \in Events /\ cur.data \in Socks
    BY <1>0, <1>2 DEF Count, EpollAt, Data, EpollTypes
  <2>2. ASSUME NEW s \in Socks, s # cur.data PROVE Counted(s)' = Counted(s) /\ pend'[s] = pend[s]
    <3>1. \A e \in Events : Counts(s, e)' <=> Counts(s, e)
      BY <2>1, <2>2 DEF Counts, pvars
    <3>2. Counted(s)' = Counted(s)
      BY <1>0, <3>1, CountedSame
    <3>. QED
      BY <2>1, <2>2, <3>2 DEF PendInv
  <2>3. PICK s \in Socks : s = cur.data
    BY <2>1
  <2>4. Counted(s)' = Counted(s) \cup {eev}
    <3>1. \A e \in Events : Counts(s, e)' <=> Counts(s, e) \/ e = eev
      BY <2>1, <2>3 DEF Counts, pvars
    <3>. QED
      BY <1>0, <2>1, <3>1, CountedIs
  <2>5. eev \notin Counted(s)
    <3>1. ~Counts(s, eev)
      BY <2>1 DEF Counts, PlaceInv, Has
    <3>. QED
      BY <1>0, <3>1, CountedIs
  <2>6. IsFiniteSet(Counted(s))
    BY <1>0, CountedOut, FS_Subset DEF CacheInv
  <2>7. Cardinality(Counted(s)') = Cardinality(Counted(s)) + 1
    BY <2>4, <2>5, <2>6, FS_AddElement
  <2>8. pend'[s] = pend[s] + 1 /\ pend' \in [Socks -> Nat]
    BY <2>1, <2>3 DEF PendInv
  <2>9. ASSUME NEW p \in Socks, emit'[p] \in {"live", "dead"}
        PROVE  pend'[p] = Cardinality(Counted(p)')
    <3>1. pend[p] = Cardinality(Counted(p))
      BY <1>1, <2>9 DEF PendInv, PendExact, Counted
    <3>. QED
      BY <2>2, <2>3, <2>7, <2>8, <3>1
  <2>. QED
    BY <2>8, <2>9 DEF PendInv, PendExact, Counted
<1>3. ASSUME UNCHANGED <<emit, pend>>, \A s \in Socks : Counted(s)' = Counted(s)
      PROVE  PendInv'
  BY <1>3 DEF PendInv, PendExact, Counted
<1>4. ASSUME NEW w \in Workers, Submit(w) PROVE PendInv'
  <2>1. /\ epc = "submit" /\ eev \in Events /\ ~Pool!Held(eev) /\ cur.data \in Socks
        /\ waiting' = [waiting EXCEPT ![w] = @ \cup {<<eev, NORM>>}]
        /\ ev_emit' = [ev_emit EXCEPT ![eev] = cur.data]
        /\ epc' = "cb" /\ eev' = NoEvent /\ pend' = pend
    BY <1>0, <1>4, SubmitIs
  <2>2. \A v \in Workers : ~Has(v, eev)
    BY <1>0, <2>1, HeldIs
  <2>3. ASSUME NEW s \in Socks PROVE Counted(s)' = Counted(s)
    <3>1. ASSUME NEW e \in Events
          PROVE  Counts(s, e)' <=> Counts(s, e)
      <4>1. CASE e = eev
        BY <1>0, <1>1, <2>1, <2>2, <4>1 DEF Counts, Has, PoolTypes
      <4>2. CASE e # eev
        BY <1>0, <1>1, <2>1, <4>2 DEF Counts, PoolTypes
      <4>. QED
        BY <4>1, <4>2
    <3>. QED
      BY <1>0, <3>1, CountedSame
  <2>. QED
    BY <1>1, <1>3, <2>1, <2>3
<1>5. CASE epc # "submit" /\ epc' # "submit" /\ UNCHANGED <<pvars, pend>>
  BY <1>0, <1>1, <1>3, <1>5, CountedKept
<1>. QED
  BY <1>2, <1>4, <1>5, EpollSubmit

\* The counts after a step of a worker.
LEMMA PendWorker ==
    ASSUME Types, Types', PlaceInv, EmitInv, CacheInv, PendInv, NEW w \in Workers, WorkerStep(w)
    PROVE  PendInv'
<1>. USE NetAssumption
<1>0. PoolTypes /\ PoolTypes' /\ EpollTypes
  BY DEF Types
<1>1. UNCHANGED <<emit, epc, cur, eev>>
  BY WorkerKeeps DEF evars
<1>2. ASSUME pend' = pend, \A s \in Socks : Counted(s)' = Counted(s)
      PROVE  PendInv'
  BY <1>1, <1>2 DEF PendInv, PendExact, Counted
<1>3. CASE Return(w)
  <2>1. /\ hpc[w] = "callback" /\ hpc' = [hpc EXCEPT ![w] = "done"] /\ UNCHANGED pvars
        /\ pend' = [pend EXCEPT ![Sock(w)] = @ - 1] /\ emit[Sock(w)] # "freed"
    BY <1>3 DEF Return, WorkerAt, At
  <2>2. running[w] \in Events /\ Has(w, running[w])
    BY <1>0, <2>1 DEF PoolTypes, Has
  <2>3. PICK s \in Socks : s = Sock(w) /\ emit[s] # "null"
    BY <2>2, HeldIs, <1>0 DEF EmitInv, Sock
  <2>4. emit[s] \in {"live", "dead"}
    BY <2>1, <2>3 DEF Types, ObjTypes
  <2>5. running[w] \in Counted(s)
    <3>1. Counts(s, running[w])
      BY <2>1, <2>3 DEF Sock, Counts
    <3>. QED
      BY <1>0, <2>2, <3>1, CountedIs
  <2>6. Counted(s)' = Counted(s) \ {running[w]}
    <3>1. ASSUME NEW e \in Events
          PROVE  Counts(s, e)' <=> Counts(s, e) /\ e # running[w]
      <4>1. CASE e = running[w]
        <5>1. \A v \in Workers : running[v] = e \/ <<e, NORM>> \in waiting[v] => v = w /\ <<e, NORM>> \notin waiting[v]
          BY <2>2, <4>1 DEF PlaceInv, Has
        <5>2. ~(epc = "submit" /\ eev = e)
          BY <2>2, <4>1 DEF PlaceInv
        <5>. QED
          BY <1>0, <1>1, <2>1, <4>1, <5>1, <5>2 DEF pvars, PoolTypes, Counts
      <4>2. CASE e # running[w]
        BY <1>0, <1>1, <2>1, <4>2 DEF pvars, PoolTypes, Counts
      <4>. QED
        BY <4>1, <4>2
    <3>. QED
      BY <1>0, <3>1, CountedIs
  <2>7. ASSUME NEW p \in Socks, p # s PROVE Counted(p)' = Counted(p) /\ pend'[p] = pend[p]
    <3>1. ASSUME NEW e \in Events PROVE Counts(p, e)' <=> Counts(p, e)
      <4>1. CASE ev_emit[e] = p
        <5>1. running[w] # e
          BY <2>3, <2>7, <4>1 DEF Sock
        <5>. QED
          BY <1>0, <1>1, <2>1, <5>1 DEF pvars, PoolTypes, Counts
      <4>2. CASE ev_emit[e] # p
        BY <1>1, <2>1, <4>2 DEF pvars, Counts
      <4>. QED
        BY <4>1, <4>2
    <3>2. Counted(p)' = Counted(p)
      BY <1>0, <3>1, CountedSame
    <3>. QED
      BY <2>1, <2>3, <2>7, <3>2 DEF PendInv
  <2>8. IsFiniteSet(Counted(s))
    BY <1>0, CountedOut, FS_Subset DEF CacheInv
  <2>9. Cardinality(Counted(s)') = Cardinality(Counted(s)) - 1 /\ Cardinality(Counted(s)') \in Nat
    <3>1. ASSUME NEW S, IsFiniteSet(S), NEW e \in S
          PROVE  Cardinality(S \ {e}) = Cardinality(S) - 1 /\ Cardinality(S \ {e}) \in Nat
      BY <3>1, FS_RemoveElement, FS_CardinalityType
    <3>. QED
      BY <2>5, <2>6, <2>8, <3>1
  <2>10. pend[s] = Cardinality(Counted(s))
    BY <2>4 DEF PendInv, PendExact, Counted
  <2>11. pend'[s] = pend[s] - 1
    BY <2>1, <2>3 DEF PendInv
  <2>12. pend' \in [Socks -> Nat]
    BY <2>1, <2>3, <2>9, <2>10, <2>11 DEF PendInv
  <2>13. ASSUME NEW p \in Socks, emit'[p] \in {"live", "dead"}
        PROVE  pend'[p] = Cardinality(Counted(p)')
    <3>1. pend[p] = Cardinality(Counted(p))
      BY <1>1, <2>13 DEF PendInv, PendExact, Counted
    <3>. QED
      BY <2>7, <2>9, <2>10, <2>11, <3>1
  <2>. QED
    BY <2>12, <2>13 DEF PendInv, PendExact, Counted
<1>4. ASSUME NEW e \in Events, Start(w, e) PROVE PendInv'
  <2>1. /\ <<e, NORM>> \in waiting[w] /\ hpc[w] = "idle" /\ running[w] = NoEvent
        /\ waiting' = [waiting EXCEPT ![w] = @ \ {<<e, NORM>>}]
        /\ running' = [running EXCEPT ![w] = e]
        /\ hpc' = [hpc EXCEPT ![w] = "handler"] /\ ev_emit' = ev_emit
    BY <1>0, <1>4, StartIs
  <2>2. ASSUME NEW s \in Socks PROVE Counted(s)' = Counted(s)
    <3>1. ASSUME NEW d \in Events PROVE Counts(s, d)' <=> Counts(s, d)
      <4>1. CASE d = e
        BY <1>0, <1>1, <2>1, <4>1 DEF PoolTypes, Counts
      <4>2. CASE d # e
        BY <1>0, <1>1, <2>1, <4>2 DEF PoolTypes, Counts
      <4>. QED
        BY <4>1, <4>2
    <3>. QED
      BY <1>0, <3>1, CountedSame
  <2>3. pend' = pend
    BY <1>4 DEF Start, mtvars
  <2>. QED
    BY <1>2, <2>2, <2>3
<1>5. CASE Done(w)
  <2>1. /\ hpc[w] = "done" /\ running[w] \in Events
        /\ hpc' = [hpc EXCEPT ![w] = "idle"] /\ waiting' = waiting
        /\ running' = [running EXCEPT ![w] = NoEvent]
        /\ ev_emit' = [ev_emit EXCEPT ![running[w]] = NoObj]
    BY <1>0, <1>5, DoneIs
  <2>2. ASSUME NEW s \in Socks PROVE Counted(s)' = Counted(s)
    <3>1. ASSUME NEW d \in Events PROVE Counts(s, d)' <=> Counts(s, d)
      <4>1. CASE d = running[w]
        <5>1. Has(w, d)
          BY <4>1 DEF Has
        <5>2. \A v \in Workers : running[v] = d \/ <<d, NORM>> \in waiting[v] => v = w /\ <<d, NORM>> \notin waiting[v]
          BY <5>1, <4>1 DEF PlaceInv, Has
        <5>3. ~(epc = "submit" /\ eev = d)
          BY <5>1 DEF PlaceInv
        <5>4. ev_emit'[d] # s
          BY <1>0, <2>1, <4>1 DEF PoolTypes, Objects
        <5>. QED
          BY <1>0, <1>1, <2>1, <4>1, <5>2, <5>3, <5>4 DEF Counts
      <4>2. CASE d # running[w]
        BY <1>0, <1>1, <2>1, <4>2 DEF PoolTypes, Counts
      <4>. QED
        BY <4>1, <4>2
    <3>. QED
      BY <1>0, <3>1, CountedSame
  <2>3. pend' = pend
    BY <1>5 DEF Done, mtvars
  <2>. QED
    BY <1>2, <2>2, <2>3
<1>6. CASE Callback(w)
  <2>1. /\ hpc[w] = "handler" /\ hpc' = [hpc EXCEPT ![w] = "callback"] /\ UNCHANGED <<pvars, pend>>
    BY <1>6 DEF Callback, WorkerAt, At, mtvars
  <2>2. ASSUME NEW s \in Socks PROVE Counted(s)' = Counted(s)
    <3>1. \A v \in Workers : hpc'[v] # "done" <=> hpc[v] # "done"
      BY <1>0, <2>1 DEF PoolTypes
    <3>2. \A e \in Events : Counts(s, e)' <=> Counts(s, e)
      BY <1>1, <2>1, <3>1 DEF Counts, pvars
    <3>. QED
      BY <1>0, <3>2, CountedSame
  <2>. QED
    BY <1>2, <2>1, <2>2
<1>7. CASE UNCHANGED <<pvars, hpc, pend>>
  BY <1>0, <1>1, <1>2, <1>7, CountedKept
<1>. QED
  BY <1>3, <1>4, <1>5, <1>6, <1>7
     DEF WorkerStep, StartFreed, CallbackFreed, ReturnFreed, Fault, mtvars

\* The counts after any step.
LEMMA PendNext ==
    ASSUME Types, Types', CallInv, PlaceInv, EmitInv, CacheInv, PendInv, Next
    PROVE  PendInv'
<1>1. ASSUME NEW f \in Fds, Ready(f) PROVE PendInv'
  <2>1. UNCHANGED <<emit, pend, pvars, hpc, epc, eev, cur>> /\ PoolTypes /\ PoolTypes'
    BY <1>1 DEF Ready, mtvars, evars, Types
  <2>2. \A s \in Socks : Counted(s)' = Counted(s)
    BY <2>1, CountedKept
  <2>. QED
    BY <2>1, <2>2 DEF PendInv, PendExact, Counted
<1>. QED
  BY <1>1, PendCalls, PendEpoll, PendWorker DEF Next

-----------------------------------------------------------------------------
(* What reaches an object.                                                  *)

\* No call lets anything reach an object but the one it works on.
LEMMA ActiveCalls ==
    ASSUME Types, CallInv, NEW t \in Threads, CallStep(t), NEW o \in Objects, ~Active(o),
           obj[o] \in {"closing", "freed"} \/ cobj[t] # o
    PROVE  ~Active(o)'
<1>. USE NetAssumption
<1>0. MonTypes /\ KernelTypes /\ CallTypes /\ CallAt(t)
  BY DEF Types, CallInv
<1>1. UNCHANGED <<pvars, batch, cur>>
  BY CallKeeps DEF evars
<1>. DEFINE Less == /\ \A f \in Fds : f \in edge' /\ holder'[f] = o => f \in edge /\ holder[f] = o
                    /\ \A i \in Ioes : ioe_data'[i] = o => ioe_data[i] = o
<1>2. SUFFICES Less
  <2>1. \A f : f \in edge' => f \in Fds
    BY <1>0, CallTypesStep DEF Types, KernelTypes
  <2>2. \A x \in batch : x.ioe \in Ioes
    BY DEF Types, EpollTypes
  <2>. QED
    BY <1>1, <2>1, <2>2 DEF Active, pvars, Pool!Held, Pool!Waits
<1>. HIDE DEF Less
<1>3. CASE UNCHANGED <<edge, holder, ioe_data>>
  BY <1>3 DEF Less
<1>4. CASE CallFault(t)
  BY <1>3, <1>4, CallFaultIs DEF core, kvars, mvars
<1>5. ASSUME (\E p \in Objects : Create(t, p))
             \/ (\E s \in Socks : CreateNoEmit(t, s) \/ Set(t, s) \/ SockDestroy(t, s))
      PROVE  Less
  BY <1>3, <1>5 DEF Create, CreateNoEmit, Set, SockDestroy, kvars, mvars
<1>6. ASSUME NEW v \in Servs, Listen(t, v) \/ ServDestroy(t, v) PROVE Less
  <2>1. CASE UNCHANGED <<edge, holder, ioe_data>>
    BY <1>3, <2>1
  <2>2. /\ edge' \subseteq edge /\ holder' = holder
        /\ \/ ioe_data' = ioe_data
           \/ \E i : ioe_data' = [ioe_data EXCEPT ![i] = NoObj]
    BY <1>6 DEF Listen, ServDestroy, mvars
  <2>. QED
    BY <1>0, <2>2 DEF Less, MonTypes
<1>7. ASSUME cobj[t] \in Objects, NEW f \in Fds, SocketOpens(t, f) PROVE Less
  <2>1. cobj[t] # o
    BY <1>0, <1>7 DEF SocketOpens, In, CallAt
  <2>. QED
    BY <1>0, <1>7, <2>1 DEF SocketOpens, Less, KernelTypes, mvars
<1>8. ASSUME cobj[t] \in Objects, NEW i \in Ioes, AddFd(t, i) \/ AddWatch(t, i) \/ AddRefused(t, i)
      PROVE  Less
  <2>1. cobj[t] # o
    BY <1>0, <1>8 DEF AddFd, AddWatch, AddRefused, In, CallAt, In_
  <2>2. CASE AddFd(t, i)
    BY <1>0, <2>1, <2>2 DEF AddFd, Less, MonTypes, kvars
  <2>3. CASE AddWatch(t, i)
    BY <1>0, <2>1, <2>3 DEF AddWatch, Less
  <2>4. CASE AddRefused(t, i)
    BY <1>0, <2>1, <2>4 DEF AddRefused, Less, MonTypes, kvars
  <2>. QED
    BY <1>8, <2>2, <2>3, <2>4
<1>9. CASE SocketFails(t) \/ AddNoMem(t) \/ Mark(t) \/ DestroyRefused(t) \/ DestroyTested(t)
           \/ DestroyKills(t) \/ DestroyFrees(t) \/ Free(t)
  BY <1>3, <1>9 DEF SocketFails, AddNoMem, Mark, DestroyRefused, DestroyTested, DestroyKills,
                    DestroyFrees, Free, kvars, mvars
<1>10. CASE cobj[t] \in Objects /\ (Refuse(t) \/ Close(t))
  <2>1. /\ es_sock[cobj[t]] \in Fds /\ CloseSock(cobj[t]) /\ ioe_data' = ioe_data
    BY <1>0, <1>10 DEF Refuse, Close, In, In_, Out, CallAt
  <2>2. PICK p \in Objects : p = cobj[t]
    BY <1>10
  <2>3. \/ UNCHANGED <<holder, edge>>
        \/ holder' = [holder EXCEPT ![es_sock[p]] = NoObj] /\ edge' = edge \ {es_sock[p]}
    BY <1>0, <2>1, <2>2, Closes
  <2>. QED
    BY <1>0, <2>1, <2>3 DEF Less, KernelTypes
<1>. QED
  BY <1>0, <1>4, <1>5, <1>6, <1>7, <1>8, <1>9, <1>10, CallCases

\* The batch is filled by epoll_wait only.
LEMMA EpollBatch ==
    ASSUME EpollStep
    PROVE  EpollWait \/ batch' \subseteq batch
<1>1. ASSUME NEW x \in batch, Entry(x) \/ EntryFreed(x) PROVE batch' \subseteq batch
  BY <1>1 DEF Entry, EntryFreed, Fault, evars
<1>2. ASSUME NEW s \in Socks, AcceptFails(s) \/ \E f \in Fds : Accept(s, f) PROVE batch' \subseteq batch
  BY <1>2 DEF AcceptFails, Accept
<1>3. ASSUME NEW w \in Workers, Submit(w) PROVE batch' \subseteq batch
  BY <1>3 DEF Submit
<1>4. ASSUME NEW e \in Events, SockDispatch(e) PROVE batch' \subseteq batch
  BY <1>4 DEF SockDispatch
<1>. QED
  BY <1>1, <1>2, <1>3, <1>4 DEF EpollStep, EpollFails, EntryDone, FlagFreed, EmitMissing,
     SockRefused, Count, CountFreed, AcceptNoMem, ServOut, ServHup, ServReturns, Fault, evars

\* Nor does the epoll thread.
LEMMA ActiveEpoll ==
    ASSUME Types, Types', WatchInv, EpollStep, NEW o \in Objects, ~Active(o), obj[o] # "none"
    PROVE  ~Active(o)'
<1>. USE NetAssumption
<1>0. MonTypes /\ KernelTypes /\ EpollTypes /\ PoolTypes /\ PoolTypes'
  BY DEF Types
<1>1. \A e \in Events : Pool!Held(e)' => ev_emit'[e] # o
  BY <1>0, EpollHeld DEF Active
<1>2. ioe_data' = ioe_data
  BY EpollKeeps
<1>3. cur'.data # o
  BY <1>0, EpollCur DEF Active, Entry
<1>4. \A f \in Fds : f \in edge' /\ holder'[f] = o => f \in edge /\ holder[f] = o
  <2>1. ASSUME NEW s \in Socks, NEW f \in Fds, Accept(s, f) PROVE s # o /\ edge' = edge /\ holder' = [holder EXCEPT ![f] = s]
    BY <2>1 DEF Accept
  <2>2. (\E s \in Socks, f \in Fds : Accept(s, f)) \/ (holder' = holder /\ edge' \subseteq edge)
    <3>1. ASSUME NEW s \in Socks, AcceptFails(s) PROVE holder' = holder /\ edge' = edge
      BY <3>1 DEF AcceptFails, kvars
    <3>2. EpollWait \/ EpollFails => holder' = holder /\ edge' \subseteq edge
      BY DEF EpollWait, EpollFails
    <3>3. ~(EpollWait \/ EpollFails) => edge' = edge
      BY EpollMon
    <3>. QED
      BY <3>1, <3>2, <3>3, EpollObj
  <2>. QED
    BY <1>0, <2>1, <2>2 DEF KernelTypes
<1>5. \A x \in batch' : ioe_data'[x.ioe] # o
  <2>1. CASE batch' \subseteq batch
    BY <1>2, <2>1 DEF Active
  <2>2. CASE EpollWait
    <3>1. PICK r : batch' = {[ioe |-> watch[f], ev |-> r[f]] : f \in {g \in edge : r[g] # {}}}
      BY <2>2 DEF EpollWait
    <3>2. \A f \in edge : ioe_data[watch[f]] # o
      BY <1>0 DEF Active, WatchInv, KernelTypes
    <3>. QED
      BY <1>2, <3>1, <3>2
  <2>3. EpollWait \/ batch' \subseteq batch
    BY EpollBatch
  <2>. QED
    BY <2>1, <2>2, <2>3
<1>6. \A f : f \in edge' => f \in Fds
  BY DEF Types, KernelTypes
<1>. QED
  BY <1>1, <1>3, <1>4, <1>5, <1>6 DEF Active

\* Nor does a worker.
LEMMA ActiveWorker ==
    ASSUME Types, Types', PlaceInv, NEW w \in Workers, WorkerStep(w), NEW o \in Objects, ~Active(o)
    PROVE  ~Active(o)'
<1>1. UNCHANGED <<ioe_data, edge, holder, batch, cur>>
  BY WorkerKeeps DEF mvars, kvars, evars
<1>2. \A e \in Events : Pool!Held(e)' => ev_emit'[e] # o
  BY WorkerHeldKept DEF Active, Types
<1>. QED
  BY <1>1, <1>2 DEF Active

\* A call takes nothing back that was said of a noisy object, and which calls
\* destroy an object.
LEMMA CallNoisy ==
    ASSUME ObjTypes, NEW t \in Threads, CallStep(t)
    PROVE  /\ noisy \subseteq noisy'
           /\ \A o \in Objects : obj'[o] \in {"closing", "freed"} =>
                 \/ obj[o] \in {"closing", "freed"}
                 \/ o \in Socks /\ SockDestroy(t, o)
                 \/ o \in Servs /\ ServDestroy(t, o)
                 \/ o = cobj[t] /\ SocketFails(t)
                 \/ o = cobj[t] /\ o \in Servs /\ Refuse(t)
                 \/ o = cobj[t] /\ Free(t)
<1>. USE NetAssumption DEF Obj, avars, ovars, ObjTypes
<1>1. (\A o \in Objects : Create(t, o) => UNCHANGED noisy /\ obj' = [obj EXCEPT ![o] = "new"])
  BY DEF Create
<1>2. \A s \in Socks : /\ CreateNoEmit(t, s) => UNCHANGED noisy /\ obj' = [obj EXCEPT ![s] = "lost"]
                       /\ Set(t, s) => UNCHANGED <<noisy, obj>>
                       /\ SockDestroy(t, s) => /\ noisy \subseteq noisy'
                                               /\ obj' = [obj EXCEPT ![s] = "closing"]
  BY DEF CreateNoEmit, Set, SockDestroy
<1>3. \A v \in Servs : /\ Listen(t, v) => UNCHANGED <<noisy, obj>>
                       /\ ServDestroy(t, v) => /\ noisy \subseteq noisy'
                                               /\ obj' = [obj EXCEPT ![v] = "closing"]
  BY DEF Listen, ServDestroy
<1>4. (\E f \in Fds : SocketOpens(t, f)) \/ (\E i \in Ioes : AddFd(t, i) \/ AddWatch(t, i) \/ AddRefused(t, i))
      => UNCHANGED <<noisy, obj>>
  BY DEF SocketOpens, AddFd, AddWatch, AddRefused
<1>5. /\ SocketFails(t) \/ Free(t) => UNCHANGED noisy /\ obj' = [obj EXCEPT ![cobj[t]] = "freed"]
      /\ Mark(t) => UNCHANGED noisy /\ obj' = [obj EXCEPT ![cobj[t]] = "live"]
      /\ Refuse(t) => /\ UNCHANGED noisy
                      /\ obj' = [obj EXCEPT ![cobj[t]] = IF cobj[t] \in Servs THEN "freed" ELSE "live"]
  BY DEF SocketFails, Free, Mark, Refuse
<1>6. AddNoMem(t) \/ Close(t) \/ Foreign(t) \/ DestroyNull(t) \/ DestroyRefused(t)
      \/ DestroyTested(t) \/ DestroyKills(t) \/ DestroyFrees(t) => UNCHANGED <<noisy, obj>>
  BY DEF AddNoMem, Close, Foreign, DestroyNull, DestroyRefused, DestroyTested, DestroyKills,
         DestroyFrees, Fault
<1>7. noisy \subseteq noisy'
  BY <1>1, <1>2, <1>3, <1>4, <1>5, <1>6 DEF CallStep
<1>8. ASSUME NEW o \in Objects, obj'[o] \in {"closing", "freed"}, obj[o] \notin {"closing", "freed"}
      PROVE  \/ o \in Socks /\ SockDestroy(t, o)
             \/ o \in Servs /\ ServDestroy(t, o)
             \/ o = cobj[t] /\ SocketFails(t)
             \/ o = cobj[t] /\ o \in Servs /\ Refuse(t)
             \/ o = cobj[t] /\ Free(t)
  BY <1>1, <1>2, <1>3, <1>4, <1>5, <1>6, <1>8 DEF CallStep, Objects
<1>. QED
  BY <1>7, <1>8

\* What is quiet stays so in a call.
LEMMA QuietCalls ==
    ASSUME Types, Types', CallInv, HoldInv, IoeInv, UnusedInv, EntryInv, QuietInv,
           NEW t \in Threads, CallStep(t)
    PROVE  QuietInv'
<1>. USE NetAssumption
<1>0. MonTypes /\ KernelTypes /\ ObjTypes /\ CallTypes /\ EpollTypes /\ PoolTypes /\ PoolTypes' /\ CallAt(t)
  BY DEF Types, CallInv
<1>1. SUFFICES ASSUME NEW o \in Objects, obj'[o] \in {"closing", "freed"},
                      noisy' = {} \/ o \in Socks \ noisy'
               PROVE  ~Active(o)'
  BY DEF QuietInv
<1>2. noisy = {} \/ o \in Socks \ noisy
  BY <1>0, <1>1, CallNoisy
<1>3. CASE obj[o] \in {"closing", "freed"}
  BY <1>2, <1>3, ActiveCalls DEF QuietInv
<1>4. CASE \/ o \in Socks /\ SockDestroy(t, o)
           \/ o \in Servs /\ ServDestroy(t, o)
  <2>1. ~Active(o) /\ cobj[t] # o
    BY <1>1, <1>4 DEF SockDestroy, ServDestroy, MayUse
  <2>. QED
    BY <2>1, ActiveCalls
<1>5. CASE o = cobj[t] /\ SocketFails(t)
  <2>1. es_sock[o] = NoFd /\ obj[o] = "new" /\ UNCHANGED <<mvars, pvars, kvars, evars>>
    BY <1>0, <1>5 DEF SocketFails, In, CallAt
  <2>2. ~Active(o)
    <3>1. \A f \in edge : holder[f] # o
      BY <1>0, <2>1 DEF HoldInv, KernelTypes
    <3>2. \A x \in batch : x.ioe \in Ioes
      BY <1>0 DEF EpollTypes
    <3>. QED
      BY <2>1, <3>1, <3>2 DEF UnusedInv, Active
  <2>. QED
    BY <2>1, <2>2 DEF Active, mvars, pvars, kvars, evars, Pool!Held, Pool!Waits
<1>6. CASE o = cobj[t] /\ o \in Servs /\ Refuse(t)
  <2>1. /\ cpc[t] = "refuse" /\ es_sock[o] \in Fds /\ CloseSock(o) /\ UNCHANGED <<ioe_data, pvars, evars>>
    BY <1>0, <1>6 DEF Refuse, In, CallAt, In_
  <2>2. \A f \in edge' : holder'[f] # o
    <3>1. \/ holder[es_sock[o]] = NoObj /\ UNCHANGED <<holder, edge>>
          \/ holder' = [holder EXCEPT ![es_sock[o]] = NoObj] /\ edge' = edge \ {es_sock[o]}
      BY <1>0, <2>1, Closes
    <3>. QED
      BY <1>0, <2>1, <3>1 DEF HoldInv, KernelTypes
  <2>3. \A x \in batch : x.ioe \in Ioes
    BY <1>0 DEF EpollTypes
  <2>4. \A i \in Ioes : ioe_data[i] # o
    BY <1>6, <2>1, NotClaimed
  <2>5. o # cur.data
    BY <1>1, <1>2, <1>6, <2>1 DEF EntryInv
  <2>6. \A e \in Events : ev_emit[e] # o
    BY <1>0, <1>6 DEF PoolTypes, Objects
  <2>. QED
    BY <2>1, <2>2, <2>3, <2>4, <2>5, <2>6 DEF Active, pvars, evars
<1>7. CASE o = cobj[t] /\ Free(t)
  <2>1. obj[o] = "closing"
    BY <1>0, <1>7 DEF Free, In, CallAt, Out, Past
  <2>. QED
    BY <1>3, <2>1
<1>. QED
  BY <1>0, <1>1, <1>3, <1>4, <1>5, <1>6, <1>7, CallNoisy

\* So it does in the other steps.
LEMMA QuietOthers ==
    ASSUME Types, Types', CallInv, HoldInv, WatchInv, PlaceInv, QuietInv,
           EpollStep \/ (\E f \in Fds : Ready(f)) \/ \E w \in Workers : WorkerStep(w)
    PROVE  QuietInv'
<1>. USE NetAssumption
<1>0. KernelTypes /\ ObjTypes
  BY DEF Types
<1>1. SUFFICES ASSUME NEW o \in Objects, obj'[o] \in {"closing", "freed"},
                      noisy' = {} \/ o \in Socks \ noisy'
               PROVE  ~Active(o)'
  BY DEF QuietInv
<1>2. CASE EpollStep
  <2>1. noisy' = noisy /\ obj[o] \in {"closing", "freed"}
    BY <1>0, <1>1, <1>2, EpollKeeps, EpollObjs
  <2>. QED
    BY <1>1, <1>2, <2>1, ActiveEpoll DEF QuietInv
<1>3. ASSUME NEW w \in Workers, WorkerStep(w) PROVE ~Active(o)'
  <2>1. noisy' = noisy /\ obj' = obj
    BY <1>3, WorkerKeeps DEF ovars
  <2>. QED
    BY <1>1, <1>3, <2>1, ActiveWorker DEF QuietInv
<1>4. ASSUME NEW f \in Fds, Ready(f) PROVE ~Active(o)'
  <2>1. /\ edge' = edge \cup {f} /\ UNCHANGED <<holder, ioe_data, pvars, evars, obj>>
        /\ noisy' = noisy \cup {p \in Objects : p = holder[f] /\ obj[p] = "closing"}
    BY <1>4 DEF Ready, mvars, ovars
  <2>2. ~Active(o)
    BY <1>1, <2>1 DEF QuietInv
  <2>3. holder[f] # o
    <3>1. CASE obj[o] = "closing"
      BY <1>1, <2>1, <3>1
    <3>2. CASE obj[o] = "freed"
      BY <3>2 DEF CallInv, ObjAt, HoldInv
    <3>. QED
      BY <1>1, <2>1, <3>1, <3>2
  <2>. QED
    BY <2>1, <2>2, <2>3 DEF Active, pvars, evars, Pool!Held, Pool!Waits
<1>. QED
  BY <1>2, <1>3, <1>4

-----------------------------------------------------------------------------
(* What the epoll thread works off.                                         *)

\* No call takes an entry's eio_event_t away while every object was quiet.
LEMMA EntryCalls ==
    ASSUME Types, Types', CallInv, HoldInv, WatchInv, IoeInv, UnusedInv, EntryInv,
           NEW t \in Threads, CallStep(t)
    PROVE  EntryInv'
<1>. USE NetAssumption
<1>0. MonTypes /\ KernelTypes /\ ObjTypes /\ CallTypes /\ CallTypes' /\ EpollTypes /\ CallAt(t)
  BY DEF Types, CallInv
<1>1. SUFFICES ASSUME noisy' = {} PROVE EntryInv'
  BY DEF EntryInv
<1>2. noisy = {}
  BY <1>0, <1>1, CallNoisy
<1>3. UNCHANGED <<batch, cur>>
  BY CallKeeps DEF evars
<1>4. ASSUME UNCHANGED mvars,
             \A u \in Threads : cpc'[u] = "add" => cpc[u] = "add" /\ cobj'[u] = cobj[u],
             \A u \in Threads : cobj'[u] \in Servs /\ cpc'[u] \in {"set", "refuse"} =>
                                   \/ cobj'[u] # cur.data
                                   \/ cobj'[u] = cobj[u] /\ cpc[u] \in {"set", "add", "refuse"}
      PROVE  EntryInv'
  BY <1>2, <1>3, <1>4 DEF EntryInv, mvars
<1>5. ASSUME UNCHANGED mvars, UNCHANGED cvars PROVE EntryInv'
  BY <1>4, <1>5 DEF cvars
<1>6. ASSUME UNCHANGED mvars, NEW label \in {"idle", "socket", "mark"} \cup Out, NEW o \in Objects, Go(t, label, o)
      PROVE  EntryInv'
  BY <1>0, <1>4, <1>6, GoIs DEF Out, Past
<1>7. CASE CallFault(t)
  BY <1>5, <1>7, CallFaultIs DEF core
<1>8. ASSUME NEW o \in Objects, Create(t, o) PROVE EntryInv'
  BY <1>6, <1>8 DEF Create
<1>9. ASSUME NEW s \in Socks, CreateNoEmit(t, s) \/ Set(t, s) \/ SockDestroy(t, s) PROVE EntryInv'
  <2>1. CASE CreateNoEmit(t, s)
    BY <1>5, <2>1 DEF CreateNoEmit
  <2>2. CASE SockDestroy(t, s)
    BY <1>6, <2>2 DEF SockDestroy, Out, Objects
  <2>3. CASE Set(t, s)
    <3>1. UNCHANGED mvars /\ Go(t, "set", s) /\ s \in Objects /\ s \notin Servs
      BY <2>3 DEF Set, Objects
    <3>2. cpc'[t] = "set" /\ cobj'[t] = s /\ \A u \in Threads \ {t} : cpc'[u] = cpc[u] /\ cobj'[u] = cobj[u]
      BY <1>0, <3>1, GoIs
    <3>. QED
      BY <1>4, <3>1, <3>2
  <2>. QED
    BY <1>9, <2>1, <2>2, <2>3
<1>10. ASSUME NEW v \in Servs, Listen(t, v) \/ ServDestroy(t, v) PROVE EntryInv'
  <2>1. CASE Listen(t, v)
    BY <1>5, <2>1 DEF Listen
  <2>2. CASE ServDestroy(t, v) /\ UNCHANGED mvars
    BY <1>6, <2>2 DEF ServDestroy, Out, Objects
  <2>3. CASE ServDestroy(t, v) /\ ~UNCHANGED mvars
    <3>1. /\ obj[v] = "live" /\ v \in Objects /\ ~Active(v) /\ Go(t, "close", v)
          /\ watch[es_sock[v]] # NoIoe
          /\ fdof' = [fdof EXCEPT ![watch[es_sock[v]]] = NoFd]
          /\ ioe_data' = [ioe_data EXCEPT ![watch[es_sock[v]]] = NoObj]
      BY <1>1, <2>3 DEF ServDestroy, MayUse, Objects, Mon!Unwatch, mvars
    <3>2. v \notin refused /\ es_sock[v] \in Fds
      BY <3>1 DEF CallInv, ObjAt
    <3>3. holder[es_sock[v]] = v
      BY <3>1, <3>2 DEF HoldInv
    <3>4. ioe_data[watch[es_sock[v]]] = v
      BY <3>1, <3>2, <3>3 DEF WatchInv
    <3>5. \A x \in batch : x.ioe \in Ioes /\ x.ioe # watch[es_sock[v]]
      BY <1>0, <3>1, <3>4 DEF Active, EpollTypes
    <3>6. cpc'[t] = "close" /\ \A u \in Threads \ {t} : cpc'[u] = cpc[u] /\ cobj'[u] = cobj[u]
      BY <1>0, <3>1, GoIs
    <3>7. \A x \in batch : fdof'[x.ioe] = fdof[x.ioe] /\ ioe_data'[x.ioe] = ioe_data[x.ioe]
      BY <1>0, <3>1, <3>5 DEF MonTypes
    <3>. QED
      BY <1>2, <1>3, <3>6, <3>7 DEF EntryInv
  <2>. QED
    BY <1>10, <2>1, <2>2, <2>3
<1>11. ASSUME NEW o \in Objects, o = cobj[t], NEW f \in Fds, SocketOpens(t, f) PROVE EntryInv'
  <2>1. /\ UNCHANGED mvars /\ Go(t, "set", o) /\ es_sock[o] = NoFd /\ obj[o] = "new"
    BY <1>0, <1>11 DEF SocketOpens, In, CallAt
  <2>2. o # cur.data
    BY <2>1 DEF UnusedInv
  <2>. QED
    BY <1>0, <1>4, <2>1, <2>2, GoIs
<1>12. ASSUME NEW o \in Objects, o = cobj[t], NEW i \in Ioes, AddFd(t, i) PROVE EntryInv'
  <2>1. /\ cpc[t] = "set" /\ fdof[i] = NoFd /\ Go(t, "add", o) /\ es_sock[o] \in Fds
        /\ fdof' = [fdof EXCEPT ![i] = es_sock[o]]
        /\ ioe_data' = [ioe_data EXCEPT ![i] = o]
    BY <1>0, <1>12 DEF AddFd, In, Mon!Reserve, CallAt, In_
  <2>2. /\ cpc'[t] = "add" /\ cobj'[t] = o
        /\ \A u \in Threads \ {t} : cpc'[u] = cpc[u] /\ cobj'[u] = cobj[u]
    BY <1>0, <2>1, GoIs
  <2>3. \A x \in batch : x.ioe \in Ioes /\ x.ioe # i
    BY <1>0, <1>2, <2>1 DEF EntryInv, EpollTypes
  <2>4. \A x \in batch : fdof'[x.ioe] = fdof[x.ioe] /\ ioe_data'[x.ioe] = ioe_data[x.ioe]
    BY <1>0, <2>1, <2>3 DEF MonTypes
  <2>5. \A x \in batch : ioe_data[x.ioe] # o
    BY <1>12, <2>1, <2>3, NotClaimed
  <2>. QED
    BY <1>2, <1>3, <1>12, <2>1, <2>2, <2>4, <2>5 DEF EntryInv
<1>13. ASSUME NEW o \in Objects, o = cobj[t], NEW i \in Ioes, AddWatch(t, i) PROVE EntryInv'
  <2>1. UNCHANGED <<fdof, ioe_data>> /\ Go(t, "mark", o)
    BY <1>13 DEF AddWatch, Mon!Watch
  <2>2. cpc'[t] = "mark" /\ \A u \in Threads \ {t} : cpc'[u] = cpc[u] /\ cobj'[u] = cobj[u]
    BY <1>0, <2>1, GoIs
  <2>. QED
    BY <1>2, <1>3, <2>1, <2>2 DEF EntryInv
<1>14. ASSUME NEW o \in Objects, o = cobj[t], NEW i \in Ioes, AddRefused(t, i) PROVE EntryInv'
  <2>1. /\ cpc[t] = "add" /\ ioe_data[i] = o /\ Go(t, "refuse", o)
        /\ fdof' = [fdof EXCEPT ![i] = NoFd]
        /\ ioe_data' = [ioe_data EXCEPT ![i] = NoObj]
    BY <1>0, <1>14 DEF AddRefused, In, Mon!Refuse
  <2>2. /\ cpc'[t] = "refuse" /\ cobj'[t] = o
        /\ \A u \in Threads \ {t} : cpc'[u] = cpc[u] /\ cobj'[u] = cobj[u]
    BY <1>0, <2>1, GoIs
  <2>3. \A x \in batch : x.ioe \in Ioes /\ x.ioe # i
    BY <1>0, <1>2, <1>14, <2>1 DEF EntryInv, EpollTypes
  <2>4. \A x \in batch : fdof'[x.ioe] = fdof[x.ioe] /\ ioe_data'[x.ioe] = ioe_data[x.ioe]
    BY <1>0, <2>1, <2>3 DEF MonTypes
  <2>. QED
    BY <1>2, <1>3, <1>14, <2>1, <2>2, <2>4 DEF EntryInv
<1>15. ASSUME NEW o \in Objects, o = cobj[t], Refuse(t) \/ Close(t) PROVE EntryInv'
  <2>1. /\ es_sock[o] \in Fds /\ CloseSock(o) /\ ioe_data' = ioe_data
        /\ Go(t, "idle", o) \/ Go(t, "free", o) \/ Go(t, "emit", o)
    BY <1>0, <1>15 DEF Refuse, Close, In, In_, Out, CallAt
  <2>2. fdof' = fdof
    BY <1>0, <2>1, Closes
  <2>3. /\ cpc'[t] \in {"idle", "free", "emit"}
        /\ \A u \in Threads \ {t} : cpc'[u] = cpc[u] /\ cobj'[u] = cobj[u]
    BY <1>0, <2>1, GoIs
  <2>. QED
    BY <1>2, <1>3, <2>1, <2>2, <2>3 DEF EntryInv
<1>16. ASSUME NEW o \in Objects, o = cobj[t], AddNoMem(t) PROVE EntryInv'
  <2>1. UNCHANGED mvars /\ Go(t, "refuse", o) /\ cpc[t] = "set"
    BY <1>16 DEF AddNoMem, In
  <2>. QED
    BY <1>0, <1>4, <1>16, <2>1, GoIs
<1>17. ASSUME NEW o \in Objects, o = cobj[t],
              \/ SocketFails(t) \/ Mark(t) \/ DestroyRefused(t) \/ DestroyTested(t)
              \/ DestroyKills(t) \/ DestroyFrees(t) \/ Free(t)
       PROVE  EntryInv'
  <2>1. UNCHANGED mvars /\ \E label \in {"idle", "free", "kill", "unemit"} : Go(t, label, o)
    BY <1>17 DEF SocketFails, Mark, DestroyRefused, DestroyTested, DestroyKills, DestroyFrees, Free
  <2>. QED
    BY <1>6, <2>1 DEF Out, Past
<1>. QED
  BY <1>0, <1>7, <1>8, <1>9, <1>10, <1>11, <1>12, <1>13, <1>14, <1>15, <1>16, <1>17, CallCases

\* The epoll thread takes entries from descriptors that are watched.
LEMMA EntryOthers ==
    ASSUME Types, Types', CallInv, WatchInv, IoeInv, EntryInv,
           EpollStep \/ (\E f \in Fds : Ready(f)) \/ \E w \in Workers : WorkerStep(w)
    PROVE  EntryInv'
<1>. USE NetAssumption
<1>0. MonTypes /\ KernelTypes /\ CallTypes /\ EpollTypes
  BY DEF Types
<1>1. ASSUME noisy \subseteq noisy', UNCHANGED <<mvars, cvars, evars>> PROVE EntryInv'
  BY <1>1 DEF EntryInv, mvars, cvars, evars
<1>2. ASSUME NEW f \in Fds, Ready(f) PROVE EntryInv'
  BY <1>1, <1>2 DEF Ready
<1>3. ASSUME NEW w \in Workers, WorkerStep(w) PROVE EntryInv'
  BY <1>1, <1>3, WorkerKeeps
<1>4. ASSUME EpollStep, noisy = {} PROVE EntryInv'
  <2>1. UNCHANGED <<fdof, ioe_data, cpc, cobj>>
    BY <1>4, EpollKeeps DEF cvars
  <2>2. \A x \in batch' : /\ fdof[x.ioe] # NoFd
                          /\ \A t \in Threads : cpc[t] = "add" => cobj[t] # ioe_data[x.ioe]
    <3>1. CASE batch' \subseteq batch
      BY <1>4, <3>1 DEF EntryInv
    <3>2. CASE EpollWait
      <4>1. PICK r : batch' = {[ioe |-> watch[f], ev |-> r[f]] : f \in {g \in edge : r[g] # {}}}
        BY <3>2 DEF EpollWait
      <4>2. \A f \in edge : /\ fdof[watch[f]] # NoFd
                            /\ \A t \in Threads : cpc[t] = "add" => cobj[t] # ioe_data[watch[f]]
        BY <1>0 DEF WatchInv, KernelTypes
      <4>. QED
        BY <4>1, <4>2
    <3>. QED
      BY <1>4, <3>1, <3>2, EpollBatch
  <2>3. ASSUME NEW t \in Threads, cobj[t] \in Servs, cpc[t] \in {"set", "add", "refuse"}
        PROVE  cobj[t] # cur'.data
    <3>1. ASSUME NEW x \in batch, Entry(x) PROVE cobj[t] # cur'.data
      <4>1. cur'.data = ioe_data[x.ioe] /\ x.ioe \in Ioes
        BY <1>0, <3>1 DEF Entry, EpollTypes
      <4>2. CASE cpc[t] = "add"
        BY <1>4, <4>1, <4>2 DEF EntryInv
      <4>3. CASE cpc[t] \in {"set", "refuse"}
        BY <4>1, <4>3, NotClaimed
      <4>. QED
        BY <2>3, <4>2, <4>3
    <3>2. cobj[t] # cur.data /\ cobj[t] # NoObj
      BY <1>4, <2>3 DEF EntryInv, Objects
    <3>. QED
      BY <1>0, <1>4, <3>1, <3>2, EpollCur
  <2>. QED
    BY <2>1, <2>2, <2>3 DEF EntryInv
<1>. QED
  BY <1>2, <1>3, <1>4, EpollKeeps DEF EntryInv

-----------------------------------------------------------------------------
(* Nothing is left behind.                                                  *)

\* A sock that nothing reaches has no event counted.
LEMMA QuietUncounted ==
    ASSUME Types, NEW s \in Socks, ~Active(s)
    PROVE  Counted(s) = {}
<1>1. \A e \in Events : ev_emit[e] = s => \A w \in Workers : ~Has(w, e)
  BY HeldIs DEF Active, Types
<1>2. \A e \in Events : ~Counts(s, e)
  BY <1>1 DEF Counts, Has, Active
<1>. QED
  BY <1>2, CountedIs DEF Types

\* Which calls free an object.
LEMMA FreedBy ==
    ASSUME ObjTypes, NEW t \in Threads, CallStep(t), NEW o \in Objects, obj'[o] = "freed", obj[o] # "freed"
    PROVE  o = cobj[t] /\ (SocketFails(t) \/ Free(t) \/ (Refuse(t) /\ o \in Servs))
<1>. USE NetAssumption DEF Obj, ovars, ObjTypes
<1>1. ASSUME NEW p \in Objects, Create(t, p) PROVE FALSE
  BY <1>1 DEF Create
<1>2. ASSUME NEW s \in Socks, CreateNoEmit(t, s) \/ Set(t, s) \/ SockDestroy(t, s) PROVE FALSE
  BY <1>2 DEF CreateNoEmit, Set, SockDestroy
<1>3. ASSUME NEW v \in Servs, Listen(t, v) \/ ServDestroy(t, v) PROVE FALSE
  BY <1>3 DEF Listen, ServDestroy
<1>4. ASSUME (\E f \in Fds : SocketOpens(t, f))
             \/ (\E i \in Ioes : AddFd(t, i) \/ AddWatch(t, i) \/ AddRefused(t, i))
      PROVE  FALSE
  BY <1>4 DEF SocketOpens, AddFd, AddWatch, AddRefused
<1>5. ASSUME AddNoMem(t) \/ Mark(t) \/ Close(t) \/ Foreign(t) \/ DestroyNull(t) \/ DestroyRefused(t)
             \/ DestroyTested(t) \/ DestroyKills(t) \/ DestroyFrees(t)
      PROVE  FALSE
  BY <1>5 DEF AddNoMem, Mark, Close, Foreign, DestroyNull, DestroyRefused, DestroyTested,
              DestroyKills, DestroyFrees, Fault
<1>6. CASE SocketFails(t) \/ Free(t)
  BY <1>6 DEF SocketFails, Free
<1>7. CASE Refuse(t)
  BY <1>7 DEF Refuse
<1>. QED
  BY <1>1, <1>2, <1>3, <1>4, <1>5, <1>6, <1>7 DEF CallStep

\* The emit of a sock is freed before it.
LEMMA FreeCalls ==
    ASSUME Types, Types', CallInv, EmitInv, PendInv, QuietInv, FreeInv, NEW t \in Threads, CallStep(t)
    PROVE  FreeInv'
<1>. USE NetAssumption
<1>0. ObjTypes /\ CallTypes /\ CallTypes' /\ CallAt(t)
  BY DEF Types, CallInv
<1>1. \A s \in Socks : emit[s] = "freed" => emit'[s] = "freed"
  BY EmitCalls DEF EmitStep, PendInv
<1>2. noisy \subseteq noisy'
  BY <1>0, CallNoisy
<1>3. ASSUME NEW u \in Threads, cpc'[u] = "free", cobj'[u] \in Socks \ noisy'
      PROVE  emit'[cobj'[u]] = "freed"
  <2>1. CASE cpc[u] = "free" /\ cobj[u] = cobj'[u]
    BY <1>1, <1>2, <1>3, <2>1 DEF FreeInv
  <2>2. ASSUME NEW o \in Objects, o = cobj[t], u = t, DestroyRefused(t)
        PROVE  FALSE
    <3>1. /\ Go(t, "free", o) /\ emit[o] = "live" /\ pend[o] # 0 /\ cpc[t] = "emit"
      BY <2>2 DEF DestroyRefused, In
    <3>2. cobj'[t] = o
      BY <1>0, <3>1, GoIs
    <3>3. obj[o] = "closing" /\ o \in Socks \ noisy
      BY <1>0, <1>2, <1>3, <2>2, <3>1, <3>2 DEF CallAt, Out, Past
    <3>4. ~Active(o)
      BY <3>3 DEF QuietInv
    <3>5. Counted(o) = {}
      BY <3>3, <3>4, QuietUncounted
    <3>. QED
      BY <3>1, <3>3, <3>5, FS_EmptySet DEF PendInv, PendExact, Counted
  <2>3. ASSUME NEW o \in Objects, o = cobj[t], u = t, DestroyFrees(t)
        PROVE  emit'[cobj'[u]] = "freed"
    <3>1. /\ Go(t, "free", o) /\ emit' = [emit EXCEPT ![o] = "freed"]
      BY <2>3 DEF DestroyFrees
    <3>2. cobj'[t] = o
      BY <1>0, <3>1, GoIs
    <3>. QED
      BY <1>0, <1>3, <2>3, <3>1, <3>2 DEF ObjTypes
  <2>4. ASSUME NEW o \in Objects, o = cobj[t], u = t, Close(t)
        PROVE  FALSE
    <3>1. Go(t, IF o \in Servs THEN "free" ELSE "emit", o)
      BY <2>4 DEF Close
    <3>2. cobj'[t] = o /\ cpc'[t] = IF o \in Servs THEN "free" ELSE "emit"
      BY <1>0, <3>1, GoIs
    <3>. QED
      BY <1>3, <2>4, <3>2
  <2>5. \/ cpc[u] = "free" /\ cobj[u] = cobj'[u]
        \/ u = t /\ cobj[t] \in Objects /\ (DestroyRefused(t) \/ DestroyFrees(t) \/ Close(t))
    <3>1. CASE UNCHANGED cvars
      BY <1>3, <3>1 DEF cvars
    <3>2. ASSUME NEW label \in {"idle", "socket", "close", "emit", "kill", "unemit"} \cup In_,
                 NEW o \in Objects, Go(t, label, o)
          PROVE  cpc[u] = "free" /\ cobj[u] = cobj'[u]
      BY <1>0, <1>3, <3>2, GoIs DEF In_
    <3>3. \A o \in Objects : Create(t, o) => Go(t, "socket", o)
      BY DEF Create
    <3>4. \A s \in Socks : /\ CreateNoEmit(t, s) => UNCHANGED cvars
                           /\ Set(t, s) => Go(t, "set", s) /\ s \in Objects
                           /\ SockDestroy(t, s) => Go(t, "close", s) /\ s \in Objects
      BY DEF CreateNoEmit, Set, SockDestroy, Objects
    <3>5. \A v \in Servs : /\ Listen(t, v) => UNCHANGED cvars
                           /\ ServDestroy(t, v) => Go(t, "close", v) /\ v \in Objects
      BY DEF Listen, ServDestroy, Objects
    <3>6. (\E f \in Fds : SocketOpens(t, f)) \/ (\E i \in Ioes : AddFd(t, i) \/ AddWatch(t, i) \/ AddRefused(t, i))
          \/ SocketFails(t) \/ AddNoMem(t) \/ Mark(t) \/ Refuse(t) \/ DestroyTested(t) \/ DestroyKills(t) \/ Free(t)
          => \E label \in {"set", "add", "mark", "refuse", "idle", "kill", "unemit"} : Go(t, label, cobj[t])
      BY DEF SocketOpens, AddFd, AddWatch, AddRefused, SocketFails, AddNoMem, Mark, Refuse,
             DestroyTested, DestroyKills, Free
    <3>7. CallFault(t) => UNCHANGED cvars
      BY CallFaultIs DEF core
    <3>8. CASE cobj[t] \in Objects /\ (DestroyRefused(t) \/ DestroyFrees(t) \/ Close(t))
      <4>1. CASE u = t
        BY <3>8, <4>1
      <4>2. CASE u # t
        <5>1. \E label \in {"free", "emit"} : Go(t, label, cobj[t])
          BY <3>8 DEF DestroyRefused, DestroyFrees, Close
        <5>. QED
          BY <1>0, <1>3, <3>8, <4>2, <5>1, GoIs
      <4>. QED
        BY <4>1, <4>2
    <3>9. CASE cobj[t] \in Objects /\ \E label \in {"set", "add", "mark", "refuse", "idle", "kill", "unemit"} : Go(t, label, cobj[t])
      BY <3>2, <3>9 DEF In_
    <3>. QED
      BY <1>0, <3>1, <3>2, <3>3, <3>4, <3>5, <3>6, <3>7, <3>8, <3>9, CallCases DEF In_
  <2>. QED
    BY <2>1, <2>2, <2>3, <2>4, <2>5
<1>4. ASSUME NEW s \in Socks, obj'[s] = "freed", s \notin noisy' PROVE emit'[s] = "freed"
  <2>1. s \in Objects /\ s \notin Servs
    BY DEF Objects
  <2>2. CASE obj[s] = "freed"
    BY <1>1, <1>2, <1>4, <2>2 DEF FreeInv
  <2>3. CASE SockDestroy(t, s)
    BY <1>0, <1>4, <2>1, <2>3 DEF SockDestroy, Obj, ObjTypes
  <2>4. CASE s = cobj[t] /\ SocketFails(t)
    BY <1>0, <1>4, <2>4 DEF SocketFails, ObjTypes
  <2>5. CASE s = cobj[t] /\ Free(t)
    BY <1>1, <1>2, <1>4, <2>5 DEF Free, In, FreeInv
  <2>6. ASSUME obj[s] = "closing", ~(s = cobj[t] /\ Free(t)), ~(s = cobj[t] /\ SocketFails(t)) PROVE FALSE
    <3>1. obj'[s] # obj[s]
      BY <1>4, <2>6
    <3>. QED
      BY <1>0, <1>4, <2>1, <2>6, <3>1, FreedBy
  <2>. QED
    BY <1>0, <1>4, <2>1, <2>2, <2>3, <2>4, <2>5, <2>6, CallNoisy
<1>. QED
  BY <1>3, <1>4 DEF FreeInv

\* The other threads free no object and no emit.
LEMMA FreeOthers ==
    ASSUME Types, FreeInv,
           EpollStep \/ (\E f \in Fds : Ready(f)) \/ \E w \in Workers : WorkerStep(w)
    PROVE  FreeInv'
<1>. USE NetAssumption
<1>1. ASSUME noisy \subseteq noisy', UNCHANGED <<emit, cvars>>,
             \A s \in Socks : obj'[s] = "freed" => obj[s] = "freed"
      PROVE  FreeInv'
  BY <1>1 DEF FreeInv, cvars
<1>2. ASSUME NEW f \in Fds, Ready(f) PROVE FreeInv'
  BY <1>1, <1>2 DEF Ready, mtvars, ovars
<1>3. ASSUME NEW w \in Workers, WorkerStep(w) PROVE FreeInv'
  BY <1>1, <1>3, WorkerKeeps DEF ovars
<1>4. CASE EpollStep
  <2>1. \A s \in Socks : obj'[s] = "freed" => obj[s] = "freed"
    BY <1>4, EpollObjs DEF Types, Objects
  <2>. QED
    BY <1>1, <1>4, <2>1, EpollKeeps
<1>. QED
  BY <1>2, <1>3, <1>4

-----------------------------------------------------------------------------
(* Faults.                                                                  *)

\* Something that is freed is looked at.
TouchFault == \/ FlagFreed \/ CountFreed
              \/ \E x \in batch : EntryFreed(x)
              \/ \E w \in Workers : \/ CallbackFreed(w) \/ ReturnFreed(w)
                                    \/ \E e \in Events : StartFreed(w, e)

\* An assertion fails.
AssertFault == EmitMissing \/ ServOut \/ \E t \in Threads : DestroyNull(t)

\* A step is a fault, or it leaves "fault" alone.
LEMMA FaultCases ==
    ASSUME ObjTypes, Next
    PROVE  /\ refused \subseteq refused' /\ noisy \subseteq noisy'
           /\ fault' = fault \/ TouchFault \/ AssertFault \/ \E t \in Threads : Foreign(t)
<1>. USE NetAssumption DEF avars
<1>1. ASSUME NEW t \in Threads, CallStep(t)
      PROVE  /\ refused \subseteq refused' /\ noisy \subseteq noisy'
             /\ fault' = fault \/ AssertFault \/ Foreign(t)
  <2>1. noisy \subseteq noisy'
    BY <1>1, CallNoisy
  <2>2. \A o \in Objects : Create(t, o) => UNCHANGED <<refused, fault>>
    BY DEF Create
  <2>3. \A s \in Socks : CreateNoEmit(t, s) \/ Set(t, s) \/ SockDestroy(t, s) => UNCHANGED <<refused, fault>>
    BY DEF CreateNoEmit, Set, SockDestroy
  <2>4. \A v \in Servs : Listen(t, v) \/ ServDestroy(t, v) => UNCHANGED <<refused, fault>>
    BY DEF Listen, ServDestroy
  <2>5. (\E f \in Fds : SocketOpens(t, f)) => UNCHANGED <<refused, fault>>
    BY DEF SocketOpens
  <2>6. \A i \in Ioes : AddFd(t, i) \/ AddWatch(t, i) \/ AddRefused(t, i) => refused \subseteq refused' /\ UNCHANGED fault
    BY DEF AddFd, AddWatch, AddRefused
  <2>7. SocketFails(t) \/ AddNoMem(t) \/ Mark(t) \/ Refuse(t) \/ Close(t) \/ DestroyRefused(t)
        \/ DestroyTested(t) \/ DestroyKills(t) \/ DestroyFrees(t) \/ Free(t)
        => refused \subseteq refused' /\ UNCHANGED fault
    BY DEF SocketFails, AddNoMem, Mark, Refuse, Close, DestroyRefused, DestroyTested, DestroyKills,
           DestroyFrees, Free
  <2>8. Foreign(t) \/ DestroyNull(t) => UNCHANGED refused
    BY DEF Foreign, DestroyNull, Fault
  <2>. QED
    BY <1>1, <2>1, <2>2, <2>3, <2>4, <2>5, <2>6, <2>7, <2>8 DEF CallStep, AssertFault
<1>2. ASSUME NEW f \in Fds, Ready(f)
      PROVE  refused \subseteq refused' /\ noisy \subseteq noisy' /\ fault' = fault
  BY <1>2 DEF Ready
<1>3. CASE EpollStep
  <2>1. UNCHANGED <<refused, noisy>>
    BY <1>3, EpollKeeps
  <2>2. \A x \in batch : Entry(x) => UNCHANGED fault
    BY DEF Entry
  <2>3. (\E e \in Events : SockDispatch(e)) \/ (\E w \in Workers : Submit(w)) => UNCHANGED fault
    BY DEF SockDispatch, Submit
  <2>4. (\E s \in Socks : AcceptFails(s) \/ \E f \in Fds : Accept(s, f)) => UNCHANGED fault
    BY DEF AcceptFails, Accept
  <2>5. EpollWait \/ EpollFails \/ EntryDone \/ SockRefused \/ Count \/ AcceptNoMem \/ ServHup
        \/ ServReturns => UNCHANGED fault
    BY DEF EpollWait, EpollFails, EntryDone, SockRefused, Count, AcceptNoMem, ServHup, ServReturns
  <2>. QED
    BY <1>3, <2>1, <2>2, <2>3, <2>4, <2>5 DEF EpollStep, TouchFault, AssertFault
<1>4. ASSUME NEW w \in Workers, WorkerStep(w)
      PROVE  UNCHANGED <<refused, noisy>> /\ (fault' = fault \/ TouchFault)
  <2>1. UNCHANGED <<refused, noisy>>
    BY <1>4, WorkerKeeps
  <2>2. (\E e \in Events : Start(w, e)) \/ Callback(w) \/ Return(w) \/ Done(w) => UNCHANGED fault
    BY DEF Start, Callback, Return, Done
  <2>. QED
    BY <1>4, <2>1, <2>2 DEF WorkerStep, TouchFault
<1>. QED
  BY <1>1, <1>2, <1>3, <1>4 DEF Next

\* Freed memory is looked at only when something was noisy.
LEMMA TouchedNoisy ==
    ASSUME Types, EmitInv, QuietInv, EntryInv, TouchFault
    PROVE  noisy # {}
<1>. USE NetAssumption
<1>0. SUFFICES ASSUME noisy = {} PROVE FALSE
  OBVIOUS
<1>1. ASSUME NEW o \in Objects, Active(o), obj[o] = "freed" \/ (o \in Socks /\ emit[o] = "freed") PROVE FALSE
  BY <1>0, <1>1 DEF QuietInv, EmitInv
<1>2. ASSUME NEW e \in Events, Pool!Held(e),
             obj[ev_emit[e]] = "freed" \/ emit[ev_emit[e]] = "freed"
      PROVE  FALSE
  BY <1>1, <1>2 DEF EmitInv, Active, Objects
<1>3. ASSUME FlagFreed PROVE FALSE
  BY <1>1, <1>3 DEF FlagFreed, AtFlag, Data, Active
<1>4. ASSUME CountFreed PROVE FALSE
  <2>1. cur.data \in Socks /\ emit[cur.data] = "freed"
    BY <1>4 DEF CountFreed, EpollAt, Data, Types, EpollTypes
  <2>. QED
    BY <1>1, <2>1 DEF Active, Objects
<1>5. ASSUME NEW x \in batch, EntryFreed(x) PROVE FALSE
  BY <1>0, <1>5 DEF EntryFreed, EntryInv
<1>6. ASSUME NEW w \in Workers, NEW e \in Events, StartFreed(w, e) PROVE FALSE
  BY <1>2, <1>6 DEF StartFreed, Pool!Held
<1>7. ASSUME NEW w \in Workers, CallbackFreed(w) \/ ReturnFreed(w) PROVE FALSE
  <2>1. hpc[w] # "idle" /\ (obj[Sock(w)] = "freed" \/ emit[Sock(w)] = "freed")
    BY <1>7 DEF CallbackFreed, ReturnFreed, WorkerAt
  <2>2. running[w] \in Events
    BY <2>1 DEF Types, PoolTypes
  <2>. QED
    BY <1>2, <2>1, <2>2 DEF Sock, Pool!Held
<1>. QED
  BY <1>3, <1>4, <1>5, <1>6, <1>7 DEF TouchFault

\* The descriptor of another object is touched only in a call for an object
\* whose eio_addfd has failed.
LEMMA ForeignRefused ==
    ASSUME Types, CallInv, HoldInv, NEW t \in Threads, Foreign(t)
    PROVE  fault' = [kind |-> "foreign", obj |-> cobj[t]] /\ cobj[t] \in refused
<1>. USE NetAssumption
<1>1. PICK label \in {"add", "refuse", "close"} : cpc[t] = label
  BY DEF Foreign, In
<1>2. cobj[t] \in Objects /\ es_sock[cobj[t]] \in Fds
  BY <1>1, HasObject DEF CallInv, CallAt, In_, Out, Types
<1>3. holder[es_sock[cobj[t]]] # cobj[t] /\ fault' = [kind |-> "foreign", obj |-> cobj[t]]
  BY DEF Foreign, Fault
<1>. QED
  BY <1>1, <1>2, <1>3 DEF HoldInv, Past

\* What must have come before a fault, after any step.
LEMMA FaultNext ==
    ASSUME Types, CallInv, HoldInv, EmitInv, QuietInv, EntryInv, CloseSafe, TouchSafe, Next
    PROVE  CloseSafe' /\ TouchSafe'
<1>0. ObjTypes
  BY DEF Types
<1>1. CASE fault' = fault
  BY <1>0, <1>1, FaultCases DEF CloseSafe, TouchSafe
<1>2. CASE TouchFault
  <2>1. \E o : Fault("freed", o)
    BY <1>2 DEF TouchFault, FlagFreed, CountFreed, EntryFreed, StartFreed, CallbackFreed, ReturnFreed
  <2>2. noisy # {}
    BY <1>2, TouchedNoisy
  <2>. QED
    BY <2>1, <2>2 DEF Fault, CloseSafe, TouchSafe
<1>3. CASE AssertFault
  <2>1. \E kind \in {"emit_dispatch", "serv_worker_cb", "emit_destroy"} : \E o : Fault(kind, o)
    BY <1>3 DEF AssertFault, EmitMissing, ServOut, DestroyNull
  <2>. QED
    BY <2>1 DEF Fault, CloseSafe, TouchSafe
<1>4. ASSUME NEW t \in Threads, Foreign(t) PROVE CloseSafe' /\ TouchSafe'
  BY <1>0, <1>4, ForeignRefused, FaultCases DEF CloseSafe, TouchSafe
<1>. QED
  BY <1>0, <1>1, <1>2, <1>3, <1>4, FaultCases

-----------------------------------------------------------------------------
(* The invariant.                                                           *)

\* The invariant holds after edpnet_init.
LEMMA InvInit == Init => IInv
<1>. SUFFICES ASSUME Init PROVE IInv
  OBVIOUS
<1>. USE NetAssumption DEF Init, Mon!Init, Pool!Init
<1>1. Types
  BY TypesInit
<1>2. \A e \in Events : ~Pool!Held(e) /\ \A w \in Workers : ~Has(w, e)
  BY DEF Pool!Held, Pool!Waits, Has
<1>3. PlaceInv /\ EmitInv
  BY <1>2 DEF PlaceInv, EmitInv, Objects
<1>4. CallInv
  BY DEF CallInv, CallAt, ObjAt, In_, Out, Past
<1>5. HoldInv /\ WatchInv /\ IoeInv
  BY DEF HoldInv, WatchInv, IoeInv
<1>6. UnusedInv
  BY <1>2 DEF UnusedInv, NoEntry
<1>7. CacheInv
  <2>1. Out1 = {}
    BY <1>2 DEF Out1
  <2>. QED
    BY <2>1, FS_EmptySet DEF CacheInv, CacheBalanced, Out1
<1>8. PendInv
  BY DEF PendInv, PendExact
<1>9. QuietInv /\ EntryInv /\ FreeInv
  BY DEF QuietInv, EntryInv, FreeInv, Objects
<1>10. CloseSafe /\ TouchSafe
  BY DEF CloseSafe, TouchSafe
<1>. QED
  BY <1>1, <1>3, <1>4, <1>5, <1>6, <1>7, <1>8, <1>9, <1>10 DEF IInv, Types

\* The other steps keep the types.
LEMMA TypesNext ==
    ASSUME Types, CallInv, IoeInv, Next
    PROVE  Types'
  BY CallTypesStep, EpollTypesStep, ReadyTypes, WorkerTypesStep DEF Next

\* Every step keeps the invariant.
LEMMA InvNext == IInv /\ [Next]_vars => IInv'
<1>. SUFFICES ASSUME IInv, [Next]_vars PROVE IInv'
  OBVIOUS
<1>1. CASE Next
  <2>1. /\ Types /\ PlaceInv /\ EmitInv /\ CallInv /\ HoldInv /\ WatchInv /\ IoeInv /\ UnusedInv
        /\ CacheInv /\ PendInv /\ QuietInv /\ EntryInv /\ FreeInv /\ CloseSafe /\ TouchSafe
    BY DEF IInv, Types
  <2>2. Types'
    BY <1>1, <2>1, TypesNext
  <2>3. \/ \E t \in Threads : CallStep(t)
        \/ EpollStep \/ (\E f \in Fds : Ready(f)) \/ \E w \in Workers : WorkerStep(w)
    BY <1>1 DEF Next
  <2>4. /\ PoolTypes /\ PoolTypes' /\ EpollTypes /\ EpollTypes'
    BY <2>1, <2>2 DEF Types
  <2>5. CallInv'
    BY <2>1, <2>3, CallInvCalls, CallInvOthers
  <2>6. HoldInv'
    BY <2>1, <2>2, <2>3, HoldCalls, HoldOthers
  <2>7. WatchInv' /\ IoeInv'
    BY <2>1, <2>2, <2>3, MonCalls, MonOthers
  <2>8. UnusedInv'
    BY <2>1, <2>2, <2>3, UnusedCalls, UnusedOthers
  <2>9. PlaceInv'
    <3>1. ASSUME NEW w \in Workers, WorkerStep(w) PROVE PlaceInv'
      BY <2>1, <2>4, <3>1, PlaceWorker, WorkerKeeps
    <3>. QED
      BY <2>1, <2>3, <2>4, <3>1, PlaceEpoll, PlaceOthers
  <2>10. EmitInv'
    BY <1>1, <2>1, <2>2, EmitNext DEF PendInv
  <2>11. CacheInv' /\ PendInv'
    BY <1>1, <2>1, <2>2, <2>4, CacheNext, PendNext
  <2>12. QuietInv'
    BY <2>1, <2>2, <2>3, QuietCalls, QuietOthers
  <2>13. EntryInv'
    BY <2>1, <2>2, <2>3, EntryCalls, EntryOthers
  <2>14. FreeInv'
    BY <2>1, <2>2, <2>3, FreeCalls, FreeOthers
  <2>15. CloseSafe' /\ TouchSafe'
    BY <1>1, <2>1, FaultNext
  <2>. QED
    BY <2>2, <2>5, <2>6, <2>7, <2>8, <2>9, <2>10, <2>11, <2>12, <2>13, <2>14, <2>15 DEF IInv, Types
<1>2. CASE UNCHANGED vars
  <2>. USE <1>2 DEF vars, mvars, pvars, kvars, ovars, mtvars, cvars, evars, avars
  <2>1. MonTypes' /\ KernelTypes' /\ ObjTypes' /\ CallTypes' /\ EpollTypes' /\ PoolTypes'
    BY DEF IInv, MonTypes, KernelTypes, ObjTypes, CallTypes, EpollTypes, PoolTypes
  <2>2. PlaceInv' /\ EmitInv' /\ UnusedInv'
    BY DEF IInv, PlaceInv, Has, EmitInv, UnusedInv, Pool!Held, Pool!Waits
  <2>3. CallInv' /\ HoldInv' /\ WatchInv' /\ IoeInv'
    BY DEF IInv, CallInv, CallAt, ObjAt, HoldInv, WatchInv, IoeInv, Claimed
  <2>4. CacheInv' /\ PendInv'
    BY DEF IInv, CacheInv, Out1, CacheBalanced, PendInv, PendExact, Data, Pool!Held, Pool!Waits
  <2>5. QuietInv' /\ EntryInv' /\ FreeInv'
    BY DEF IInv, QuietInv, Active, EntryInv, FreeInv, Pool!Held, Pool!Waits
  <2>6. CloseSafe' /\ TouchSafe'
    BY DEF IInv, CloseSafe, TouchSafe
  <2>. QED
    BY <2>1, <2>2, <2>3, <2>4, <2>5, <2>6 DEF IInv
<1>. QED
  BY <1>1, <1>2

\* The invariant holds always.
LEMMA Invariant == Spec => []IInv
  BY InvInit, InvNext, PTL DEF Spec

-----------------------------------------------------------------------------
(* The theorems.                                                            *)

\* All variables keep their types, and a thread has an object exactly within a
\* call of edpnet.
THEOREM TypeCorrect == Spec => []TypeOK
<1>1. IInv => TypeOK
  <2>. SUFFICES ASSUME IInv PROVE TypeOK
    OBVIOUS
  <2>. USE NetAssumption DEF IInv
  <2>1. cache \in Nat
    BY FS_CardinalityType DEF CacheInv, CacheBalanced, Out1
  <2>2. pend \in [Socks -> Nat]
    BY DEF PendInv
  <2>3. \A t \in Threads : IF cpc[t] = "idle" THEN cobj[t] = NoObj ELSE cobj[t] \in Objects
    BY DEF CallTypes
  <2>4. cpc \in [Threads -> {"idle", "socket", "set", "add", "mark", "refuse", "close", "emit",
                              "kill", "unemit", "free"}]
    BY DEF CallTypes, In_, Out, Past
  <2>5. cur = NoEntry <=> epc \in {"wait", "ended"}
    BY DEF EpollTypes, NoEntry
  <2>6. /\ epc \in {"wait", "cb", "count", "submit", "callback", "ended"}
        /\ batch \subseteq [ioe : Ioes, ev : (SUBSET Flags) \ {{}}]
        /\ eev \in Events \cup {NoEvent}
    BY DEF EpollTypes
  <2>. QED
    BY <2>1, <2>2, <2>3, <2>4, <2>5, <2>6 DEF TypeOK, MonTypes, KernelTypes, ObjTypes, PoolTypes
<1>. QED
  BY <1>1, Invariant, PTL

\* mcache_alloc and mcache_free of ed_evcache are in balance: what it counts is
\* what is with the epoll thread or the pool (edpnet.c:313-340, mcache.c:68-90).
THEOREM CacheCorrect == Spec => []CacheBalanced
<1>1. IInv => CacheBalanced
  BY DEF IInv, CacheInv
<1>. QED
  BY <1>1, Invariant, PTL

\* ee_pendings is the number of events that keep emit_destroy from freeing the
\* emit (emitter.c:82, 117, 190).
THEOREM PendCorrect == Spec => []PendExact
<1>1. IInv => PendExact
  BY DEF IInv, PendInv
<1>. QED
  BY <1>1, Invariant, PTL

\* close() and epoll_ctl() are called with the descriptor of another object only
\* for a sock or serv whose eio_addfd had failed (edpnet.c:460-462, 480-484).
THEOREM CloseCorrect == Spec => []CloseSafe
<1>1. IInv => CloseSafe
  BY DEF IInv
<1>. QED
  BY <1>1, Invariant, PTL

\* No thread touches freed memory unless the application had destroyed an object
\* that readiness or an event could still reach (edpnet.c:449-466, 709-727).
THEOREM TouchCorrect == Spec => []TouchSafe
<1>1. IInv => TouchSafe
  BY DEF IInv
<1>. QED
  BY <1>1, Invariant, PTL

\* An object destroyed while nothing could reach it leaves no descriptor, no
\* watch and no emit behind (edpnet.c:449-466, 709-727).
THEOREM DestroyCorrect == Spec => []DestroyComplete
<1>1. IInv => DestroyComplete
  <2>. SUFFICES ASSUME IInv, NEW o \in Objects, obj[o] = "freed", o \notin noisy
                PROVE  /\ \A f \in Fds : holder[f] # o /\ (watch[f] # NoIoe => ioe_data[watch[f]] # o)
                       /\ o \in Socks => emit[o] = "freed"
    BY DEF DestroyComplete
  <2>. USE NetAssumption DEF IInv
  <2>1. es_sock[o] = NoFd
    BY DEF CallInv, ObjAt
  <2>2. \A f \in Fds : holder[f] # o
    BY <2>1 DEF HoldInv, Objects
  <2>3. \A f \in Fds : watch[f] # NoIoe => ioe_data[watch[f]] # o
    BY <2>2 DEF WatchInv
  <2>4. o \in Socks => emit[o] = "freed"
    BY DEF FreeInv
  <2>. QED
    BY <2>2, <2>3, <2>4
<1>. QED
  BY <1>1, Invariant, PTL
=============================================================================
