------------------------------- MODULE EdpEmit -------------------------------
(****************************************************************************)
(* The emitters of edp.io, src/emitter.c: an emit carries a table of        *)
(* handlers and counts the events that were dispatched to it and are not    *)
(* handled yet (ee_pendings); emit_destroy refuses while the count is not   *)
(* zero.  The worker pool underneath is the abstract one, EventPool, which  *)
(* EdpWorker implements.  The owner's pointer ee_data, which the emitter    *)
(* itself never reads, is left out with emit_get and emit_set.              *)
(****************************************************************************)
EXTENDS Integers, FiniteSets

CONSTANTS Workers, Clients,
          Emits,        \* the emit objects
          Events,
          Types,        \* the event types 0 .. kEMIT_EVENT_TYPE_MAX - 1
          NoType,       \* the type of an event that was not initialised
          NoEvent, NoEmit,
          Quiet,        \* nobody dispatches to an emit while it is destroyed
          BadPriority,  \* some events have a priority the pool refuses
          Removes,      \* handlers are removed while events are under way
          MaxPendings   \* bound of the model: ee_pendings may leak

Threads == Clients \cup Workers
NORM == "norm"

ASSUME EmitAssumption ==
    /\ Clients \cap Workers = {}
    /\ NoType \notin Types
    /\ NoEvent \notin Events
    /\ NoEmit \notin Emits
    /\ {Quiet, BadPriority, Removes} \subseteq BOOLEAN
    /\ MaxPendings \in Nat
    /\ IsFiniteSet(Events)

VARIABLES
    waiting, ahead, running,   \* the worker pool
    life,       \* life[m]: not allocated yet, allocated (magic valid), freed
    init,       \* ee_init
    pendings,   \* ee_pendings
    handler,    \* handler[m]: the types with a handler other than the default
    emits,      \* the emits on the list ed_emits
    ed_init,
    etype,      \* ev_type
    target,     \* ev_emit
    opc,        \* where thread t is in emit_dispatch or emit_destroy
    om, oe,     \* the emit and the event of that call
    hpc         \* where worker w is in emit_event_handler

pvars == <<waiting, ahead, running>>
mvars == <<life, init, pendings, handler, emits, ed_init>>
ovars == <<opc, om, oe>>
vars == <<pvars, mvars, ovars, etype, target, hpc>>

Pool == INSTANCE EventPool WITH Classes <- {NORM}, Ordered <- {NORM}

Init ==
    /\ Pool!Init
    /\ life = [m \in Emits |-> "none"]
    /\ init = [m \in Emits |-> 0]
    /\ pendings = [m \in Emits |-> 0]
    /\ handler = [m \in Emits |-> {}]
    /\ emits = {}
    /\ ed_init = 1
    /\ etype = [e \in Events |-> NoType]
    /\ target = [e \in Events |-> NoEmit]
    /\ opc = [t \in Threads |-> "idle"]
    /\ om = [t \in Threads |-> NoEmit]
    /\ oe = [t \in Threads |-> NoEvent]
    /\ hpc = [w \in Workers |-> "idle"]

\* Thread t runs code of the application: a client, a handler, a callback.
AtCall(t) == opc[t] = "idle" /\ (t \in Workers => hpc[t] \in {"handler", "callback"})

Dispatching(t, m) == om[t] = m /\ opc[t] \in {"handler?", "init?", "inc", "submit"}
Destroying(t, m) == om[t] = m /\ opc[t] \in {"pendings?", "clear", "unlink", "release"}

\* The event belongs to the application.
Owned(e) == ~Pool!Held(e) /\ \A t \in Threads : oe[t] # e

At(t, label) == opc' = [opc EXCEPT ![t] = label]

\* The call of thread t returns.
Leave(t) ==
    /\ At(t, "idle")
    /\ om' = [om EXCEPT ![t] = NoEmit]
    /\ oe' = [oe EXCEPT ![t] = NoEvent]

-----------------------------------------------------------------------------
(* emit_create and the handler table *)

\* Mutant of EmitCreate: list_add with its arguments swapped, the list keeps
\* the newest emit only.
EmitCreateSwapped(t, m) ==
    /\ AtCall(t)
    /\ ed_init = 1
    /\ life[m] = "none"
    /\ life' = [life EXCEPT ![m] = "live"]
    /\ init' = [init EXCEPT ![m] = 1]
    /\ emits' = {m}
    /\ UNCHANGED <<pvars, pendings, handler, ed_init, ovars, etype, target, hpc>>

\* The application creates its emits between emit_init and emit_fini.
EmitCreate(t, m) ==
    /\ AtCall(t)
    /\ ed_init = 1
    /\ life[m] = "none"
    /\ life' = [life EXCEPT ![m] = "live"]
    /\ init' = [init EXCEPT ![m] = 1]
    /\ emits' = emits \cup {m}
    /\ UNCHANGED <<pvars, pendings, handler, ed_init, ovars, etype, target, hpc>>

\* Mutant of EmitAddHandler: the range check of the type is dropped.
EmitAddHandlerUnchecked(t, m, ty) ==
    /\ AtCall(t)
    /\ life[m] = "live"
    /\ \A u \in Threads : ~Destroying(u, m)
    /\ handler' = [handler EXCEPT ![m] = @ \cup {NoType}]
    /\ UNCHANGED <<pvars, life, init, pendings, emits, ed_init, ovars, etype, target, hpc>>

EmitAddHandler(t, m, ty) ==
    /\ AtCall(t)
    /\ life[m] = "live"
    /\ \A u \in Threads : ~Destroying(u, m)
    /\ handler' = [handler EXCEPT ![m] = @ \cup {ty}]
    /\ UNCHANGED <<pvars, life, init, pendings, emits, ed_init, ovars, etype, target, hpc>>

\* emit_rmv_watch, which emitter.h declares as emit_rmv_handler.
EmitRmvWatch(t, m, ty) ==
    /\ Removes
    /\ AtCall(t)
    /\ life[m] = "live"
    /\ \A u \in Threads : ~Destroying(u, m)
    /\ handler' = [handler EXCEPT ![m] = @ \ {ty}]
    /\ UNCHANGED <<pvars, life, init, pendings, emits, ed_init, ovars, etype, target, hpc>>

-----------------------------------------------------------------------------
(* emit_dispatch *)

\* The call with an event of type ty; the range check in front of the code
\* below refuses other types with -ERANGE and changes nothing.
EmitDispatch(t, m, e, ty) ==
    /\ AtCall(t)
    /\ life[m] = "live"
    /\ Quiet => \A u \in Threads : ~Destroying(u, m)
    /\ Owned(e)
    /\ pendings[m] < MaxPendings
    /\ etype' = [etype EXCEPT ![e] = ty]
    /\ om' = [om EXCEPT ![t] = m]
    /\ oe' = [oe EXCEPT ![t] = e]
    /\ At(t, "handler?")
    /\ UNCHANGED <<pvars, mvars, target, hpc>>

TestHandler(t) ==
    /\ opc[t] = "handler?"
    /\ IF etype[oe[t]] \in handler[om[t]]
       THEN At(t, "init?") /\ UNCHANGED <<om, oe>>
       ELSE Leave(t)       \* -ENOENT
    /\ UNCHANGED <<pvars, mvars, etype, target, hpc>>

TestInit(t) ==
    /\ opc[t] = "init?"
    /\ IF init[om[t]] # 0
       THEN /\ target' = [target EXCEPT ![oe[t]] = om[t]]
            /\ At(t, "inc")
            /\ UNCHANGED <<om, oe>>
       ELSE /\ Leave(t)    \* -EINVAL
            /\ UNCHANGED target
    /\ UNCHANGED <<pvars, mvars, etype, hpc>>

\* Mutant of IncPendings: ee_pendings++ without the atomic, the increment is lost.
IncPendingsLost(t) ==
    /\ opc[t] = "inc"
    /\ pendings' \in {pendings, [pendings EXCEPT ![om[t]] = @ + 1]}
    /\ At(t, "submit")
    /\ UNCHANGED <<pvars, life, init, handler, emits, ed_init, om, oe, etype, target, hpc>>

IncPendings(t) ==
    /\ opc[t] = "inc"
    /\ pendings' = [pendings EXCEPT ![om[t]] = @ + 1]
    /\ At(t, "submit")
    /\ UNCHANGED <<pvars, life, init, handler, emits, ed_init, om, oe, etype, target, hpc>>

\* __edp_dispatch accepts the event for a worker of its choice.
Submit(t, w) ==
    /\ opc[t] = "submit"
    /\ Pool!Submit(w, oe[t], NORM)
    /\ Leave(t)
    /\ UNCHANGED <<mvars, etype, target, hpc>>

\* __edp_dispatch returns -ERANGE: ee_pendings is not decremented.
SubmitFails(t) ==
    /\ BadPriority
    /\ opc[t] = "submit"
    /\ Leave(t)
    /\ UNCHANGED <<pvars, mvars, etype, target, hpc>>

-----------------------------------------------------------------------------
(* emit_event_handler, on a worker *)

StartHandler(w, e) ==
    /\ hpc[w] = "idle"
    /\ Pool!Start(w, e)
    /\ hpc' = [hpc EXCEPT ![w] = "enter"]
    /\ UNCHANGED <<mvars, ovars, etype, target>>

\* The early return: the handler was removed, the callback gets -ENOENT and
\* ee_pendings is not decremented.
NoHandler(w) ==
    LET e == running[w] IN
    /\ hpc[w] = "enter"
    /\ etype[e] \notin handler[target[e]]
    /\ hpc' = [hpc EXCEPT ![w] = "done"]
    /\ UNCHANGED <<pvars, mvars, ovars, etype, target>>

CallHandler(w) ==
    LET e == running[w] IN
    /\ hpc[w] = "enter"
    /\ etype[e] \in handler[target[e]]
    /\ hpc' = [hpc EXCEPT ![w] = "handler"]
    /\ UNCHANGED <<pvars, mvars, ovars, etype, target>>

DecPendings(w) ==
    /\ hpc[w] = "handler"
    /\ opc[w] = "idle"
    /\ pendings' = [pendings EXCEPT ![target[running[w]]] = @ - 1]
    /\ hpc' = [hpc EXCEPT ![w] = "done"]
    /\ UNCHANGED <<pvars, life, init, handler, emits, ed_init, ovars, etype, target>>

\* edp_event_done: the callback owns the event.
EventDone(w) ==
    /\ hpc[w] = "done"
    /\ Pool!Finish(w)
    /\ hpc' = [hpc EXCEPT ![w] = "callback"]
    /\ UNCHANGED <<mvars, ovars, etype, target>>

CallbackReturns(w) ==
    /\ hpc[w] = "callback"
    /\ opc[w] = "idle"
    /\ hpc' = [hpc EXCEPT ![w] = "idle"]
    /\ UNCHANGED <<pvars, mvars, ovars, etype, target>>

-----------------------------------------------------------------------------
(* emit_destroy, emit_init and emit_fini *)

EmitDestroy(t, m) ==
    /\ AtCall(t)
    /\ life[m] = "live"
    /\ \A u \in Threads : ~Destroying(u, m)
    /\ Quiet => \A u \in Threads : ~Dispatching(u, m)
    /\ om' = [om EXCEPT ![t] = m]
    /\ At(t, "pendings?")
    /\ UNCHANGED <<pvars, mvars, oe, etype, target, hpc>>

\* "edpu still have pending events!", -EINVAL
RefuseDestroy(t) ==
    /\ opc[t] = "pendings?"
    /\ pendings[om[t]] # 0
    /\ Leave(t)
    /\ UNCHANGED <<pvars, mvars, etype, target, hpc>>

\* Mutant of PassPendings: emit_destroy does not look at ee_pendings.
PassPendingsUnchecked(t) ==
    /\ opc[t] = "pendings?"
    /\ At(t, "clear")
    /\ UNCHANGED <<pvars, mvars, om, oe, etype, target, hpc>>

PassPendings(t) ==
    /\ opc[t] = "pendings?"
    /\ pendings[om[t]] = 0
    /\ At(t, "clear")
    /\ UNCHANGED <<pvars, mvars, om, oe, etype, target, hpc>>

ClearInit(t) ==
    /\ opc[t] = "clear"
    /\ init' = [init EXCEPT ![om[t]] = 0]
    /\ At(t, "unlink")
    /\ UNCHANGED <<pvars, life, pendings, handler, emits, ed_init, om, oe, etype, target, hpc>>

UnlinkEmit(t) ==
    /\ opc[t] = "unlink"
    /\ emits' = emits \ {om[t]}
    /\ At(t, "release")
    /\ UNCHANGED <<pvars, life, init, pendings, handler, ed_init, om, oe, etype, target, hpc>>

FreeEmit(t) ==
    /\ opc[t] = "release"
    /\ life' = [life EXCEPT ![om[t]] = "freed"]
    /\ Leave(t)
    /\ UNCHANGED <<pvars, init, pendings, handler, emits, ed_init, etype, target, hpc>>

\* emit_fini gives up while an emit is on the list; emit_init resets the list.
EmitFini ==
    /\ ed_init = 1
    /\ emits = {}
    /\ ed_init' = 0
    /\ UNCHANGED <<pvars, life, init, pendings, handler, emits, ovars, etype, target, hpc>>

EmitInit ==
    /\ ed_init = 0
    /\ ed_init' = 1
    /\ emits' = {}
    /\ UNCHANGED <<pvars, life, init, pendings, handler, ovars, etype, target, hpc>>

-----------------------------------------------------------------------------
CallStep(t) == \/ TestHandler(t) \/ TestInit(t) \/ IncPendings(t) \/ SubmitFails(t)
               \/ \E w \in Workers : Submit(t, w)
               \/ RefuseDestroy(t) \/ PassPendings(t) \/ ClearInit(t)
               \/ UnlinkEmit(t) \/ FreeEmit(t)

HandlerStep(w) == \/ \E e \in Events : StartHandler(w, e)
                  \/ NoHandler(w) \/ CallHandler(w) \/ DecPendings(w)
                  \/ EventDone(w) \/ CallbackReturns(w)

Next == \/ \E t \in Threads, m \in Emits :
             \/ EmitCreate(t, m) \/ EmitDestroy(t, m)
             \/ \E ty \in Types : \/ EmitAddHandler(t, m, ty) \/ EmitRmvWatch(t, m, ty)
                                  \/ \E e \in Events : EmitDispatch(t, m, e, ty)
        \/ \E t \in Threads : CallStep(t)
        \/ \E w \in Workers : HandlerStep(w)
        \/ EmitFini \/ EmitInit

Spec == Init /\ [][Next]_vars

-----------------------------------------------------------------------------
(* Properties *)

\* Types of all variables; a thread in a call has its emit, and its event when
\* the call is emit_dispatch; a worker in emit_event_handler has an event.
TypeOK ==
    /\ waiting \in [Workers -> SUBSET (Events \X {NORM})]
    /\ ahead \subseteq Events \X Events
    /\ running \in [Workers -> Events \cup {NoEvent}]
    /\ life \in [Emits -> {"none", "live", "freed"}]
    /\ init \in [Emits -> {0, 1}]
    /\ pendings \in [Emits -> Int]
    /\ handler \in [Emits -> SUBSET Types]
    /\ emits \subseteq Emits
    /\ ed_init \in {0, 1}
    /\ etype \in [Events -> Types \cup {NoType}]
    /\ target \in [Events -> Emits \cup {NoEmit}]
    /\ opc \in [Threads -> {"idle", "handler?", "init?", "inc", "submit",
                             "pendings?", "clear", "unlink", "release"}]
    /\ om \in [Threads -> Emits \cup {NoEmit}]
    /\ \A t \in Threads : om[t] = NoEmit <=> opc[t] = "idle"
    /\ oe \in [Threads -> Events \cup {NoEvent}]
    /\ \A t \in Threads : oe[t] # NoEvent <=> opc[t] \in {"handler?", "init?", "inc", "submit"}
    /\ hpc \in [Workers -> {"idle", "enter", "handler", "done", "callback"}]
    /\ \A w \in Workers : running[w] # NoEvent <=> hpc[w] \in {"enter", "handler", "done"}

\* Event e was counted for emit m and its handler has not returned.
Outstanding(e, m) ==
    /\ target[e] = m
    /\ \/ \E t \in Threads : oe[t] = e /\ opc[t] = "submit"
       \/ \E w \in Workers : \/ Pool!Waits(w, e)
                             \/ running[w] = e /\ hpc[w] \in {"enter", "handler"}

\* ee_pendings never falls below the number of events under way, whatever
\* handlers are removed and dispatches refused (emitter.c:71-84, 117-119).
PendingsCover ==
    \A m \in Emits : pendings[m] >= Cardinality({e \in Events : Outstanding(e, m)})

\* The emit of an event is allocated from the moment the event is counted to the
\* return of its handler, so its magic (the ASSERT of emit_event_handler,
\* emitter.c:62), its handler table and its count are there (emitter.c:117-119, 82).
EmitAlive ==
    \A e \in Events, m \in Emits : Outstanding(e, m) => life[m] = "live"

\* emit_fini succeeds only when no event of any emit is under way, although it
\* looks only at the list of emits (emitter.c:252-256).
FiniSafe ==
    ed_init = 0 => \A e \in Events, m \in Emits : ~Outstanding(e, m)
=============================================================================
