---------------------------- MODULE EdpEmitProofs ----------------------------
(****************************************************************************)
(* Theorems about EdpEmit for every set of workers, clients, emits, events  *)
(* and types.                                                               *)
(****************************************************************************)
EXTENDS EdpEmit, FiniteSetTheorems, TLAPS

\* The initial state has the right types.
LEMMA TypeInit == Init => TypeOK
  BY EmitAssumption DEF EmitAssumption, Init, TypeOK, Pool!Init, Threads

\* What the steps of emit_dispatch and emit_destroy keep of the types.
LEMMA CallTypes == ASSUME TypeOK, NEW t \in Threads, CallStep(t) PROVE TypeOK'
<1> USE EmitAssumption DEF EmitAssumption, TypeOK, pvars, mvars, ovars, At, Leave
<1>1. CASE TestHandler(t)
  BY <1>1 DEF TestHandler
<1>2. CASE TestInit(t)
  BY <1>2 DEF TestInit
<1>3. CASE IncPendings(t)
  BY <1>3 DEF IncPendings
<1>4. CASE SubmitFails(t)
  BY <1>4 DEF SubmitFails
<1>5. ASSUME NEW w \in Workers, Submit(t, w) PROVE TypeOK'
  <2>1. oe[t] \in Events
    BY <1>5 DEF Submit
  <2>2. /\ waiting' = [waiting EXCEPT ![w] = @ \cup {<<oe[t], NORM>>}]
        /\ ahead' = ahead \cup {<<f, oe[t]>> : f \in {g \in Events : NORM \in {NORM} /\ <<g, NORM>> \in waiting[w]}}
        /\ running' = running
    BY <1>5 DEF Submit, Pool!Submit
  <2>3. waiting' \in [Workers -> SUBSET (Events \X {NORM})]
    BY <2>1, <2>2
  <2>4. ahead' \subseteq Events \X Events
    <3>1. \A x \in ahead' : x \in ahead \/ \E f \in Events : x = <<f, oe[t]>>
      BY <2>2
    <3>2. QED
      BY <2>1, <3>1
  <2>5. QED
    BY <1>5, <2>2, <2>3, <2>4 DEF Submit
<1>6. CASE RefuseDestroy(t)
  BY <1>6 DEF RefuseDestroy
<1>7. CASE PassPendings(t)
  BY <1>7 DEF PassPendings
<1>8. CASE ClearInit(t)
  BY <1>8 DEF ClearInit
<1>9. CASE UnlinkEmit(t)
  BY <1>9 DEF UnlinkEmit
<1>10. CASE FreeEmit(t)
  BY <1>10 DEF FreeEmit
<1>11. QED
  BY <1>1, <1>2, <1>3, <1>4, <1>5, <1>6, <1>7, <1>8, <1>9, <1>10 DEF CallStep

\* The same for the steps of emit_event_handler.
LEMMA HandlerTypes == ASSUME TypeOK, NEW w \in Workers, HandlerStep(w) PROVE TypeOK'
<1> USE EmitAssumption DEF EmitAssumption, TypeOK, pvars, mvars, ovars
<1>1. ASSUME NEW e \in Events, StartHandler(w, e) PROVE TypeOK'
  <2>1. /\ running' = [running EXCEPT ![w] = e]
        /\ waiting' = [waiting EXCEPT ![w] = {x \in @ : x[1] # e}]
        /\ ahead' = {x \in ahead : x[1] # e}
        /\ hpc' = [hpc EXCEPT ![w] = "enter"]
        /\ e # NoEvent
        /\ UNCHANGED <<mvars, ovars, etype, target>>
    BY <1>1 DEF StartHandler, Pool!Start
  <2>2. waiting' \in [Workers -> SUBSET (Events \X {NORM})]
    BY <2>1
  <2>3. QED
    BY <2>1, <2>2
<1>2. CASE NoHandler(w)
  BY <1>2 DEF NoHandler
<1>3. CASE CallHandler(w)
  BY <1>3 DEF CallHandler
<1>4. CASE DecPendings(w)
  <2>1. pendings' \in [Emits -> Int]
    <3>1. pendings' = [pendings EXCEPT ![target[running[w]]] = pendings[target[running[w]]] - 1]
      BY <1>4 DEF DecPendings
    <3>2. CASE target[running[w]] \in Emits
      BY ONLY <3>1, <3>2, pendings \in [Emits -> Int]
    <3>3. CASE target[running[w]] \notin Emits
      BY ONLY <3>1, <3>3, pendings \in [Emits -> Int]
    <3>4. QED
      BY <3>2, <3>3
  <2>2. QED
    BY <1>4, <2>1 DEF DecPendings
<1>5. CASE EventDone(w)
  BY <1>5 DEF EventDone, Pool!Finish
<1>6. CASE CallbackReturns(w)
  BY <1>6 DEF CallbackReturns
<1>7. QED
  BY <1>1, <1>2, <1>3, <1>4, <1>5, <1>6 DEF HandlerStep

\* The same for the calls of the application.
LEMMA EntryTypes ==
  ASSUME TypeOK, NEW t \in Threads, NEW m \in Emits,
         \/ EmitCreate(t, m) \/ EmitDestroy(t, m)
         \/ \E ty \in Types : \/ EmitAddHandler(t, m, ty) \/ EmitRmvWatch(t, m, ty)
                              \/ \E e \in Events : EmitDispatch(t, m, e, ty)
  PROVE  TypeOK'
<1> USE EmitAssumption DEF EmitAssumption, TypeOK, pvars, mvars, ovars, At, AtCall
<1>1. CASE EmitCreate(t, m)
  BY <1>1 DEF EmitCreate
<1>2. CASE EmitDestroy(t, m)
  BY <1>2 DEF EmitDestroy
<1>3. ASSUME NEW ty \in Types, EmitAddHandler(t, m, ty) PROVE TypeOK'
  BY <1>3 DEF EmitAddHandler
<1>4. ASSUME NEW ty \in Types, EmitRmvWatch(t, m, ty) PROVE TypeOK'
  BY <1>4 DEF EmitRmvWatch
<1>5. ASSUME NEW ty \in Types, NEW e \in Events, EmitDispatch(t, m, e, ty) PROVE TypeOK'
  BY <1>5 DEF EmitDispatch
<1>6. QED
  BY <1>1, <1>2, <1>3, <1>4, <1>5

\* TypeOK is inductive.
LEMMA TypeStep == TypeOK /\ [Next]_vars => TypeOK'
<1>1. ASSUME TypeOK, EmitFini \/ EmitInit PROVE TypeOK'
  BY <1>1 DEF EmitFini, EmitInit, TypeOK, pvars, mvars, ovars
<1>2. ASSUME TypeOK, UNCHANGED vars PROVE TypeOK'
  BY <1>2 DEF TypeOK, vars, pvars, mvars, ovars
<1>3. QED
  BY <1>1, <1>2, CallTypes, HandlerTypes, EntryTypes DEF Next

\* Every variable keeps its type; a thread in a call has its emit and its event,
\* a worker in emit_event_handler has an event.
THEOREM TypeCorrect == Spec => []TypeOK
  BY TypeInit, TypeStep, PTL DEF Spec

-----------------------------------------------------------------------------
(* Who has an event. *)

\* Worker w has event e, waiting or in its handler.
Has(w, e) == running[w] = e \/ <<e, NORM>> \in waiting[w]

\* An event is in one call, or with one worker, or the application's; the event
\* of a call that is past its tests has the emit of the call.
OwnInv ==
    /\ \A t, u \in Threads : oe[t] # NoEvent /\ oe[u] = oe[t] => u = t
    /\ \A t \in Threads, w \in Workers : oe[t] # NoEvent => ~Has(w, oe[t])
    /\ \A e \in Events, v, w \in Workers : Has(v, e) /\ Has(w, e) => v = w
    /\ \A e \in Events, w \in Workers : ~(running[w] = e /\ <<e, NORM>> \in waiting[w])
    /\ \A t \in Threads : opc[t] \in {"inc", "submit"} => target[oe[t]] = om[t]

\* The events waiting for a worker in EventPool.
LEMMA WaitsIs ==
  ASSUME NEW w \in Workers, NEW e \in Events
  PROVE  /\ TypeOK => (Pool!Waits(w, e) <=> <<e, NORM>> \in waiting[w])
         /\ TypeOK' => (Pool!Waits(w, e)' <=> <<e, NORM>> \in waiting'[w])
  BY DEF TypeOK, Pool!Waits

\* The steps that change who has an event or what a call is about.
LEMMA Quiescent ==
  ASSUME OwnInv, UNCHANGED <<waiting, running, om, oe, target>>,
         \A t \in Threads : opc'[t] \in {"inc", "submit"} => opc[t] \in {"inc", "submit"}
  PROVE  OwnInv'
  BY DEF OwnInv, Has

\* A call that returns without the event reaching the pool gives it back.
LEMMA LeaveOwn ==
  ASSUME TypeOK, OwnInv, NEW t \in Threads, Leave(t), UNCHANGED <<waiting, running, target>>
  PROVE  OwnInv'
  BY DEF TypeOK, OwnInv, Has, Leave, At

\* What the steps of a call keep of OwnInv.
LEMMA CallOwn == ASSUME TypeOK, OwnInv, NEW t \in Threads, CallStep(t) PROVE OwnInv'
<1> USE DEF pvars, mvars, ovars, At
<1>1. CASE TestHandler(t)
  <2>1. CASE Leave(t)
    BY <1>1, <2>1, LeaveOwn DEF TestHandler
  <2>2. CASE ~Leave(t)
    BY <1>1, <2>2, Quiescent DEF TestHandler, TypeOK
  <2>3. QED
    BY <2>1, <2>2
<1>2. CASE TestInit(t)
  <2>1. CASE init[om[t]] = 0
    BY <1>2, <2>1, LeaveOwn DEF TestInit
  <2>2. CASE init[om[t]] # 0
    <3>1. /\ opc[t] = "init?" /\ oe[t] \in Events
          /\ target' = [target EXCEPT ![oe[t]] = om[t]] /\ opc' = [opc EXCEPT ![t] = "inc"]
          /\ UNCHANGED <<waiting, running, om, oe>>
      BY <1>2, <2>2 DEF TestInit, TypeOK
    <3>2. \A u \in Threads : opc'[u] \in {"inc", "submit"} => target'[oe[u]] = om[u]
      <4> SUFFICES ASSUME NEW u \in Threads, opc'[u] \in {"inc", "submit"} PROVE target'[oe[u]] = om[u]
        OBVIOUS
      <4>1. CASE u = t
        BY <3>1, <4>1 DEF TypeOK
      <4>2. CASE u # t
        <5>1. opc[u] \in {"inc", "submit"} /\ oe[u] \in Events
          BY <3>1, <4>2 DEF TypeOK
        <5>2. oe[u] # oe[t]
          BY <4>2, <5>1, EmitAssumption DEF OwnInv, EmitAssumption
        <5>3. QED
          BY <3>1, <5>1, <5>2 DEF OwnInv, TypeOK
      <4>3. QED
        BY <4>1, <4>2
    <3>3. QED
      BY <3>1, <3>2 DEF OwnInv, Has
  <2>3. QED
    BY <2>1, <2>2
<1>3. CASE IncPendings(t)
  BY <1>3, Quiescent DEF IncPendings, TypeOK
<1>4. CASE SubmitFails(t)
  BY <1>4, LeaveOwn DEF SubmitFails
<1>5. ASSUME NEW w \in Workers, Submit(t, w) PROVE OwnInv'
  <2>1. PICK e \in Events : e = oe[t]
    BY <1>5 DEF Submit, TypeOK
  <2>2. /\ waiting' = [waiting EXCEPT ![w] = @ \cup {<<e, NORM>>}]
        /\ UNCHANGED <<running, target>>
        /\ opc' = [opc EXCEPT ![t] = "idle"] /\ om' = [om EXCEPT ![t] = NoEmit]
        /\ oe' = [oe EXCEPT ![t] = NoEvent]
    BY <1>5, <2>1 DEF Submit, Pool!Submit, Leave
  <2>3. \A f \in Events, v \in Workers :
           <<f, NORM>> \in waiting'[v] <=> <<f, NORM>> \in waiting[v] \/ (f = e /\ v = w)
    BY <2>2 DEF TypeOK
  <2>4. \A v \in Workers : ~Has(v, e)
    BY <2>1, EmitAssumption DEF OwnInv, EmitAssumption
  <2>5. \A f \in Events, v \in Workers : Has(v, f)' <=> Has(v, f) \/ (f = e /\ v = w)
    BY <2>2, <2>3 DEF Has
  <2>6. \A u \in Threads : oe'[u] # NoEvent => u # t /\ oe'[u] = oe[u] /\ oe[u] # e /\ oe[u] \in Events
    BY <2>1, <2>2, EmitAssumption DEF OwnInv, TypeOK, EmitAssumption
  <2>7. \A u \in Threads : opc'[u] \in {"inc", "submit"} => u # t /\ opc'[u] = opc[u] /\ oe'[u] = oe[u] /\ om'[u] = om[u]
    BY <2>2 DEF TypeOK
  <2>8. \A f \in Events, v \in Workers : ~(running'[v] = f /\ <<f, NORM>> \in waiting'[v])
    BY <2>2, <2>3, <2>4 DEF OwnInv, Has
  <2>9. QED
    BY <2>2, <2>4, <2>5, <2>6, <2>7, <2>8 DEF OwnInv
<1>6. CASE RefuseDestroy(t)
  BY <1>6, LeaveOwn DEF RefuseDestroy
<1>7. CASE PassPendings(t)
  BY <1>7, Quiescent DEF PassPendings, TypeOK
<1>8. CASE ClearInit(t)
  BY <1>8, Quiescent DEF ClearInit, TypeOK
<1>9. CASE UnlinkEmit(t)
  BY <1>9, Quiescent DEF UnlinkEmit, TypeOK
<1>10. CASE FreeEmit(t)
  BY <1>10, LeaveOwn DEF FreeEmit
<1>11. QED
  BY <1>1, <1>2, <1>3, <1>4, <1>5, <1>6, <1>7, <1>8, <1>9, <1>10 DEF CallStep

\* What a worker that takes an event off its queue has afterwards.
LEMMA StartHas ==
  ASSUME TypeOK, OwnInv, NEW w \in Workers, NEW e \in Events, StartHandler(w, e)
  PROVE  /\ <<e, NORM>> \in waiting[w] /\ running[w] = NoEvent
         /\ running' = [running EXCEPT ![w] = e] /\ hpc' = [hpc EXCEPT ![w] = "enter"]
         /\ \A f \in Events, v \in Workers :
               <<f, NORM>> \in waiting'[v] <=> <<f, NORM>> \in waiting[v] /\ ~(f = e /\ v = w)
         /\ UNCHANGED <<opc, om, oe, target>>
<1>1. /\ Pool!Waits(w, e) /\ running[w] = NoEvent
      /\ running' = [running EXCEPT ![w] = e] /\ hpc' = [hpc EXCEPT ![w] = "enter"]
      /\ waiting' = [waiting EXCEPT ![w] = {x \in @ : x[1] # e}]
      /\ UNCHANGED <<opc, om, oe, target>>
  BY DEF StartHandler, Pool!Start, ovars
<1>2. \A f \in Events, v \in Workers :
         <<f, NORM>> \in waiting'[v] <=> <<f, NORM>> \in waiting[v] /\ ~(f = e /\ v = w)
  <2> TAKE f \in Events, v \in Workers
  <2>1. CASE v = w
    <3>1. waiting'[w] = {x \in waiting[w] : x[1] # e}
      BY <1>1 DEF TypeOK
    <3>2. QED
      BY <2>1, <3>1
  <2>2. CASE v # w
    BY <1>1, <2>2 DEF TypeOK
  <2>3. QED
    BY <2>1, <2>2
<1>3. QED
  BY <1>1, <1>2, WaitsIs

\* What the steps of emit_event_handler keep of OwnInv.
LEMMA HandlerOwn == ASSUME TypeOK, OwnInv, NEW w \in Workers, HandlerStep(w) PROVE OwnInv'
<1> USE DEF pvars, mvars, ovars
<1>1. ASSUME NEW e \in Events, StartHandler(w, e) PROVE OwnInv'
  <2>1. /\ <<e, NORM>> \in waiting[w] /\ running[w] = NoEvent
        /\ running' = [running EXCEPT ![w] = e]
        /\ \A f \in Events, v \in Workers :
               <<f, NORM>> \in waiting'[v] <=> <<f, NORM>> \in waiting[v] /\ ~(f = e /\ v = w)
        /\ UNCHANGED <<opc, om, oe, target>>
    BY <1>1, StartHas
  <2>2. \A f \in Events, v \in Workers : running'[v] = f <=> (v # w /\ running[v] = f) \/ (v = w /\ f = e)
    BY <2>1 DEF TypeOK
  <2>3. \A f \in Events, v \in Workers : Has(v, f)' <=> Has(v, f)
    BY <2>1, <2>2, EmitAssumption DEF Has, EmitAssumption
  <2>4. \A f \in Events, v \in Workers : ~(running'[v] = f /\ <<f, NORM>> \in waiting'[v])
    BY <2>1, <2>2 DEF OwnInv
  <2>5. \A u \in Threads : oe[u] # NoEvent => oe[u] \in Events
    BY DEF TypeOK
  <2>6. QED
    BY <2>1, <2>3, <2>4, <2>5 DEF OwnInv
<1>2. CASE NoHandler(w) \/ CallHandler(w) \/ DecPendings(w) \/ CallbackReturns(w)
  BY <1>2, Quiescent DEF NoHandler, CallHandler, DecPendings, CallbackReturns
<1>3. CASE EventDone(w)
  <2>1. running' = [running EXCEPT ![w] = NoEvent] /\ UNCHANGED <<waiting, opc, om, oe, target>>
    BY <1>3 DEF EventDone, Pool!Finish
  <2>2. \A f \in Events, v \in Workers : running'[v] = f => running[v] = f
    BY <2>1, EmitAssumption DEF EmitAssumption, TypeOK
  <2>3. \A f \in Events, v \in Workers : Has(v, f)' => Has(v, f)
    BY <2>1, <2>2 DEF Has
  <2>4. \A u \in Threads : oe[u] # NoEvent => oe[u] \in Events
    BY DEF TypeOK
  <2>5. QED
    BY <2>1, <2>2, <2>3, <2>4 DEF OwnInv
<1>4. QED
  BY <1>1, <1>2, <1>3 DEF HandlerStep

\* OwnInv is inductive.
LEMMA OwnStep == TypeOK /\ OwnInv /\ [Next]_vars => OwnInv'
<1> SUFFICES ASSUME TypeOK, OwnInv, [Next]_vars PROVE OwnInv'
  OBVIOUS
<1> USE DEF pvars, mvars, ovars
<1>1. ASSUME NEW t \in Threads, NEW m \in Emits, EmitCreate(t, m) PROVE OwnInv'
  BY <1>1, Quiescent DEF EmitCreate
<1>2. ASSUME NEW t \in Threads, NEW m \in Emits, EmitDestroy(t, m) PROVE OwnInv'
  BY <1>2 DEF EmitDestroy, TypeOK, OwnInv, Has, AtCall, At
<1>3. ASSUME NEW t \in Threads, NEW m \in Emits, NEW ty \in Types,
             EmitAddHandler(t, m, ty) \/ EmitRmvWatch(t, m, ty)
      PROVE  OwnInv'
  BY <1>3, Quiescent DEF EmitAddHandler, EmitRmvWatch
<1>4. ASSUME NEW t \in Threads, NEW m \in Emits, NEW e \in Events, NEW ty \in Types, EmitDispatch(t, m, e, ty)
      PROVE  OwnInv'
  <2>1. /\ om' = [om EXCEPT ![t] = m] /\ oe' = [oe EXCEPT ![t] = e] /\ opc' = [opc EXCEPT ![t] = "handler?"]
        /\ UNCHANGED <<waiting, running, target>>
        /\ Owned(e)
    BY <1>4 DEF EmitDispatch, At
  <2>2. \A w \in Workers : ~Has(w, e)
    BY <2>1, WaitsIs DEF Owned, Has, Pool!Held
  <2>3. \A u \in Threads : oe[u] # e
    BY <2>1 DEF Owned
  <2>4. \A f, v : Has(v, f)' <=> Has(v, f)
    BY <2>1 DEF Has
  <2>5. /\ oe'[t] = e
        /\ \A u \in Threads \ {t} : oe'[u] = oe[u] /\ om'[u] = om[u] /\ opc'[u] = opc[u]
        /\ opc'[t] = "handler?"
    BY <2>1 DEF TypeOK
  <2>6. QED
    BY <2>1, <2>2, <2>3, <2>4, <2>5 DEF OwnInv
<1>5. CASE EmitFini \/ EmitInit
  BY <1>5, Quiescent DEF EmitFini, EmitInit
<1>6. CASE UNCHANGED vars
  BY <1>6, Quiescent DEF vars
<1>7. QED
  BY <1>1, <1>2, <1>3, <1>4, <1>5, <1>6, CallOwn, HandlerOwn DEF Next

-----------------------------------------------------------------------------
(* The count of an emit covers its events. *)

\* Outstanding, with the waiting events written out.
Counted(e, m) ==
    /\ target[e] = m
    /\ \/ \E t \in Threads : oe[t] = e /\ opc[t] = "submit"
       \/ \E w \in Workers : \/ <<e, NORM>> \in waiting[w]
                             \/ running[w] = e /\ hpc[w] \in {"enter", "handler"}

\* The two are the same, before and after a step.
LEMMA CountedIs ==
  ASSUME NEW e \in Events, NEW m \in Emits
  PROVE  /\ TypeOK => (Outstanding(e, m) <=> Counted(e, m))
         /\ TypeOK' => (Outstanding(e, m)' <=> Counted(e, m)')
<1>1. ASSUME TypeOK PROVE Outstanding(e, m) <=> Counted(e, m)
  BY <1>1, WaitsIs DEF Outstanding, Counted
<1>2. ASSUME TypeOK' PROVE Outstanding(e, m)' <=> Counted(e, m)'
  BY <1>2, WaitsIs DEF Outstanding, Counted
<1>3. QED
  BY <1>1, <1>2

\* A step that keeps what makes an event count.
LEMMA CountedFrame ==
  ASSUME NEW e \in Events, NEW m \in Emits,
         UNCHANGED <<waiting, running, target>>,
         \A t \in Threads : oe'[t] = e /\ opc'[t] = "submit" => oe[t] = e /\ opc[t] = "submit",
         \A w \in Workers : running[w] = e /\ hpc'[w] \in {"enter", "handler"} => hpc[w] \in {"enter", "handler"},
         Counted(e, m)'
  PROVE  Counted(e, m)
  BY DEF Counted

\* Only the increment makes an event count; a call that leaves, a submission and
\* the steps of the handler count no more than before.
LEMMA CallCounts ==
  ASSUME TypeOK, OwnInv, NEW t \in Threads, CallStep(t), NEW e \in Events, NEW m \in Emits, Counted(e, m)'
  PROVE  Counted(e, m) \/ (IncPendings(t) /\ e = oe[t] /\ m = om[t])
<1> USE DEF pvars, mvars, ovars, At
<1>1. CASE TestHandler(t)
  BY <1>1, CountedFrame, EmitAssumption DEF EmitAssumption, TestHandler, Leave, TypeOK
<1>2. CASE TestInit(t)
  <2>1. CASE init[om[t]] = 0
    BY <1>2, <2>1, CountedFrame, EmitAssumption DEF EmitAssumption, TestInit, Leave, TypeOK
  <2>2. CASE init[om[t]] # 0
    <3>1. /\ opc[t] = "init?" /\ oe[t] \in Events
          /\ target' = [target EXCEPT ![oe[t]] = om[t]] /\ opc' = [opc EXCEPT ![t] = "inc"]
          /\ UNCHANGED <<waiting, running, om, oe, hpc>>
      BY <1>2, <2>2 DEF TestInit, TypeOK
    <3>2. CASE e = oe[t]
      <4>1. /\ \A w \in Workers : running[w] # e /\ <<e, NORM>> \notin waiting[w]
            /\ \A u \in Threads : oe[u] = e => u = t
        BY <3>1, <3>2, EmitAssumption DEF OwnInv, Has, EmitAssumption
      <4>2. opc'[t] = "inc"
        BY <3>1 DEF TypeOK
      <4>3. QED
        BY <3>1, <4>1, <4>2 DEF Counted
    <3>3. CASE e # oe[t]
      <4>1. target'[e] = target[e]
        BY <3>1, <3>3 DEF TypeOK
      <4>2. \A u \in Threads : opc'[u] = "submit" => opc[u] = "submit"
        BY <3>1 DEF TypeOK
      <4>3. QED
        BY <3>1, <4>1, <4>2 DEF Counted
    <3>4. QED
      BY <3>2, <3>3
  <2>3. QED
    BY <2>1, <2>2
<1>3. CASE IncPendings(t)
  <2>1. /\ opc[t] = "inc" /\ opc' = [opc EXCEPT ![t] = "submit"] /\ target[oe[t]] = om[t]
        /\ UNCHANGED <<waiting, running, om, oe, target, hpc>>
    BY <1>3 DEF IncPendings, OwnInv
  <2>2. CASE e # oe[t]
    BY <1>3, <2>1, <2>2, CountedFrame DEF TypeOK
  <2>3. CASE e = oe[t]
    BY <1>3, <2>1, <2>3 DEF Counted
  <2>4. QED
    BY <2>2, <2>3
<1>4. CASE SubmitFails(t)
  BY <1>4, CountedFrame, EmitAssumption DEF EmitAssumption, SubmitFails, Leave, TypeOK
<1>5. ASSUME NEW w \in Workers, Submit(t, w) PROVE Counted(e, m)
  <2>1. /\ waiting' = [waiting EXCEPT ![w] = @ \cup {<<oe[t], NORM>>}]
        /\ UNCHANGED <<running, target, hpc>>
        /\ opc[t] = "submit"
        /\ opc' = [opc EXCEPT ![t] = "idle"] /\ oe' = [oe EXCEPT ![t] = NoEvent]
    BY <1>5 DEF Submit, Pool!Submit, Leave
  <2>2. \A v \in Workers : <<e, NORM>> \in waiting'[v] => <<e, NORM>> \in waiting[v] \/ e = oe[t]
    BY <2>1 DEF TypeOK
  <2>3. \A u \in Threads : oe'[u] = e => oe[u] = e /\ opc'[u] = opc[u]
    BY <2>1, EmitAssumption DEF TypeOK, EmitAssumption
  <2>4. QED
    BY <2>1, <2>2, <2>3 DEF Counted
<1>6. CASE RefuseDestroy(t) \/ FreeEmit(t)
  BY <1>6, CountedFrame, EmitAssumption DEF EmitAssumption, RefuseDestroy, FreeEmit, Leave, TypeOK
<1>7. CASE PassPendings(t) \/ ClearInit(t) \/ UnlinkEmit(t)
  BY <1>7, CountedFrame DEF PassPendings, ClearInit, UnlinkEmit, TypeOK
<1>8. QED
  BY <1>1, <1>2, <1>3, <1>4, <1>5, <1>6, <1>7 DEF CallStep

\* The steps of a handler count no more events than before, and the decrement
\* counts one less.
LEMMA HandlerCounts ==
  ASSUME TypeOK, OwnInv, NEW w \in Workers, HandlerStep(w), NEW e \in Events, NEW m \in Emits, Counted(e, m)'
  PROVE  Counted(e, m) /\ ~(DecPendings(w) /\ e = running[w])
<1> USE DEF pvars, mvars, ovars
<1>1. ASSUME NEW f \in Events, StartHandler(w, f) PROVE Counted(e, m) /\ hpc[w] = "idle"
  <2>1. /\ <<f, NORM>> \in waiting[w] /\ running[w] = NoEvent
        /\ running' = [running EXCEPT ![w] = f] /\ hpc' = [hpc EXCEPT ![w] = "enter"]
        /\ \A g \in Events, v \in Workers :
               <<g, NORM>> \in waiting'[v] <=> <<g, NORM>> \in waiting[v] /\ ~(g = f /\ v = w)
        /\ UNCHANGED <<opc, om, oe, target>>
    BY <1>1, StartHas
  <2>2. \A v \in Workers : running'[v] = e /\ hpc'[v] \in {"enter", "handler"} =>
           \/ v = w /\ e = f
           \/ running[v] = e /\ hpc[v] \in {"enter", "handler"}
    BY <2>1 DEF TypeOK
  <2>3. Counted(e, m)
    BY <2>1, <2>2 DEF Counted
  <2>4. QED
    BY <1>1, <2>3 DEF StartHandler
<1>2. CASE NoHandler(w) \/ CallHandler(w) \/ CallbackReturns(w)
  <2>1. /\ UNCHANGED <<waiting, running, target, oe, opc>>
        /\ \A v \in Workers : hpc'[v] \in {"enter", "handler"} => hpc[v] \in {"enter", "handler"}
        /\ hpc[w] # "handler"
    BY <1>2 DEF NoHandler, CallHandler, CallbackReturns, TypeOK
  <2>2. QED
    BY <2>1, CountedFrame DEF DecPendings
<1>3. CASE DecPendings(w)
  <2>1. /\ UNCHANGED <<waiting, running, target, oe, opc>> /\ hpc[w] = "handler"
        /\ hpc' = [hpc EXCEPT ![w] = "done"]
    BY <1>3 DEF DecPendings
  <2>2. CASE e = running[w]
    <3>1. /\ \A v \in Workers : <<e, NORM>> \notin waiting[v] /\ (running[v] = e => v = w)
          /\ \A u \in Threads : oe[u] # e
      BY <2>2, EmitAssumption DEF OwnInv, Has, EmitAssumption
    <3>2. hpc'[w] = "done"
      BY <2>1 DEF TypeOK
    <3>3. QED
      BY <2>1, <3>1, <3>2 DEF Counted
  <2>3. CASE e # running[w]
    BY <2>1, <2>3, CountedFrame DEF TypeOK
  <2>4. QED
    BY <2>2, <2>3
<1>4. CASE EventDone(w)
  <2>1. /\ running' = [running EXCEPT ![w] = NoEvent] /\ UNCHANGED <<waiting, opc, oe, target>>
        /\ hpc[w] = "done" /\ hpc' = [hpc EXCEPT ![w] = "callback"]
    BY <1>4 DEF EventDone, Pool!Finish
  <2>2. \A v \in Workers : running'[v] = e => running[v] = e /\ hpc'[v] = hpc[v]
    BY <2>1, EmitAssumption DEF TypeOK, EmitAssumption
  <2>3. QED
    BY <2>1, <2>2 DEF Counted, DecPendings
<1>5. QED
  BY <1>1, <1>2, <1>3, <1>4 DEF HandlerStep, DecPendings

\* The calls of the application, emit_init and emit_fini make no event count.
LEMMA EntryCounts ==
  ASSUME TypeOK, NEW e \in Events, NEW m \in Emits, Counted(e, m)',
         \/ \E t \in Threads, n \in Emits :
              \/ EmitCreate(t, n) \/ EmitDestroy(t, n)
              \/ \E ty \in Types : \/ EmitAddHandler(t, n, ty) \/ EmitRmvWatch(t, n, ty)
                                   \/ \E f \in Events : EmitDispatch(t, n, f, ty)
         \/ EmitFini \/ EmitInit \/ UNCHANGED vars
  PROVE  Counted(e, m)
<1> USE DEF pvars, mvars, ovars, At, AtCall
<1>1. ASSUME NEW t \in Threads, NEW n \in Emits, EmitCreate(t, n) \/ EmitDestroy(t, n) PROVE Counted(e, m)
  BY <1>1, CountedFrame DEF EmitCreate, EmitDestroy, TypeOK
<1>2. ASSUME NEW t \in Threads, NEW n \in Emits, NEW ty \in Types,
             EmitAddHandler(t, n, ty) \/ EmitRmvWatch(t, n, ty)
      PROVE  Counted(e, m)
  BY <1>2, CountedFrame DEF EmitAddHandler, EmitRmvWatch
<1>3. ASSUME NEW t \in Threads, NEW n \in Emits, NEW ty \in Types, NEW f \in Events, EmitDispatch(t, n, f, ty)
      PROVE  Counted(e, m)
  BY <1>3, CountedFrame DEF EmitDispatch, TypeOK
<1>4. CASE EmitFini \/ EmitInit \/ UNCHANGED vars
  BY <1>4, CountedFrame DEF EmitFini, EmitInit, vars
<1>5. QED
  BY <1>1, <1>2, <1>3, <1>4

\* How a step changes the size of a finite set.
LEMMA SizeMoves ==
  ASSUME NEW S, NEW T, NEW x, IsFiniteSet(S), IsFiniteSet(T)
  PROVE  /\ Cardinality(S) \in Nat /\ Cardinality(T) \in Nat
         /\ T \subseteq S => Cardinality(T) <= Cardinality(S)
         /\ T \subseteq S \cup {x} => Cardinality(T) <= Cardinality(S) + 1
         /\ x \in S /\ T \subseteq S \ {x} => Cardinality(T) <= Cardinality(S) - 1
<1>1. Cardinality(S) \in Nat /\ Cardinality(T) \in Nat
  BY FS_CardinalityType
<1>2. T \subseteq S => Cardinality(T) <= Cardinality(S)
  BY FS_Subset
<1>3. ASSUME T \subseteq S \cup {x} PROVE Cardinality(T) <= Cardinality(S) + 1
  <2>1. /\ IsFiniteSet(S \cup {x})
        /\ Cardinality(S \cup {x}) = Cardinality(S) \/ Cardinality(S \cup {x}) = Cardinality(S) + 1
    BY FS_AddElement
  <2>2. Cardinality(T) <= Cardinality(S \cup {x})
    BY <1>3, <2>1, FS_Subset
  <2>3. QED
    BY <1>1, <2>1, <2>2
<1>4. ASSUME x \in S, T \subseteq S \ {x} PROVE Cardinality(T) <= Cardinality(S) - 1
  <2>1. IsFiniteSet(S \ {x}) /\ Cardinality(S \ {x}) = Cardinality(S) - 1
    BY <1>4, FS_RemoveElement
  <2>2. Cardinality(T) <= Cardinality(S \ {x})
    BY <1>4, <2>1, FS_Subset
  <2>3. QED
    BY <2>1, <2>2
<1>5. QED
  BY <1>1, <1>2, <1>3, <1>4

\* The events counted at an emit.
CountedAt(m) == {e \in Events : Counted(e, m)}

\* PendingsCover over CountedAt.
CoverInv == \A m \in Emits : pendings[m] >= Cardinality(CountedAt(m))

\* The two are the same.
LEMMA CoverIs == TypeOK => (PendingsCover <=> CoverInv)
<1> SUFFICES ASSUME TypeOK, NEW m \in Emits
             PROVE  {e \in Events : Outstanding(e, m)} = CountedAt(m)
  BY DEF PendingsCover, CoverInv
<1>1. \A e \in Events : Outstanding(e, m) <=> Counted(e, m)
  BY CountedIs
<1>2. QED
  BY <1>1 DEF CountedAt

\* The sets that are counted are finite.
LEMMA CountedFinite ==
  ASSUME NEW m \in Emits
  PROVE  IsFiniteSet(CountedAt(m)) /\ IsFiniteSet(CountedAt(m)')
<1>1. CountedAt(m) \subseteq Events /\ CountedAt(m)' \subseteq Events
  BY DEF CountedAt
<1>2. QED
  BY <1>1, FS_Subset, EmitAssumption DEF EmitAssumption

\* A step that leaves the count of an emit alone and counts no new event there.
LEMMA CoverFrame ==
  ASSUME TypeOK, CoverInv, NEW m \in Emits, pendings'[m] = pendings[m],
         \A e \in Events : Counted(e, m)' => Counted(e, m)
  PROVE  pendings'[m] >= Cardinality(CountedAt(m)')
<1>1. CountedAt(m)' \subseteq CountedAt(m)
  BY DEF CountedAt
<1>2. Cardinality(CountedAt(m)') <= Cardinality(CountedAt(m))
  BY <1>1, CountedFinite, SizeMoves
<1>3. /\ pendings[m] \in Int /\ Cardinality(CountedAt(m)) \in Nat /\ Cardinality(CountedAt(m)') \in Nat
      /\ pendings[m] >= Cardinality(CountedAt(m))
  BY CountedFinite, FS_CardinalityType DEF TypeOK, CoverInv
<1>4. QED
  BY <1>2, <1>3

\* CoverInv is inductive: an event is counted after its increment, and no longer
\* after its decrement.
LEMMA CoverStep == TypeOK /\ OwnInv /\ CoverInv /\ [Next]_vars => CoverInv'
<1> SUFFICES ASSUME TypeOK, OwnInv, CoverInv, [Next]_vars, NEW m \in Emits
             PROVE  pendings'[m] >= Cardinality(CountedAt(m)')
  BY DEF CoverInv
<1> USE DEF pvars, mvars, ovars, At
<1>0. /\ pendings[m] \in Int /\ Cardinality(CountedAt(m)) \in Nat /\ Cardinality(CountedAt(m)') \in Nat
      /\ pendings[m] >= Cardinality(CountedAt(m))
      /\ IsFiniteSet(CountedAt(m)) /\ IsFiniteSet(CountedAt(m)')
  BY CountedFinite, FS_CardinalityType DEF TypeOK, CoverInv
<1>1. ASSUME NEW t \in Threads, CallStep(t) PROVE pendings'[m] >= Cardinality(CountedAt(m)')
  <2>1. \A e \in Events : Counted(e, m)' => Counted(e, m) \/ (IncPendings(t) /\ e = oe[t] /\ m = om[t])
    BY <1>1, CallCounts
  <2>2. CASE IncPendings(t) /\ m = om[t]
    <3>1. pendings'[m] = pendings[m] + 1
      BY <2>2 DEF IncPendings, TypeOK
    <3>2. CountedAt(m)' \subseteq CountedAt(m) \cup {oe[t]}
      BY <2>1 DEF CountedAt
    <3>3. Cardinality(CountedAt(m)') <= Cardinality(CountedAt(m)) + 1
      BY <1>0, <3>2, SizeMoves
    <3>4. QED
      BY <1>0, <3>1, <3>3
  <2>3. CASE ~(IncPendings(t) /\ m = om[t])
    <3>1. pendings'[m] = pendings[m]
      BY <1>1, <2>3 DEF CallStep, IncPendings, TestHandler, TestInit, SubmitFails, Submit, RefuseDestroy,
                        PassPendings, ClearInit, UnlinkEmit, FreeEmit, TypeOK
    <3>2. QED
      BY <2>1, <2>3, <3>1, CoverFrame
  <2>4. QED
    BY <2>2, <2>3
<1>2. ASSUME NEW w \in Workers, HandlerStep(w) PROVE pendings'[m] >= Cardinality(CountedAt(m)')
  <2>1. \A e \in Events : Counted(e, m)' => Counted(e, m) /\ ~(DecPendings(w) /\ e = running[w])
    BY <1>2, HandlerCounts
  <2>2. CASE DecPendings(w) /\ m = target[running[w]]
    <3>1. pendings'[m] = pendings[m] - 1 /\ hpc[w] = "handler"
      BY <2>2 DEF DecPendings, TypeOK
    <3>2. running[w] \in CountedAt(m)
      BY <2>2, <3>1 DEF CountedAt, Counted, TypeOK
    <3>3. CountedAt(m)' \subseteq CountedAt(m) \ {running[w]}
      BY <2>1, <2>2 DEF CountedAt
    <3>4. Cardinality(CountedAt(m)') <= Cardinality(CountedAt(m)) - 1
      BY <1>0, <3>2, <3>3, SizeMoves
    <3>5. QED
      BY <1>0, <3>1, <3>4
  <2>3. CASE ~(DecPendings(w) /\ m = target[running[w]])
    <3>1. pendings'[m] = pendings[m]
      BY <1>2, <2>3 DEF HandlerStep, StartHandler, NoHandler, CallHandler, DecPendings, EventDone,
                        CallbackReturns, TypeOK
    <3>2. QED
      BY <2>1, <3>1, CoverFrame
  <2>4. QED
    BY <2>2, <2>3
<1>3. ASSUME \/ \E t \in Threads, n \in Emits :
                  \/ EmitCreate(t, n) \/ EmitDestroy(t, n)
                  \/ \E ty \in Types : \/ EmitAddHandler(t, n, ty) \/ EmitRmvWatch(t, n, ty)
                                       \/ \E f \in Events : EmitDispatch(t, n, f, ty)
             \/ EmitFini \/ EmitInit \/ UNCHANGED vars
      PROVE  pendings'[m] >= Cardinality(CountedAt(m)')
  <2>1. \A e \in Events : Counted(e, m)' => Counted(e, m)
    BY <1>3, EntryCounts
  <2>2. pendings'[m] = pendings[m]
    BY <1>3 DEF EmitCreate, EmitDestroy, EmitAddHandler, EmitRmvWatch, EmitDispatch, EmitFini, EmitInit, vars
  <2>3. QED
    BY <2>1, <2>2, CoverFrame
<1>4. QED
  BY <1>1, <1>2, <1>3 DEF Next

\* What holds at the start.
LEMMA CoverInit == Init => OwnInv /\ CoverInv
<1> SUFFICES ASSUME Init PROVE OwnInv /\ CoverInv
  OBVIOUS
<1>1. /\ \A w \in Workers : waiting[w] = {} /\ running[w] = NoEvent
      /\ \A t \in Threads : oe[t] = NoEvent /\ opc[t] = "idle"
      /\ \A m \in Emits : pendings[m] = 0
  BY DEF Init, Pool!Init
<1>2. OwnInv
  BY <1>1, EmitAssumption DEF OwnInv, Has, EmitAssumption
<1>3. \A m \in Emits : CountedAt(m) = {}
  BY <1>1, EmitAssumption DEF CountedAt, Counted, EmitAssumption
<1>4. QED
  BY <1>1, <1>2, <1>3, FS_EmptySet DEF CoverInv

\* The three together are an inductive invariant.
LEMMA BaseCorrect == Spec => [](TypeOK /\ OwnInv /\ CoverInv)
<1>1. Init => TypeOK /\ OwnInv /\ CoverInv
  BY TypeInit, CoverInit
<1>2. TypeOK /\ OwnInv /\ CoverInv /\ [Next]_vars => (TypeOK /\ OwnInv /\ CoverInv)'
  BY TypeStep, OwnStep, CoverStep
<1>3. QED
  BY <1>1, <1>2, PTL DEF Spec

\* ee_pendings never falls below the number of events that were counted and whose
\* handler has not returned, also when handlers are removed and dispatches refused.
THEOREM CoverCorrect == Spec => []PendingsCover
<1>1. TypeOK /\ OwnInv /\ CoverInv => PendingsCover
  BY CoverIs
<1>2. QED
  BY <1>1, BaseCorrect, PTL

-----------------------------------------------------------------------------
(* When nobody dispatches to an emit that is destroyed. *)

\* Thread t has passed the test of ee_pendings.
Passed(t, m) == om[t] = m /\ opc[t] \in {"clear", "unlink", "release"}

\* An emit in a call, or with a counted event, is allocated; it is destroyed by
\* one thread while none dispatches to it; past the test nothing is counted; an
\* allocated emit off the list is about to be freed; emit_fini left an empty list.
QuietInv ==
    /\ \A t \in Threads, m \in Emits : Destroying(t, m) =>
          /\ life[m] = "live"
          /\ \A u \in Threads : ~Dispatching(u, m) /\ (Destroying(u, m) => u = t)
    /\ \A t \in Threads, m \in Emits : Dispatching(t, m) => life[m] = "live"
    /\ \A e \in Events, m \in Emits : Counted(e, m) => life[m] = "live"
    /\ \A t \in Threads, m \in Emits : Passed(t, m) => \A e \in Events : ~Counted(e, m)
    /\ \A m \in Emits : life[m] = "live" /\ m \notin emits =>
          \E t \in Threads : om[t] = m /\ opc[t] = "release"
    /\ ed_init = 0 => emits = {}

\* A step that moves no call to an emit, past the test or off the list.
LEMMA QuietFrame ==
  ASSUME QuietInv, UNCHANGED <<life, emits, ed_init>>,
         \A e \in Events, m \in Emits : Counted(e, m)' => Counted(e, m),
         \A u \in Threads, m \in Emits : /\ Dispatching(u, m)' => Dispatching(u, m)
                                         /\ Destroying(u, m)' => Destroying(u, m)
                                         /\ Passed(u, m)' => Passed(u, m),
         \A u \in Threads : opc[u] = "release" => opc'[u] = "release" /\ om'[u] = om[u]
  PROVE  QuietInv'
  BY DEF QuietInv

\* What a call that returns is about.
LEMMA LeaveCalls ==
  ASSUME TypeOK, NEW t \in Threads, Leave(t), NEW u \in Threads, NEW m \in Emits
  PROVE  /\ Dispatching(u, m)' <=> Dispatching(u, m) /\ u # t
         /\ Destroying(u, m)' <=> Destroying(u, m) /\ u # t
         /\ Passed(u, m)' <=> Passed(u, m) /\ u # t
         /\ u # t => opc'[u] = opc[u] /\ om'[u] = om[u]
  BY EmitAssumption DEF EmitAssumption, TypeOK, Leave, At, Dispatching, Destroying, Passed

\* A call that returns before the emit is freed.
LEMMA LeaveQuiet ==
  ASSUME TypeOK, QuietInv, NEW t \in Threads, Leave(t), opc[t] # "release", UNCHANGED <<life, emits, ed_init>>,
         \A e \in Events, m \in Emits : Counted(e, m)' => Counted(e, m)
  PROVE  QuietInv'
<1>1. \A u \in Threads, m \in Emits : /\ Dispatching(u, m)' => Dispatching(u, m)
                                      /\ Destroying(u, m)' => Destroying(u, m)
                                      /\ Passed(u, m)' => Passed(u, m)
  BY LeaveCalls
<1>2. \A u \in Threads : opc[u] = "release" => opc'[u] = "release" /\ om'[u] = om[u]
  BY DEF Leave, At, TypeOK
<1>3. QED
  BY <1>1, <1>2, QuietFrame

\* The label of a call that goes on.
LEMMA AtCalls ==
  ASSUME TypeOK, NEW t \in Threads, NEW l, At(t, l), UNCHANGED om, NEW u \in Threads, NEW m \in Emits
  PROVE  /\ opc'[t] = l /\ (u # t => opc'[u] = opc[u])
         /\ u # t => (Dispatching(u, m)' <=> Dispatching(u, m))
         /\ u # t => (Destroying(u, m)' <=> Destroying(u, m))
         /\ u # t => (Passed(u, m)' <=> Passed(u, m))
  BY DEF TypeOK, At, Dispatching, Destroying, Passed

\* What the steps of a call keep of QuietInv.
LEMMA CallQuiet ==
  ASSUME TypeOK, OwnInv, CoverInv, QuietInv, NEW t \in Threads, CallStep(t) PROVE QuietInv'
<1> USE DEF pvars, mvars, ovars
<1>0. \A e \in Events, m \in Emits :
         Counted(e, m)' => Counted(e, m) \/ (IncPendings(t) /\ e = oe[t] /\ m = om[t])
  BY CallCounts
<1>1. CASE TestHandler(t) \/ TestInit(t)
  <2>1. ~IncPendings(t) /\ opc[t] # "release" /\ UNCHANGED <<life, emits, ed_init>>
    BY <1>1 DEF TestHandler, TestInit, IncPendings
  <2>2. CASE Leave(t)
    BY <1>0, <2>1, <2>2, LeaveQuiet
  <2>3. CASE ~Leave(t)
    <3>1. /\ opc[t] \in {"handler?", "init?"} /\ UNCHANGED om
          /\ At(t, "init?") \/ At(t, "inc")
      BY <1>1, <2>3 DEF TestHandler, TestInit
    <3>2. \A u \in Threads, m \in Emits : /\ Dispatching(u, m)' => Dispatching(u, m)
                                          /\ Destroying(u, m)' => Destroying(u, m)
                                          /\ Passed(u, m)' => Passed(u, m)
      BY <3>1, AtCalls DEF Dispatching, Destroying, Passed
    <3>3. \A u \in Threads : opc[u] = "release" => opc'[u] = "release" /\ om'[u] = om[u]
      BY <3>1 DEF At, TypeOK
    <3>4. QED
      BY <1>0, <2>1, <3>2, <3>3, QuietFrame
  <2>4. QED
    BY <2>2, <2>3
<1>2. CASE IncPendings(t)
  <2>1. /\ opc[t] = "inc" /\ At(t, "submit") /\ UNCHANGED <<om, life, emits, ed_init>> /\ om[t] \in Emits
    BY <1>2, EmitAssumption DEF IncPendings, TypeOK, EmitAssumption
  <2>2. Dispatching(t, om[t]) /\ life[om[t]] = "live"
    BY <2>1 DEF QuietInv, Dispatching
  <2>3. \A u \in Threads, m \in Emits : /\ Dispatching(u, m)' => Dispatching(u, m)
                                        /\ Destroying(u, m)' => Destroying(u, m)
                                        /\ Passed(u, m)' => Passed(u, m)
    BY <2>1, AtCalls DEF Dispatching, Destroying, Passed
  <2>4. \A u \in Threads : opc[u] = "release" => opc'[u] = "release" /\ om'[u] = om[u]
    BY <2>1 DEF At, TypeOK
  <2>5. \A e \in Events, m \in Emits : Counted(e, m)' => life'[m] = "live"
    BY <1>0, <2>1, <2>2 DEF QuietInv
  <2>6. \A u \in Threads, m \in Emits : Passed(u, m)' => \A e \in Events : ~Counted(e, m)'
    <3>1. \A u \in Threads : ~Passed(u, om[t])
      BY <2>1, <2>2 DEF QuietInv, Passed, Destroying
    <3>2. QED
      BY <1>0, <2>3, <3>1 DEF QuietInv
  <2>7. QED
    BY <2>1, <2>3, <2>4, <2>5, <2>6 DEF QuietInv
<1>3. CASE SubmitFails(t) \/ (\E w \in Workers : Submit(t, w)) \/ RefuseDestroy(t)
  <2>1. Leave(t) /\ ~IncPendings(t) /\ opc[t] # "release" /\ UNCHANGED <<life, emits, ed_init>>
    BY <1>3 DEF SubmitFails, Submit, RefuseDestroy, IncPendings
  <2>2. QED
    BY <1>0, <2>1, LeaveQuiet
<1>4. CASE PassPendings(t)
  <2>1. /\ opc[t] = "pendings?" /\ pendings[om[t]] = 0 /\ At(t, "clear") /\ ~IncPendings(t)
        /\ UNCHANGED <<om, life, emits, ed_init>> /\ om[t] \in Emits
    BY <1>4, EmitAssumption DEF PassPendings, IncPendings, TypeOK, EmitAssumption
  <2>2. CountedAt(om[t]) = {}
    <3>1. IsFiniteSet(CountedAt(om[t])) /\ Cardinality(CountedAt(om[t])) \in Nat
      BY <2>1, CountedFinite, FS_CardinalityType
    <3>2. Cardinality(CountedAt(om[t])) = 0
      BY <2>1, <3>1 DEF CoverInv
    <3>3. QED
      BY <3>1, <3>2, FS_EmptySet
  <2>3. \A u \in Threads, m \in Emits : /\ Dispatching(u, m)' => Dispatching(u, m)
                                        /\ Destroying(u, m)' => Destroying(u, m)
                                        /\ Passed(u, m)' => Passed(u, m) \/ m = om[t]
    BY <2>1, AtCalls DEF Dispatching, Destroying, Passed
  <2>4. \A u \in Threads : opc[u] = "release" => opc'[u] = "release" /\ om'[u] = om[u]
    BY <2>1 DEF At, TypeOK
  <2>5. \A e \in Events, m \in Emits : Counted(e, m)' => Counted(e, m)
    BY <1>0, <2>1
  <2>6. \A u \in Threads, m \in Emits : Passed(u, m)' => \A e \in Events : ~Counted(e, m)'
    BY <2>2, <2>3, <2>5 DEF QuietInv, CountedAt
  <2>7. QED
    BY <2>1, <2>3, <2>4, <2>5, <2>6 DEF QuietInv
<1>5. CASE ClearInit(t)
  <2>1. /\ opc[t] = "clear" /\ At(t, "unlink") /\ ~IncPendings(t) /\ UNCHANGED <<om, life, emits, ed_init>>
    BY <1>5 DEF ClearInit, IncPendings
  <2>2. \A u \in Threads, m \in Emits : /\ Dispatching(u, m)' => Dispatching(u, m)
                                        /\ Destroying(u, m)' => Destroying(u, m)
                                        /\ Passed(u, m)' => Passed(u, m)
    BY <2>1, AtCalls DEF Dispatching, Destroying, Passed
  <2>3. \A u \in Threads : opc[u] = "release" => opc'[u] = "release" /\ om'[u] = om[u]
    BY <2>1 DEF At, TypeOK
  <2>4. QED
    BY <1>0, <2>1, <2>2, <2>3, QuietFrame
<1>6. CASE UnlinkEmit(t)
  <2>1. /\ opc[t] = "unlink" /\ At(t, "release") /\ ~IncPendings(t) /\ UNCHANGED <<om, life, ed_init>>
        /\ emits' = emits \ {om[t]}
    BY <1>6 DEF UnlinkEmit, IncPendings
  <2>2. \A u \in Threads, m \in Emits : /\ Dispatching(u, m)' => Dispatching(u, m)
                                        /\ Destroying(u, m)' => Destroying(u, m)
                                        /\ Passed(u, m)' => Passed(u, m)
    BY <2>1, AtCalls DEF Dispatching, Destroying, Passed
  <2>3. opc'[t] = "release" /\ \A u \in Threads : opc[u] = "release" => opc'[u] = "release"
    BY <2>1 DEF At, TypeOK
  <2>4. \A m \in Emits : life'[m] = "live" /\ m \notin emits' =>
           \E u \in Threads : om'[u] = m /\ opc'[u] = "release"
    BY <2>1, <2>3 DEF QuietInv
  <2>5. QED
    BY <1>0, <2>1, <2>2, <2>4 DEF QuietInv
<1>7. CASE FreeEmit(t)
  <2>1. /\ opc[t] = "release" /\ Leave(t) /\ ~IncPendings(t) /\ UNCHANGED <<emits, ed_init>>
        /\ life' = [life EXCEPT ![om[t]] = "freed"] /\ om[t] \in Emits
    BY <1>7, EmitAssumption DEF FreeEmit, IncPendings, TypeOK, EmitAssumption
  <2>2. PICK n \in Emits : n = om[t]
    BY <2>1
  <2>3. Destroying(t, n) /\ Passed(t, n)
    BY <2>1, <2>2 DEF Destroying, Passed
  <2>4. /\ \A u \in Threads : ~Dispatching(u, n) /\ (Destroying(u, n) => u = t)
        /\ \A e \in Events : ~Counted(e, n)
    BY <2>3 DEF QuietInv
  <2>5. life'[n] = "freed" /\ \A m \in Emits \ {n} : life'[m] = life[m]
    BY <2>1, <2>2 DEF TypeOK
  <2>6. \A m \in Emits : life'[m] = "live" /\ m \notin emits' =>
           \E u \in Threads : om'[u] = m /\ opc'[u] = "release"
    <3> SUFFICES ASSUME NEW m \in Emits, life'[m] = "live", m \notin emits'
                 PROVE  \E u \in Threads : om'[u] = m /\ opc'[u] = "release"
      OBVIOUS
    <3>1. m # n /\ life[m] = "live" /\ m \notin emits
      BY <2>1, <2>5
    <3>2. PICK u \in Threads : om[u] = m /\ opc[u] = "release"
      BY <3>1 DEF QuietInv
    <3>3. u # t
      BY <2>2, <3>1, <3>2
    <3>4. QED
      BY <2>1, <3>2, <3>3, LeaveCalls
  <2>7. \A e \in Events, m \in Emits : Counted(e, m)' => Counted(e, m) /\ m # n
    BY <1>0, <2>1, <2>4
  <2>8. \A u \in Threads, m \in Emits : /\ Dispatching(u, m)' => Dispatching(u, m) /\ m # n
                                        /\ Destroying(u, m)' => Destroying(u, m) /\ m # n
                                        /\ Passed(u, m)' => Passed(u, m)
    BY <2>1, <2>4, LeaveCalls
  <2>9. QED
    BY <2>1, <2>5, <2>6, <2>7, <2>8 DEF QuietInv
<1>8. QED
  BY <1>1, <1>2, <1>3, <1>4, <1>5, <1>6, <1>7 DEF CallStep

\* The rest of the steps.
LEMMA QuietStep == ASSUME Quiet PROVE TypeOK /\ OwnInv /\ CoverInv /\ QuietInv /\ [Next]_vars => QuietInv'
<1> SUFFICES ASSUME TypeOK, OwnInv, CoverInv, QuietInv, [Next]_vars PROVE QuietInv'
  OBVIOUS
<1> USE DEF pvars, mvars, ovars
<1>1. ASSUME NEW w \in Workers, HandlerStep(w) PROVE QuietInv'
  <2>1. \A e \in Events, m \in Emits : Counted(e, m)' => Counted(e, m)
    BY <1>1, HandlerCounts
  <2>2. UNCHANGED <<life, emits, ed_init, om, opc>>
    BY <1>1 DEF HandlerStep, StartHandler, NoHandler, CallHandler, DecPendings, EventDone, CallbackReturns
  <2>3. QED
    BY <2>1, <2>2, QuietFrame DEF Dispatching, Destroying, Passed
<1>2. ASSUME NEW t \in Threads, NEW n \in Emits, NEW ty \in Types,
             EmitAddHandler(t, n, ty) \/ EmitRmvWatch(t, n, ty)
      PROVE  QuietInv'
  <2>1. \A e \in Events, m \in Emits : Counted(e, m)' => Counted(e, m)
    BY <1>2, EntryCounts
  <2>2. UNCHANGED <<life, emits, ed_init, om, opc>>
    BY <1>2 DEF EmitAddHandler, EmitRmvWatch
  <2>3. QED
    BY <2>1, <2>2, QuietFrame DEF Dispatching, Destroying, Passed
<1>3. ASSUME NEW t \in Threads, NEW n \in Emits, EmitCreate(t, n) PROVE QuietInv'
  <2>1. \A e \in Events, m \in Emits : Counted(e, m)' => Counted(e, m)
    BY <1>3, EntryCounts
  <2>2. /\ UNCHANGED <<ed_init, om, opc>> /\ ed_init = 1 /\ emits' = emits \cup {n}
        /\ life'[n] = "live" /\ \A m \in Emits \ {n} : life'[m] = life[m]
    BY <1>3 DEF EmitCreate, TypeOK
  <2>3. \A m \in Emits : life[m] = "live" => life'[m] = "live"
    BY <2>2
  <2>4. \A m \in Emits : life'[m] = "live" /\ m \notin emits' => life[m] = "live" /\ m \notin emits
    BY <2>2
  <2>5. QED
    BY <2>1, <2>2, <2>3, <2>4 DEF QuietInv, Dispatching, Destroying, Passed
<1>4. ASSUME NEW t \in Threads, NEW n \in Emits, EmitDestroy(t, n) PROVE QuietInv'
  <2>1. \A e \in Events, m \in Emits : Counted(e, m)' => Counted(e, m)
    BY <1>4, EntryCounts
  <2>2. /\ UNCHANGED <<life, emits, ed_init>> /\ life[n] = "live" /\ opc[t] = "idle"
        /\ \A u \in Threads : ~Dispatching(u, n) /\ ~Destroying(u, n)
        /\ om' = [om EXCEPT ![t] = n] /\ opc' = [opc EXCEPT ![t] = "pendings?"]
    BY <1>4 DEF EmitDestroy, At, AtCall
  <2>3. \A u \in Threads, m \in Emits : /\ Dispatching(u, m)' => Dispatching(u, m)
                                        /\ Destroying(u, m)' => Destroying(u, m) \/ (u = t /\ m = n)
                                        /\ Passed(u, m)' => Passed(u, m)
    BY <2>2 DEF Dispatching, Destroying, Passed, TypeOK
  <2>4. \A u \in Threads : opc[u] = "release" => opc'[u] = "release" /\ om'[u] = om[u]
    BY <2>2 DEF TypeOK
  <2>5. \A u \in Threads, m \in Emits : Destroying(u, m)' =>
           /\ life[m] = "live"
           /\ \A v \in Threads : ~Dispatching(v, m)' /\ (Destroying(v, m)' => v = u)
    BY <2>2, <2>3 DEF QuietInv
  <2>6. QED
    BY <2>1, <2>2, <2>3, <2>4, <2>5 DEF QuietInv
<1>5. ASSUME NEW t \in Threads, NEW n \in Emits, NEW ty \in Types, NEW f \in Events, EmitDispatch(t, n, f, ty)
      PROVE  QuietInv'
  <2>1. \A e \in Events, m \in Emits : Counted(e, m)' => Counted(e, m)
    BY <1>5, EntryCounts
  <2>2. /\ UNCHANGED <<life, emits, ed_init>> /\ life[n] = "live" /\ opc[t] = "idle"
        /\ \A u \in Threads : ~Destroying(u, n)
        /\ om' = [om EXCEPT ![t] = n] /\ opc' = [opc EXCEPT ![t] = "handler?"]
    BY <1>5 DEF EmitDispatch, At, AtCall
  <2>3. \A u \in Threads, m \in Emits : /\ Dispatching(u, m)' => Dispatching(u, m) \/ m = n
                                        /\ Destroying(u, m)' => Destroying(u, m)
                                        /\ Passed(u, m)' => Passed(u, m)
    BY <2>2 DEF Dispatching, Destroying, Passed, TypeOK
  <2>4. \A u \in Threads : opc[u] = "release" => opc'[u] = "release" /\ om'[u] = om[u]
    BY <2>2 DEF TypeOK
  <2>5. \A u \in Threads, m \in Emits : Destroying(u, m)' =>
           /\ life[m] = "live"
           /\ \A v \in Threads : ~Dispatching(v, m)' /\ (Destroying(v, m)' => v = u)
    BY <2>2, <2>3 DEF QuietInv
  <2>6. QED
    BY <2>1, <2>2, <2>3, <2>4, <2>5 DEF QuietInv
<1>6. CASE EmitFini \/ EmitInit \/ UNCHANGED vars
  <2>1. \A e \in Events, m \in Emits : Counted(e, m)' => Counted(e, m)
    BY <1>6, EntryCounts
  <2>2. UNCHANGED <<life, om, opc>> /\ emits' = emits /\ (ed_init' = 0 => emits = {})
    BY <1>6 DEF EmitFini, EmitInit, vars, QuietInv
  <2>3. QED
    BY <2>1, <2>2 DEF QuietInv, Dispatching, Destroying, Passed
<1>7. QED
  BY <1>1, <1>2, <1>3, <1>4, <1>5, <1>6, CallQuiet DEF Next

\* QuietInv holds at the start.
LEMMA QuietInit == Init => QuietInv
<1> SUFFICES ASSUME Init PROVE QuietInv
  OBVIOUS
<1>1. /\ \A w \in Workers : waiting[w] = {} /\ running[w] = NoEvent
      /\ \A t \in Threads : opc[t] = "idle"
      /\ \A m \in Emits : life[m] = "none"
      /\ ed_init = 1
  BY DEF Init, Pool!Init
<1>2. \A e \in Events, m \in Emits : ~Counted(e, m)
  BY <1>1, EmitAssumption DEF Counted, EmitAssumption
<1>3. QED
  BY <1>1, <1>2 DEF QuietInv, Dispatching, Destroying, Passed

\* The inductive invariant of the emitters.
LEMMA QuietCorrect == ASSUME Quiet PROVE Spec => [](TypeOK /\ OwnInv /\ CoverInv /\ QuietInv)
<1>1. Init => TypeOK /\ OwnInv /\ CoverInv /\ QuietInv
  BY TypeInit, CoverInit, QuietInit
<1>2. TypeOK /\ OwnInv /\ CoverInv /\ QuietInv /\ [Next]_vars => (TypeOK /\ OwnInv /\ CoverInv /\ QuietInv)'
  BY TypeStep, OwnStep, CoverStep, QuietStep
<1>3. QED
  BY <1>1, <1>2, PTL DEF Spec

\* When nobody dispatches to an emit during emit_destroy, the emit of an event is
\* allocated from the moment the event is counted to the return of its handler.
THEOREM AliveCorrect == ASSUME Quiet PROVE Spec => []EmitAlive
<1>1. TypeOK /\ QuietInv => EmitAlive
  BY CountedIs DEF EmitAlive, QuietInv
<1>2. QED
  BY <1>1, QuietCorrect, PTL

\* Under the same rule emit_fini, which looks only at the list of emits, succeeds
\* only when no event of any emit is under way.
THEOREM FiniCorrect == ASSUME Quiet PROVE Spec => []FiniSafe
<1>1. TypeOK /\ QuietInv => FiniSafe
  <2> SUFFICES ASSUME TypeOK, QuietInv, ed_init = 0, NEW e \in Events, NEW m \in Emits, Counted(e, m)
               PROVE  FALSE
    BY CountedIs DEF FiniSafe
  <2>1. life[m] = "live" /\ m \notin emits
    BY DEF QuietInv
  <2>2. PICK t \in Threads : om[t] = m /\ opc[t] = "release"
    BY <2>1 DEF QuietInv
  <2>3. QED
    BY <2>2 DEF QuietInv, Passed
<1>2. QED
  BY <1>1, QuietCorrect, PTL
=============================================================================
