--------------------------- MODULE EdpWorkerProofs ---------------------------
(****************************************************************************)
(* Theorems about EdpWorker for every number of workers, set of clients and *)
(* events, kinds of events and build.                                       *)
(****************************************************************************)
EXTENDS EdpWorker, TLAPS

\* The initial state, as worker_init leaves the pool, has the right types.
LEMMA TypeInit == Init => TypeOK
  BY WorkerAssumption DEF WorkerAssumption, Init, TypeOK, EventTypes, QueueTypes, CallTypes, ListTypes,
     ControlTypes, FiniTypes, StartTypes, Outside, Workers, Priorities, Exit, IDLE, CRIT

\* The entries of a sequence over S are in S.
LEMMA SeqRangeType == ASSUME NEW S, NEW s \in Seq(S) PROVE SeqRange(s) \subseteq S
  BY DEF SeqRange

\* A thread between the call and the enqueue holds an event.
LEMMA CallHolds ==
  ASSUME CallTypes, NEW t \in Threads, dpc[t] \notin {"idle", "signal"}
  PROVE  dev[t] \in Events
  BY DEF CallTypes

\* A worker has only accepted events.
LEMMA AcceptedType == ASSUME QueueTypes, ListTypes, NEW w \in Workers PROVE Accepted(w) \subseteq Events
<1>1. SeqRange(local[w]) \subseteq Events
  BY SeqRangeType DEF ListTypes
<1>2. \A p \in Priorities : SeqRange(queue[w][p]) \subseteq Events
  <2>1. \A p \in Priorities : queue[w][p] \in Seq(Events)
    BY DEF QueueTypes
  <2>2. QED
    BY <2>1, SeqRangeType
<1>3. QED
  BY <1>1, <1>2 DEF Accepted

\* What the steps of worker_routine leave alone: the calls of __edp_dispatch,
\* worker_fini, and for every other variable all steps but the named ones.
LEMMA LoopKeeps ==
  ASSUME NEW w \in Workers, WorkerStep(w) \/ SpuriousWake(w)
  PROVE  /\ UNCHANGED <<wd_round, type, priority, cpuid, dpc, dev, dcpu, dtmp, fini, findex>>
         /\ Splice(w) \/ UNCHANGED <<queue, pending>>
         /\ NoWait(w) \/ Wake(w) \/ SpuriousWake(w) \/ UNCHANGED cv
         /\ Release(w) \/ UNCHANGED free
         /\ Take(w) \/ UNCHANGED owed
         /\ ThreadEnd(w) \/ InitTls(w) \/ UNCHANGED status
         /\ UNCHANGED <<start, sindex, convar>>
         /\ InitTls(w) \/ UNCHANGED tls
         /\ SignalStart(w) \/ UNCHANGED wcv
<1> USE DEF evars, dvars, wvars, qvars, fvars, svars
<1>1. CASE LoopTest(w)
  BY ONLY <1>1 DEF LoopTest, evars, dvars, wvars, qvars, fvars, svars
<1>2. CASE NoWait(w)
  BY ONLY <1>2 DEF NoWait, Awaken, evars, dvars, wvars, qvars, fvars, svars
<1>3. CASE Block(w)
  BY ONLY <1>3 DEF Block, evars, dvars, wvars, qvars, fvars, svars
<1>4. CASE Wake(w)
  BY ONLY <1>4 DEF Wake, Awaken, evars, dvars, wvars, qvars, fvars, svars
<1>5. CASE Splice(w)
  BY ONLY <1>5 DEF Splice, evars, dvars, wvars, qvars, fvars, svars
<1>6. CASE Take(w)
  BY ONLY <1>6 DEF Take, evars, dvars, wvars, qvars, fvars, svars
<1>7. CASE LeaveSection(w)
  BY ONLY <1>7 DEF LeaveSection, Enter, evars, dvars, wvars, qvars, fvars, svars
<1>8. CASE Release(w)
  BY ONLY <1>8 DEF Release, evars, dvars, wvars, qvars, fvars, svars
<1>9. CASE Return(w)
  BY ONLY <1>9 DEF Return, evars, dvars, wvars, qvars, fvars, svars
<1>10. CASE Preempt(w)
  BY ONLY <1>10 DEF Preempt, Enter, evars, dvars, wvars, qvars, fvars, svars
<1>11. CASE CheckNext(w)
  BY ONLY <1>11 DEF CheckNext, evars, dvars, wvars, qvars, fvars, svars
<1>12. CASE ThreadEnd(w)
  BY ONLY <1>12 DEF ThreadEnd, evars, dvars, wvars, qvars, fvars, svars
<1>13. CASE SpuriousWake(w)
  BY ONLY <1>13 DEF SpuriousWake, Awaken, evars, dvars, wvars, qvars, fvars, svars
<1>14. CASE InitTls(w)
  BY ONLY <1>14 DEF InitTls, evars, dvars, wvars, qvars, fvars, svars
<1>15. CASE SignalStart(w)
  BY ONLY <1>15 DEF SignalStart, evars, dvars, wvars, qvars, fvars, svars
<1>16. CASE Cancelled(w)
  BY ONLY <1>16 DEF Cancelled, evars, dvars, wvars, qvars, fvars, svars
<1>17. QED
  BY <1>1, <1>2, <1>3, <1>4, <1>5, <1>6, <1>7, <1>8, <1>9, <1>10, <1>11, <1>12, <1>13, <1>14,
     <1>15, <1>16 DEF WorkerStep

\* What the steps of __edp_dispatch behind the call leave alone: the workers and
\* worker_fini, and for the events and queues all steps but the named ones.
LEMMA DispatchKeeps ==
  ASSUME NEW t \in Threads, DispatchStep(t)
  PROVE  /\ UNCHANGED <<type, priority, local, running, pc, sec, chk, ratio, high>>
         /\ UNCHANGED <<fini, findex, status, owed, start, sindex, tls, wcv, convar>>
         /\ RouteRound(t) \/ UNCHANGED cpuid
         /\ Enqueue(t) \/ UNCHANGED <<queue, pending>>
         /\ Signal(t) \/ UNCHANGED cv
         /\ Reject(t) \/ UNCHANGED free
<1> USE DEF evars, dvars, wvars, qvars, fvars, svars
<1>1. CASE RouteKeep(t)
  BY ONLY <1>1 DEF RouteKeep, evars, dvars, wvars, qvars, fvars, svars
<1>2. CASE RouteRound(t)
  BY ONLY <1>2 DEF RouteRound, evars, dvars, wvars, qvars, fvars, svars
<1>3. CASE NextRound(t)
  BY ONLY <1>3 DEF NextRound, evars, dvars, wvars, qvars, fvars, svars
<1>4. CASE IncRound(t)
  BY ONLY <1>4 DEF IncRound, evars, dvars, wvars, qvars, fvars, svars
<1>5. CASE LoadRound(t)
  BY ONLY <1>5 DEF LoadRound, evars, dvars, wvars, qvars, fvars, svars
<1>6. CASE ModRound(t)
  BY ONLY <1>6 DEF ModRound, evars, dvars, wvars, qvars, fvars, svars
<1>7. CASE Reject(t)
  BY ONLY <1>7 DEF Reject, evars, dvars, wvars, qvars, fvars, svars
<1>8. CASE Stray(t)
  BY ONLY <1>8 DEF Stray, evars, dvars, wvars, qvars, fvars, svars
<1>9. CASE Enqueue(t)
  BY ONLY <1>9 DEF Enqueue, evars, dvars, wvars, qvars, fvars, svars
<1>10. CASE Signal(t)
  BY ONLY <1>10 DEF Signal, evars, dvars, wvars, qvars, fvars, svars
<1>11. QED
  BY <1>1, <1>2, <1>3, <1>4, <1>5, <1>6, <1>7, <1>8, <1>9, <1>10 DEF DispatchStep

\* A call of __edp_dispatch, before its first step, changes the event it is given
\* and who has it.
LEMMA CallKeeps ==
  ASSUME NEW t \in Threads, NEW e \in Events,
         Redispatch(t, e) \/ \E k \in Kinds : Dispatch(t, e, k)
  PROVE  UNCHANGED <<wd_round, queue, pending, cv, local, running, pc, sec, chk, ratio, high,
                     dcpu, dtmp, fini, findex, status, owed, start, sindex, tls, wcv, convar>>
<1> USE DEF evars, dvars, wvars, qvars, fvars, svars
<1>1. CASE Redispatch(t, e)
  BY ONLY <1>1 DEF Redispatch, evars, dvars, wvars, qvars, fvars, svars
<1>2. ASSUME NEW k \in Kinds, Dispatch(t, e, k)
      PROVE  UNCHANGED <<wd_round, queue, pending, cv, local, running, pc, sec, chk, ratio, high,
                         dcpu, dtmp, fini, findex, status, owed, start, sindex, tls, wcv, convar>>
  BY ONLY <1>2 DEF Dispatch, evars, dvars, wvars, qvars, fvars, svars
<1>3. QED
  BY <1>1, <1>2

\* worker_fini touches only its own variables and the status of the workers.
LEMMA FiniKeeps ==
  ASSUME FiniCall \/ FiniStop \/ FiniFree
  PROVE  UNCHANGED <<wd_round, type, priority, cpuid, queue, pending, cv, local, running, pc, sec,
                     chk, ratio, high, dpc, dev, dcpu, dtmp, free, start, sindex, tls, wcv>>
  BY DEF FiniCall, FiniStop, FiniFree, evars, dvars, wvars, qvars, fvars, svars

\* worker_init starts threads and touches nothing else of the workers.
LEMMA StartKeeps ==
  ASSUME StartStep
  PROVE  /\ UNCHANGED <<wd_round, type, priority, cpuid, queue, pending, cv, local, running, sec,
                        chk, ratio, high, dpc, dev, dcpu, dtmp, free, fini, findex, status, owed, tls>>
         /\ StartThread \/ UNCHANGED pc
         /\ StartDone \/ UNCHANGED <<sindex, wcv>>
         /\ StartThread \/ StartTimeout \/ StartUndo \/ UNCHANGED convar
  BY DEF StartStep, StartThread, StartRefused, StartDone, StartTimeout, StartUndo, evars, dvars, wvars,
     qvars, fvars, svars

\* A worker moves itself alone, and only when its thread has been created.
LEMMA LoopMoves ==
  ASSUME ControlTypes, NEW w \in Workers, WorkerStep(w) \/ SpuriousWake(w)
  PROVE  pc[w] # "none" /\ \A v \in Workers \ {w} : pc'[v] = pc[v]
<1>1. pc \in [Workers -> {"none", "born", "begun", "loop", "wait", "blocked", "splice", "scan",
                          "handler", "released", "done"}]
  BY DEF ControlTypes
<1>2. /\ pc[w] # "none"
      /\ UNCHANGED pc \/ \E x : pc' = [pc EXCEPT ![w] = x]
  <2>1. CASE LeaveSection(w)
    BY ONLY <2>1 DEF LeaveSection, AtList
  <2>2. CASE LoopTest(w) \/ NoWait(w) \/ Block(w) \/ Wake(w) \/ SpuriousWake(w)
    BY ONLY <2>2 DEF LoopTest, NoWait, Block, Wake, SpuriousWake, Awaken
  <2>3. CASE Splice(w) \/ Take(w) \/ Release(w) \/ Return(w)
    BY ONLY <2>3 DEF Splice, Take, AtList, Release, Return
  <2>4. CASE Preempt(w) \/ CheckNext(w) \/ ThreadEnd(w)
    BY ONLY <2>4 DEF Preempt, CheckNext, AtCheck, ThreadEnd
  <2>5. CASE InitTls(w) \/ SignalStart(w) \/ Cancelled(w)
    BY ONLY <2>5 DEF InitTls, SignalStart, Cancelled
  <2>6. QED
    BY <2>1, <2>2, <2>3, <2>4, <2>5 DEF WorkerStep
<1>3. QED
  BY ONLY <1>1, <1>2

\* worker_init starts a worker that exists and has not been started.
LEMMA StartFresh ==
  ASSUME StartTypes, StartThread
  PROVE  /\ sindex \in Workers /\ pc[sindex] = "none"
         /\ pc' = [pc EXCEPT ![sindex] = "born"]
<1>1. sindex \in Workers /\ start = "create"
  BY WorkerAssumption DEF WorkerAssumption, StartTypes, StartThread, Workers
<1>2. QED
  BY <1>1 DEF StartTypes, StartThread

\* Every step keeps the types of the events: ev_cpuid is only written by the
\* routing of __edp_dispatch.
LEMMA EventTypesStep == TypeOK /\ [Next]_vars => EventTypes'
<1> SUFFICES ASSUME TypeOK, [Next]_vars PROVE EventTypes'
  OBVIOUS
<1> USE WorkerAssumption DEF WorkerAssumption, TypeOK, EventTypes, CallTypes, ListTypes, evars, dvars, wvars, qvars, fvars, svars
<1>1. ASSUME NEW t \in Threads, NEW e \in Events, NEW k \in Kinds, Dispatch(t, e, k) PROVE EventTypes'
  BY <1>1 DEF Dispatch, AtCall
<1>2. ASSUME NEW t \in Threads, NEW e \in Events, Redispatch(t, e) PROVE EventTypes'
  BY <1>2 DEF Redispatch, AtCall
<1>3. ASSUME NEW t \in Threads, RouteRound(t) PROVE EventTypes'
  <2>1. /\ cpuid \in [Events -> Int] /\ wd_round \in Int
        /\ cpuid' = [cpuid EXCEPT ![dev[t]] = wd_round]
    BY <1>3 DEF RouteRound
  <2>2. cpuid' \in [Events -> Int]
    BY ONLY <2>1
  <2>3. QED
    BY <1>3, <2>2 DEF RouteRound
<1>4. ASSUME NEW t \in Threads, Reject(t) PROVE EventTypes'
  BY <1>4 DEF Reject
<1>5. ASSUME NEW w \in Workers, Release(w) PROVE EventTypes'
  BY <1>5 DEF Release
<1>6. CASE UNCHANGED <<type, priority, cpuid, free>>
  BY <1>6
<1>7. \A t \in Threads, e \in Events : Redispatch(t, e) \/ (\E k \in Kinds : Dispatch(t, e, k)) => EventTypes'
  BY ONLY <1>1, <1>2
<1>8. \A t \in Threads : DispatchStep(t) => EventTypes'
  BY ONLY DispatchKeeps, <1>3, <1>4, <1>6
<1>9. \A w \in Workers : WorkerStep(w) \/ SpuriousWake(w) => EventTypes'
  BY ONLY LoopKeeps, <1>5, <1>6
<1>10s. StartStep => EventTypes'
  BY ONLY StartKeeps, <1>6
<1>10. FiniCall \/ FiniStop \/ FiniFree => EventTypes'
  BY ONLY FiniKeeps, <1>6
<1>11. UNCHANGED vars => EventTypes'
  BY ONLY <1>6 DEF vars, evars, dvars, wvars, qvars, fvars, svars
<1>12. QED
  BY ONLY [Next]_vars, <1>10s, <1>7, <1>8, <1>9, <1>10, <1>11 DEF Next

\* Every step keeps the types of the queues, their counters and the signals.
LEMMA QueueTypesStep == TypeOK /\ [Next]_vars => QueueTypes'
<1> SUFFICES ASSUME TypeOK, [Next]_vars PROVE QueueTypes'
  OBVIOUS
<1> USE WorkerAssumption DEF WorkerAssumption, TypeOK, EventTypes, QueueTypes, CallTypes, ControlTypes, Priorities, IDLE, CRIT, Exit, evars, dvars, wvars, qvars, fvars, svars
<1>1. ASSUME NEW t \in Threads, Enqueue(t) PROVE QueueTypes'
  <2> DEFINE e == dev[t]
             w == dcpu[t]
             p == priority[e]
  <2>1. e \in Events /\ w \in Workers /\ p \in Priorities
    BY <1>1, CallHolds DEF Enqueue
  <2>2. /\ queue' = [queue EXCEPT ![w] = [queue[w] EXCEPT ![p] = Append(queue[w][p], e)]]
        /\ pending' = [pending EXCEPT ![w] = [pending[w] EXCEPT ![p] = pending[w][p] + 1]]
        /\ cv' = cv
    BY <1>1 DEF Enqueue
  <2>3. Append(queue[w][p], e) \in Seq(Events) /\ pending[w][p] + 1 \in Nat
    <3>1. /\ queue \in [Workers -> [Priorities -> Seq(Events)]]
          /\ pending \in [Workers -> [Priorities -> Nat]]
      OBVIOUS
    <3>2. queue[w] \in [Priorities -> Seq(Events)] /\ pending[w] \in [Priorities -> Nat]
      BY ONLY <2>1, <3>1
    <3>3. queue[w][p] \in Seq(Events) /\ pending[w][p] \in Nat
      BY ONLY <2>1, <3>2
    <3>4. QED
      BY ONLY <2>1, <3>3
  <2>4. queue' \in [Workers -> [Priorities -> Seq(Events)]]
    BY <2>1, <2>2, <2>3
  <2>5. pending' \in [Workers -> [Priorities -> Nat]]
    BY <2>1, <2>2, <2>3
  <2>6. QED
    BY <2>2, <2>4, <2>5
<1>2. ASSUME NEW t \in Threads, Signal(t) PROVE QueueTypes'
  BY <1>2 DEF Signal
<1>3. ASSUME NEW w \in Workers, NoWait(w) PROVE QueueTypes'
  BY <1>3 DEF NoWait, Awaken
<1>4. ASSUME NEW w \in Workers, Wake(w) PROVE QueueTypes'
  BY <1>4 DEF Wake, Awaken
<1>5. ASSUME NEW w \in Workers, SpuriousWake(w) PROVE QueueTypes'
  BY <1>5 DEF SpuriousWake, Awaken
<1>6. ASSUME NEW w \in Workers, Splice(w) PROVE QueueTypes'
  <2> DEFINE s == sec[w]
  <2>1. s \in Priorities
    BY <1>6 DEF Splice
  <2>2. /\ queue' = [queue EXCEPT ![w] = [queue[w] EXCEPT ![s] = <<>>]]
        /\ pending' = [pending EXCEPT ![w] = [pending[w] EXCEPT ![s] = 0]]
        /\ cv' = cv
    BY <1>6 DEF Splice
  <2>3. queue' \in [Workers -> [Priorities -> Seq(Events)]]
    BY <2>1, <2>2
  <2>4. pending' \in [Workers -> [Priorities -> Nat]]
    BY <2>1, <2>2
  <2>5. QED
    BY <2>2, <2>3, <2>4
<1>7. CASE UNCHANGED <<queue, pending, cv>>
  BY <1>7
<1>8. \A t \in Threads, e \in Events : Redispatch(t, e) \/ (\E k \in Kinds : Dispatch(t, e, k)) => QueueTypes'
  BY ONLY CallKeeps, <1>7
<1>9. \A t \in Threads : DispatchStep(t) => QueueTypes'
  BY ONLY DispatchKeeps, <1>1, <1>2, <1>7
<1>10. \A w \in Workers : WorkerStep(w) \/ SpuriousWake(w) => QueueTypes'
  BY ONLY LoopKeeps, <1>3, <1>4, <1>5, <1>6, <1>7
<1>11s. StartStep => QueueTypes'
  BY ONLY StartKeeps, <1>7
<1>11. FiniCall \/ FiniStop \/ FiniFree => QueueTypes'
  BY ONLY FiniKeeps, <1>7
<1>12. UNCHANGED vars => QueueTypes'
  BY ONLY <1>7 DEF vars, evars, dvars, wvars, qvars, fvars, svars
<1>13. QED
  BY ONLY [Next]_vars, <1>11s, <1>8, <1>9, <1>10, <1>11, <1>12 DEF Next

\* Every step keeps the types of the calls of __edp_dispatch.
LEMMA CallTypesStep == TypeOK /\ [Next]_vars => CallTypes'
<1> SUFFICES ASSUME TypeOK, [Next]_vars PROVE CallTypes'
  OBVIOUS
<1> USE WorkerAssumption DEF WorkerAssumption, TypeOK, EventTypes, CallTypes, evars, dvars, wvars, qvars, fvars, svars
<1>1. ASSUME NEW t \in Threads, NEW e \in Events, NEW k \in Kinds, Dispatch(t, e, k) PROVE CallTypes'
  BY <1>1 DEF Dispatch, AtCall
<1>2. ASSUME NEW t \in Threads, NEW e \in Events, Redispatch(t, e) PROVE CallTypes'
  BY <1>2 DEF Redispatch, AtCall
<1>3. ASSUME NEW t \in Threads, RouteKeep(t) PROVE CallTypes'
  BY <1>3 DEF RouteKeep, Pinned
<1>4. ASSUME NEW t \in Threads, RouteRound(t) PROVE CallTypes'
  BY <1>4 DEF RouteRound, Pinned
<1>5. ASSUME NEW t \in Threads, NextRound(t) PROVE CallTypes'
  BY <1>5 DEF NextRound
<1>6. ASSUME NEW t \in Threads, IncRound(t) PROVE CallTypes'
  BY <1>6 DEF IncRound
<1>7. ASSUME NEW t \in Threads, LoadRound(t) PROVE CallTypes'
  BY <1>7 DEF LoadRound
<1>8. ASSUME NEW t \in Threads, ModRound(t) PROVE CallTypes'
  BY <1>8 DEF ModRound
<1>9. ASSUME NEW t \in Threads, Reject(t) PROVE CallTypes'
  BY <1>9 DEF Reject
<1>10. ASSUME NEW t \in Threads, Stray(t) PROVE CallTypes'
  BY <1>10 DEF Stray
<1>11. ASSUME NEW t \in Threads, Enqueue(t) PROVE CallTypes'
  BY <1>11 DEF Enqueue
<1>12. ASSUME NEW t \in Threads, Signal(t) PROVE CallTypes'
  BY <1>12 DEF Signal
<1>13. CASE UNCHANGED <<wd_round, dpc, dev, dcpu, dtmp>>
  BY <1>13
<1>14. \A t \in Threads, e \in Events : Redispatch(t, e) \/ (\E k \in Kinds : Dispatch(t, e, k)) => CallTypes'
  BY ONLY <1>1, <1>2
<1>15. \A t \in Threads : DispatchStep(t) => CallTypes'
  BY ONLY <1>3, <1>4, <1>5, <1>6, <1>7, <1>8, <1>9, <1>10, <1>11, <1>12 DEF DispatchStep
<1>16. \A w \in Workers : WorkerStep(w) \/ SpuriousWake(w) => CallTypes'
  BY ONLY LoopKeeps, <1>13
<1>17s. StartStep => CallTypes'
  BY ONLY StartKeeps, <1>13
<1>17. FiniCall \/ FiniStop \/ FiniFree => CallTypes'
  BY ONLY FiniKeeps, <1>13
<1>18. UNCHANGED vars => CallTypes'
  BY ONLY <1>13 DEF vars, evars, dvars, wvars, qvars, fvars, svars
<1>19. QED
  BY ONLY [Next]_vars, <1>17s, <1>14, <1>15, <1>16, <1>17, <1>18 DEF Next

\* C division by a positive number yields an integer.
LEMMA TruncateType == ASSUME NEW x \in Int, NEW d \in Nat \ {0} PROVE Truncate(x, d) \in Int
<1>1. \A y \in Int : y \div d \in Int
  OBVIOUS
<1>2. QED
  BY <1>1 DEF Truncate

\* Every step keeps the types of the worker's local list and of its event.
LEMMA ListTypesStep == TypeOK /\ [Next]_vars => ListTypes'
<1> SUFFICES ASSUME TypeOK, [Next]_vars PROVE ListTypes'
  OBVIOUS
<1> USE WorkerAssumption DEF WorkerAssumption, TypeOK, ListTypes, ControlTypes, Outside, QueueTypes, Priorities, IDLE, CRIT, Exit, evars, dvars, wvars, qvars, fvars, svars
<1>1. ASSUME NEW w \in Workers, LoopTest(w) PROVE ListTypes'
  BY <1>1 DEF LoopTest
<1>2. ASSUME NEW w \in Workers, NoWait(w) PROVE ListTypes'
  BY <1>2 DEF NoWait, Awaken
<1>3. ASSUME NEW w \in Workers, Block(w) PROVE ListTypes'
  BY <1>3 DEF Block
<1>4. ASSUME NEW w \in Workers, Wake(w) PROVE ListTypes'
  BY <1>4 DEF Wake, Awaken
<1>5. ASSUME NEW w \in Workers, SpuriousWake(w) PROVE ListTypes'
  BY <1>5 DEF SpuriousWake, Awaken
<1>6. ASSUME NEW w \in Workers, Splice(w) PROVE ListTypes'
  <2> DEFINE s == sec[w]
  <2>1. s \in Priorities
    BY <1>6 DEF Splice
  <2>2. queue[w][s] \in Seq(Events) /\ pending[w][s] \in Int /\ local[w] \in Seq(Events)
    <3>1. queue[w] \in [Priorities -> Seq(Events)] /\ pending[w] \in [Priorities -> Nat]
      OBVIOUS
    <3>2. queue[w][s] \in Seq(Events) /\ pending[w][s] \in Nat
      BY ONLY <2>1, <3>1
    <3>3. QED
      BY <3>2
  <2>3. local' \in [Workers -> Seq(Events)]
    <3>1. queue[w][s] \o local[w] \in Seq(Events) /\ local[w] \o queue[w][s] \in Seq(Events)
      BY <2>2
    <3>2. QED
      BY <1>6, <3>1 DEF Splice
  <2>4. ratio' \in [Workers -> Int]
    <3>1. Truncate(ratio[w], HighNormRatio) \in Int
      <4>1. ratio[w] \in Int /\ HighNormRatio \in Nat \ {0}
        OBVIOUS
      <4>2. QED
        BY ONLY <4>1, TruncateType
    <3>2. ratio'[w] \in Int
      BY <1>6, <2>2, <3>1 DEF Splice, HIGH, NORM
    <3>3. QED
      BY <1>6, <3>2 DEF Splice
  <2>5. high' \in [Workers -> BOOLEAN]
    BY <1>6 DEF Splice
  <2>6. running' = running /\ pc[w] # "handler" /\ pc' = [pc EXCEPT ![w] = "scan"]
    BY <1>6 DEF Splice
  <2>7. \A v \in Workers : running'[v] = NoEvent <=> pc'[v] # "handler"
    BY <2>6
  <2>8. QED
    BY <2>3, <2>4, <2>5, <2>6, <2>7
<1>7. ASSUME NEW w \in Workers, Take(w) PROVE ListTypes'
  <2>1. local[w] \in Seq(Events) /\ local[w] # <<>>
    BY <1>7 DEF Take
  <2>2. Head(local[w]) \in Events /\ Tail(local[w]) \in Seq(Events)
    BY ONLY <2>1
  <2>3. local' \in [Workers -> Seq(Events)] /\ running' \in [Workers -> Events \cup {NoEvent}]
    BY <1>7, <2>2 DEF Take
  <2>4. Head(local[w]) # NoEvent
    BY <2>2
  <2>5. \A v \in Workers : running'[v] = NoEvent <=> pc'[v] # "handler"
    BY <1>7, <2>4 DEF Take
  <2>6. QED
    BY <1>7, <2>3, <2>5 DEF Take
<1>8. ASSUME NEW w \in Workers, LeaveSection(w) PROVE ListTypes'
  <2>1. /\ pc[w] = "scan"
        /\ \E x \in {"loop", "splice"} : pc' = [pc EXCEPT ![w] = x]
        /\ UNCHANGED <<local, running, ratio, high>>
    BY <1>8 DEF LeaveSection, AtList
  <2>2. QED
    BY <2>1
<1>9. ASSUME NEW w \in Workers, Release(w) PROVE ListTypes'
  BY <1>9 DEF Release
<1>10. ASSUME NEW w \in Workers, Return(w) PROVE ListTypes'
  BY <1>10 DEF Return
<1>11. ASSUME NEW w \in Workers, Preempt(w) PROVE ListTypes'
  BY <1>11 DEF Preempt, Enter, AtCheck
<1>12. ASSUME NEW w \in Workers, CheckNext(w) PROVE ListTypes'
  BY <1>12 DEF CheckNext, AtCheck
<1>13. ASSUME NEW w \in Workers, ThreadEnd(w) PROVE ListTypes'
  BY <1>13 DEF ThreadEnd
<1>13a. ASSUME NEW w \in Workers, InitTls(w) PROVE ListTypes'
  BY <1>13a DEF InitTls
<1>13b. ASSUME NEW w \in Workers, SignalStart(w) PROVE ListTypes'
  BY <1>13b DEF SignalStart
<1>13c. ASSUME NEW w \in Workers, Cancelled(w) PROVE ListTypes'
  BY <1>13c DEF Cancelled
<1>13d. ASSUME StartThread PROVE ListTypes'
  <2>1. UNCHANGED <<local, running, ratio, high>>
    BY <1>13d, StartKeeps DEF StartStep
  <2>2. QED
    BY <1>13d, <2>1, StartFresh
<1>14. CASE UNCHANGED <<local, running, pc, ratio, high>>
  BY <1>14
<1>15. \A t \in Threads, e \in Events : Redispatch(t, e) \/ (\E k \in Kinds : Dispatch(t, e, k)) => ListTypes'
  BY ONLY CallKeeps, <1>14
<1>16. \A t \in Threads : DispatchStep(t) => ListTypes'
  BY ONLY DispatchKeeps, <1>14
<1>17. \A w \in Workers : WorkerStep(w) \/ SpuriousWake(w) => ListTypes'
  BY ONLY <1>1, <1>2, <1>3, <1>4, <1>5, <1>6, <1>7, <1>8, <1>9, <1>10, <1>11, <1>12, <1>13, <1>13a, <1>13b,
     <1>13c DEF WorkerStep
<1>17s. StartStep => ListTypes'
  BY ONLY StartKeeps, <1>13d, <1>14
<1>18. FiniCall \/ FiniStop \/ FiniFree => ListTypes'
  BY ONLY FiniKeeps, <1>14
<1>19. UNCHANGED vars => ListTypes'
  BY ONLY <1>14 DEF vars, evars, dvars, wvars, qvars, fvars, svars
<1>20. QED
  BY ONLY [Next]_vars, <1>17s, <1>15, <1>16, <1>17, <1>18, <1>19 DEF Next

\* Every step keeps the control of worker_routine within its sections.
LEMMA ControlTypesStep == TypeOK /\ [Next]_vars => ControlTypes'
<1> SUFFICES ASSUME TypeOK, [Next]_vars PROVE ControlTypes'
  OBVIOUS
<1> USE WorkerAssumption DEF WorkerAssumption, TypeOK, ControlTypes, Outside, Priorities, IDLE, CRIT, Exit, evars, dvars, wvars, qvars, fvars, svars
<1>1. ASSUME NEW w \in Workers, LoopTest(w) PROVE ControlTypes'
  BY <1>1 DEF LoopTest
<1>2. ASSUME NEW w \in Workers, NoWait(w) PROVE ControlTypes'
  BY <1>2 DEF NoWait, Awaken
<1>3. ASSUME NEW w \in Workers, Block(w) PROVE ControlTypes'
  BY <1>3 DEF Block
<1>4. ASSUME NEW w \in Workers, Wake(w) PROVE ControlTypes'
  BY <1>4 DEF Wake, Awaken
<1>5. ASSUME NEW w \in Workers, SpuriousWake(w) PROVE ControlTypes'
  BY <1>5 DEF SpuriousWake, Awaken
<1>6. ASSUME NEW w \in Workers, Splice(w) PROVE ControlTypes'
  BY <1>6 DEF Splice
<1>7. ASSUME NEW w \in Workers, Take(w) PROVE ControlTypes'
  BY <1>7 DEF Take, AtList, Takes
<1>8. ASSUME NEW w \in Workers, LeaveSection(w) PROVE ControlTypes'
  BY <1>8 DEF LeaveSection, Enter, AtList
<1>9. ASSUME NEW w \in Workers, Release(w) PROVE ControlTypes'
  BY <1>9 DEF Release
<1>10. ASSUME NEW w \in Workers, Return(w) PROVE ControlTypes'
  BY <1>10 DEF Return
<1>11. ASSUME NEW w \in Workers, Preempt(w) PROVE ControlTypes'
  BY <1>11 DEF Preempt, Enter, AtCheck
<1>12. ASSUME NEW w \in Workers, CheckNext(w) PROVE ControlTypes'
  BY <1>12 DEF CheckNext, AtCheck
<1>13. ASSUME NEW w \in Workers, ThreadEnd(w) PROVE ControlTypes'
  BY <1>13 DEF ThreadEnd
<1>13a. ASSUME NEW w \in Workers, InitTls(w) PROVE ControlTypes'
  BY <1>13a DEF InitTls
<1>13b. ASSUME NEW w \in Workers, SignalStart(w) PROVE ControlTypes'
  BY <1>13b DEF SignalStart
<1>13c. ASSUME NEW w \in Workers, Cancelled(w) PROVE ControlTypes'
  BY <1>13c DEF Cancelled
<1>13d. ASSUME StartThread PROVE ControlTypes'
  <2>1. UNCHANGED <<sec, chk>>
    BY <1>13d, StartKeeps DEF StartStep
  <2>2. QED
    BY <1>13d, <2>1, StartFresh
<1>14. CASE UNCHANGED <<pc, sec, chk>>
  BY <1>14
<1>15. \A t \in Threads, e \in Events : Redispatch(t, e) \/ (\E k \in Kinds : Dispatch(t, e, k)) => ControlTypes'
  BY ONLY CallKeeps, <1>14
<1>16. \A t \in Threads : DispatchStep(t) => ControlTypes'
  BY ONLY DispatchKeeps, <1>14
<1>17. \A w \in Workers : WorkerStep(w) \/ SpuriousWake(w) => ControlTypes'
  BY ONLY <1>1, <1>2, <1>3, <1>4, <1>5, <1>6, <1>7, <1>8, <1>9, <1>10, <1>11, <1>12, <1>13, <1>13a, <1>13b,
     <1>13c DEF WorkerStep
<1>17s. StartStep => ControlTypes'
  BY ONLY StartKeeps, <1>13d, <1>14
<1>18. FiniCall \/ FiniStop \/ FiniFree => ControlTypes'
  BY ONLY FiniKeeps, <1>14
<1>19. UNCHANGED vars => ControlTypes'
  BY ONLY <1>14 DEF vars, evars, dvars, wvars, qvars, fvars, svars
<1>20. QED
  BY ONLY [Next]_vars, <1>17s, <1>15, <1>16, <1>17, <1>18, <1>19 DEF Next

\* Every step keeps the types of worker_fini.
LEMMA FiniTypesStep == TypeOK /\ [Next]_vars => FiniTypes'
<1> SUFFICES ASSUME TypeOK, [Next]_vars PROVE FiniTypes'
  OBVIOUS
<1> USE WorkerAssumption DEF WorkerAssumption, TypeOK, FiniTypes, QueueTypes, ListTypes, Workers, evars, dvars, wvars, qvars, fvars, svars
<1>1. ASSUME NEW w \in Workers, Take(w) PROVE FiniTypes'
  BY <1>1 DEF Take, AtList, Takes
<1>2. ASSUME NEW w \in Workers, ThreadEnd(w) PROVE FiniTypes'
  BY <1>2 DEF ThreadEnd
<1>2a. ASSUME NEW w \in Workers, InitTls(w) PROVE FiniTypes'
  BY <1>2a DEF InitTls
<1>3. ASSUME FiniCall PROVE FiniTypes'
  BY <1>3 DEF FiniCall
<1>4. ASSUME FiniStop PROVE FiniTypes'
  <2>1. \A w \in Workers : Accepted(w) \subseteq Events
    BY AcceptedType
  <2>2. owed' \in [Workers -> SUBSET Events]
    <3>1. /\ owed \in [Workers -> SUBSET Events]
          /\ \/ owed' = owed
             \/ findex \in Workers /\ owed' = [owed EXCEPT ![findex] = Accepted(findex)]
      BY <1>4 DEF FiniStop
    <3>2. QED
      BY ONLY <2>1, <3>1
  <2>3. status' \in [Workers -> {"running", "stop", "zero", "lost"}]
    BY <1>4 DEF FiniStop
  <2>4. QED
    BY <1>4, <2>2, <2>3 DEF FiniStop
<1>5. ASSUME FiniFree PROVE FiniTypes'
  BY <1>5 DEF FiniFree
<1>6. CASE UNCHANGED <<status, fini, findex, owed>>
  BY <1>6
<1>7. \A t \in Threads, e \in Events : Redispatch(t, e) \/ (\E k \in Kinds : Dispatch(t, e, k)) => FiniTypes'
  BY ONLY CallKeeps, <1>6
<1>8. \A t \in Threads : DispatchStep(t) => FiniTypes'
  BY ONLY DispatchKeeps, <1>6
<1>9. \A w \in Workers : WorkerStep(w) \/ SpuriousWake(w) => FiniTypes'
  BY ONLY LoopKeeps, <1>1, <1>2, <1>2a, <1>6
<1>10s. StartStep => FiniTypes'
  BY ONLY StartKeeps, <1>6
<1>10. FiniCall \/ FiniStop \/ FiniFree => FiniTypes'
  BY ONLY <1>3, <1>4, <1>5
<1>11. UNCHANGED vars => FiniTypes'
  BY ONLY <1>6 DEF vars, evars, dvars, wvars, qvars, fvars, svars
<1>12. QED
  BY ONLY [Next]_vars, <1>10s, <1>7, <1>8, <1>9, <1>10, <1>11 DEF Next

\* Every step keeps the types of worker_init.
LEMMA StartTypesStep == TypeOK /\ [Next]_vars => StartTypes'
<1> SUFFICES ASSUME TypeOK, [Next]_vars PROVE StartTypes'
  OBVIOUS
<1> USE WorkerAssumption DEF WorkerAssumption, TypeOK, StartTypes, Workers, evars, dvars, wvars, qvars, fvars, svars
<1>1. ASSUME StartThread PROVE StartTypes'
  <2>1. \A w \in Workers : w # sindex => pc'[w] = pc[w]
    BY <1>1, StartFresh DEF ControlTypes
  <2>2. QED
    BY <1>1, <2>1 DEF StartThread
<1>2. ASSUME StartRefused PROVE StartTypes'
  BY <1>2 DEF StartRefused, wvars
<1>3. ASSUME StartDone PROVE StartTypes'
  BY <1>3 DEF StartDone
<1>4. ASSUME StartTimeout PROVE StartTypes'
  BY <1>4 DEF StartTimeout
<1>5. ASSUME StartUndo PROVE StartTypes'
  BY <1>5 DEF StartUndo
<1>6. ASSUME NEW w \in Workers, WorkerStep(w) \/ SpuriousWake(w) PROVE StartTypes'
  <2>1. UNCHANGED <<start, sindex, convar>>
    BY <1>6, LoopKeeps
  <2>2. tls' \in [Workers -> BOOLEAN]
    <3>1. CASE InitTls(w)
      BY <3>1 DEF InitTls
    <3>2. CASE UNCHANGED tls
      BY <3>2
    <3>3. QED
      BY <1>6, <3>1, <3>2, LoopKeeps
  <2>3. wcv' \in [Workers -> {0, 1}]
    <3>1. CASE SignalStart(w)
      BY <3>1 DEF SignalStart
    <3>2. CASE UNCHANGED wcv
      BY <3>2
    <3>3. QED
      BY <1>6, <3>1, <3>2, LoopKeeps
  <2>4. pc[w] # "none" /\ \A v \in Workers \ {w} : pc'[v] = pc[v]
    BY <1>6, LoopMoves
  <2>5. QED
    BY <2>1, <2>2, <2>3, <2>4
<1>7. ASSUME FiniStop PROVE StartTypes'
  BY <1>7 DEF FiniStop
<1>8. CASE UNCHANGED <<start, sindex, tls, wcv, convar, pc>>
  BY <1>8
<1>9. FiniCall \/ FiniFree => StartTypes'
  BY <1>8 DEF FiniCall, FiniFree
<1>10. \A t \in Threads, e \in Events : Redispatch(t, e) \/ (\E k \in Kinds : Dispatch(t, e, k)) => StartTypes'
  BY ONLY CallKeeps, <1>8
<1>11. \A t \in Threads : DispatchStep(t) => StartTypes'
  BY ONLY DispatchKeeps, <1>8
<1>12. UNCHANGED vars => StartTypes'
  BY ONLY <1>8 DEF vars, evars, dvars, wvars, qvars, fvars, svars
<1>13. StartStep => StartTypes'
  BY ONLY <1>1, <1>2, <1>3, <1>4, <1>5 DEF StartStep
<1>14. QED
  BY ONLY [Next]_vars, <1>6, <1>7, <1>9, <1>10, <1>11, <1>12, <1>13 DEF Next

\* Every variable keeps its type, and each thread uses only the variables its
\* place in the code has set.
THEOREM TypeCorrect == Spec => []TypeOK
<1>1. TypeOK /\ [Next]_vars => TypeOK'
  BY EventTypesStep, QueueTypesStep, CallTypesStep, ListTypesStep, ControlTypesStep, FiniTypesStep, StartTypesStep DEF TypeOK
<1>2. QED
  BY TypeInit, <1>1, PTL DEF Spec
-----------------------------------------------------------------------------
(* No wake-up is lost. *)

\* A step of a call that neither fills a queue nor signals.
LEMMA CallFrame ==
  ASSUME SignalInv, NEW t \in Threads, dpc[t] # "signal",
         \A x \in Threads \ {t} : dpc'[x] = dpc[x] /\ dcpu'[x] = dcpu[x],
         UNCHANGED <<queue, cv, pc, sec>>
  PROVE  SignalInv'
<1>1. \A w \in Workers : Signalled(w) => Signalled(w)'
  <2> SUFFICES ASSUME NEW w \in Workers, NEW x \in Threads, dpc[x] = "signal", dcpu[x] = w
               PROVE  \E y \in Threads : dpc'[y] = "signal" /\ dcpu'[y] = w
    BY DEF Signalled
  <2>1. x # t
    OBVIOUS
  <2>2. QED
    BY <2>1
<1>2. \A w \in Workers, p \in Priorities : Passed(w, p)' <=> Passed(w, p)
  BY DEF Passed
<1>3. QED
  BY <1>1, <1>2 DEF SignalInv

\* A step of worker w that signals nobody and passes no queue that is filled.
LEMMA LoopFrame ==
  ASSUME SignalInv, NEW w \in Workers,
         \A u \in Workers \ {w} : pc'[u] = pc[u] /\ sec'[u] = sec[u] /\ queue'[u] = queue[u] /\ cv'[u] = cv[u],
         \A p \in Priorities : Passed(w, p)' /\ queue'[w][p] # <<>> =>
                                   Passed(w, p) /\ queue[w][p] # <<>> /\ cv'[w] = cv[w],
         UNCHANGED <<dpc, dcpu>>
  PROVE  SignalInv'
<1>1. \A u \in Workers : Signalled(u) => Signalled(u)'
  BY DEF Signalled
<1>2. \A u \in Workers \ {w}, p \in Priorities : Passed(u, p)' => Passed(u, p)
  BY DEF Passed
<1> SUFFICES ASSUME NEW u \in Workers, NEW p \in Priorities, Passed(u, p)', queue'[u][p] # <<>>
             PROVE  cv'[u] = 1 \/ Signalled(u)'
  BY DEF SignalInv
<1>3. CASE u = w
  BY <1>1, <1>3 DEF SignalInv
<1>4. CASE u # w
  BY <1>1, <1>2, <1>4 DEF SignalInv
<1>5. QED
  BY <1>3, <1>4

\* SignalInv is inductive: a queue the worker has passed is empty or signalled.
LEMMA SignalStep == TypeOK /\ SignalInv /\ [Next]_vars => SignalInv'
<1> SUFFICES ASSUME TypeOK, SignalInv, [Next]_vars PROVE SignalInv'
  OBVIOUS
<1> USE DEF TypeOK, evars, dvars, wvars, qvars, fvars, svars
<1>1. ASSUME NEW t \in Threads, NEW e \in Events, NEW k \in Kinds, Dispatch(t, e, k) PROVE SignalInv'
  BY <1>1, CallFrame DEF Dispatch, CallTypes, AtCall
<1>2. ASSUME NEW t \in Threads, NEW e \in Events, Redispatch(t, e) PROVE SignalInv'
  BY <1>2, CallFrame DEF Redispatch, CallTypes, AtCall
<1>3. ASSUME NEW t \in Threads, RouteKeep(t) PROVE SignalInv'
  BY <1>3, CallFrame DEF RouteKeep, CallTypes
<1>4. ASSUME NEW t \in Threads, RouteRound(t) PROVE SignalInv'
  BY <1>4, CallFrame DEF RouteRound, CallTypes
<1>5. ASSUME NEW t \in Threads, NextRound(t) PROVE SignalInv'
  BY <1>5, CallFrame DEF NextRound, CallTypes
<1>6. ASSUME NEW t \in Threads, IncRound(t) PROVE SignalInv'
  BY <1>6, CallFrame DEF IncRound, CallTypes
<1>7. ASSUME NEW t \in Threads, LoadRound(t) PROVE SignalInv'
  BY <1>7, CallFrame DEF LoadRound, CallTypes
<1>8. ASSUME NEW t \in Threads, ModRound(t) PROVE SignalInv'
  BY <1>8, CallFrame DEF ModRound, CallTypes
<1>9. ASSUME NEW t \in Threads, Reject(t) PROVE SignalInv'
  BY <1>9, CallFrame DEF Reject, CallTypes
<1>10. ASSUME NEW t \in Threads, Stray(t) PROVE SignalInv'
  BY <1>10, CallFrame DEF Stray, CallTypes
<1>11. ASSUME NEW t \in Threads, Enqueue(t) PROVE SignalInv'
  <2> DEFINE v == dcpu[t]
  <2>1. v \in Workers
    BY <1>11 DEF Enqueue
  <2>2. dpc'[t] = "signal" /\ dcpu'[t] = v
    BY <1>11 DEF Enqueue, CallTypes
  <2>3. \A u \in Workers : u = v => Signalled(u)'
    BY <2>2 DEF Signalled
  <2>4. \A u \in Workers : Signalled(u) => Signalled(u)'
    BY <1>11 DEF Enqueue, CallTypes, Signalled
  <2>5. \A u \in Workers \ {v}, p \in Priorities : queue'[u][p] = queue[u][p]
    BY <1>11 DEF Enqueue, QueueTypes
  <2>6. \A u \in Workers, p \in Priorities : Passed(u, p)' <=> Passed(u, p)
    BY <1>11 DEF Enqueue, Passed
  <2>7. cv' = cv
    BY <1>11 DEF Enqueue
  <2> SUFFICES ASSUME NEW u \in Workers, NEW p \in Priorities, Passed(u, p)', queue'[u][p] # <<>>
               PROVE  cv'[u] = 1 \/ Signalled(u)'
    BY DEF SignalInv
  <2>8. CASE u = v
    BY <2>3, <2>8
  <2>9. CASE u # v
    BY <2>4, <2>5, <2>6, <2>7, <2>9 DEF SignalInv
  <2>10. QED
    BY <2>8, <2>9
<1>12. ASSUME NEW t \in Threads, Signal(t) PROVE SignalInv'
  <2> DEFINE v == dcpu[t]
  <2>1. v \in Workers
    BY <1>12 DEF Signal, CallTypes
  <2>2. cv'[v] = 1 /\ \A u \in Workers \ {v} : cv'[u] = cv[u]
    BY <1>12, <2>1 DEF Signal, QueueTypes
  <2>3. \A u \in Workers \ {v} : Signalled(u) => Signalled(u)'
    <3> SUFFICES ASSUME NEW u \in Workers \ {v}, NEW x \in Threads, dpc[x] = "signal", dcpu[x] = u
                 PROVE  \E y \in Threads : dpc'[y] = "signal" /\ dcpu'[y] = u
      BY DEF Signalled
    <3>1. x # t
      OBVIOUS
    <3>2. QED
      BY <1>12, <3>1 DEF Signal, CallTypes
  <2>4. \A u \in Workers, p \in Priorities : Passed(u, p)' <=> Passed(u, p)
    BY <1>12 DEF Signal, Passed
  <2>5. queue' = queue
    BY <1>12 DEF Signal
  <2>6. QED
    BY <2>2, <2>3, <2>4, <2>5 DEF SignalInv
<1>13. ASSUME NEW w \in Workers, LoopTest(w) PROVE SignalInv'
  <2>1. \A p \in Priorities : Passed(w, p)' => Passed(w, p) /\ cv'[w] = cv[w]
    BY <1>13 DEF LoopTest, Passed, Outside, ControlTypes, Priorities, IDLE, NORM, HIGH, EMRG, CRIT, Exit
  <2>2. \A u \in Workers \ {w} : pc'[u] = pc[u] /\ sec'[u] = sec[u] /\ cv'[u] = cv[u]
    BY <1>13 DEF LoopTest, ControlTypes, QueueTypes
  <2>3. UNCHANGED <<dpc, dcpu, queue>>
    BY <1>13 DEF LoopTest
  <2>4. QED
    BY <2>1, <2>2, <2>3, LoopFrame
<1>14. ASSUME NEW w \in Workers, NoWait(w) PROVE SignalInv'
  <2>1. \A p \in Priorities : Passed(w, p)' => Passed(w, p) /\ cv'[w] = cv[w]
    BY <1>14 DEF NoWait, Awaken, Passed, Outside, ControlTypes, Priorities, IDLE, NORM, HIGH, EMRG, CRIT, Exit
  <2>2. \A u \in Workers \ {w} : pc'[u] = pc[u] /\ sec'[u] = sec[u] /\ cv'[u] = cv[u]
    BY <1>14 DEF NoWait, Awaken, ControlTypes, QueueTypes
  <2>3. UNCHANGED <<dpc, dcpu, queue>>
    BY <1>14 DEF NoWait, Awaken
  <2>4. QED
    BY <2>1, <2>2, <2>3, LoopFrame
<1>15. ASSUME NEW w \in Workers, Block(w) PROVE SignalInv'
  <2>1. \A p \in Priorities : Passed(w, p)' => Passed(w, p) /\ cv'[w] = cv[w]
    BY <1>15 DEF Block, Passed, Outside, ControlTypes, Priorities, IDLE, NORM, HIGH, EMRG, CRIT, Exit
  <2>2. \A u \in Workers \ {w} : pc'[u] = pc[u] /\ sec'[u] = sec[u] /\ cv'[u] = cv[u]
    BY <1>15 DEF Block, ControlTypes, QueueTypes
  <2>3. UNCHANGED <<dpc, dcpu, queue>>
    BY <1>15 DEF Block
  <2>4. QED
    BY <2>1, <2>2, <2>3, LoopFrame
<1>16. ASSUME NEW w \in Workers, Wake(w) PROVE SignalInv'
  <2>1. \A p \in Priorities : Passed(w, p)' => Passed(w, p) /\ cv'[w] = cv[w]
    BY <1>16 DEF Wake, Awaken, Passed, Outside, ControlTypes, Priorities, IDLE, NORM, HIGH, EMRG, CRIT, Exit
  <2>2. \A u \in Workers \ {w} : pc'[u] = pc[u] /\ sec'[u] = sec[u] /\ cv'[u] = cv[u]
    BY <1>16 DEF Wake, Awaken, ControlTypes, QueueTypes
  <2>3. UNCHANGED <<dpc, dcpu, queue>>
    BY <1>16 DEF Wake, Awaken
  <2>4. QED
    BY <2>1, <2>2, <2>3, LoopFrame
<1>17. ASSUME NEW w \in Workers, SpuriousWake(w) PROVE SignalInv'
  <2>1. \A p \in Priorities : Passed(w, p)' => Passed(w, p) /\ cv'[w] = cv[w]
    BY <1>17 DEF SpuriousWake, Awaken, Passed, Outside, ControlTypes, Priorities, IDLE, NORM, HIGH, EMRG, CRIT, Exit
  <2>2. \A u \in Workers \ {w} : pc'[u] = pc[u] /\ sec'[u] = sec[u] /\ cv'[u] = cv[u]
    BY <1>17 DEF SpuriousWake, Awaken, ControlTypes, QueueTypes
  <2>3. UNCHANGED <<dpc, dcpu, queue>>
    BY <1>17 DEF SpuriousWake, Awaken
  <2>4. QED
    BY <2>1, <2>2, <2>3, LoopFrame
<1>18. ASSUME NEW w \in Workers, Splice(w) PROVE SignalInv'
  <2> DEFINE s == sec[w]
  <2>1. s \in Priorities
    BY <1>18 DEF Splice, ControlTypes
  <2>2. queue'[w][s] = <<>> /\ \A p \in Priorities \ {s} : queue'[w][p] = queue[w][p]
    BY <1>18, <2>1 DEF Splice, QueueTypes
  <2>3. \A p \in Priorities \ {s} : Passed(w, p)' => Passed(w, p)
    BY <1>18, <2>1 DEF Splice, Passed, Outside, ControlTypes, Priorities, IDLE, NORM, HIGH, EMRG, CRIT, Exit
  <2>4. \A u \in Workers \ {w} : pc'[u] = pc[u] /\ queue'[u] = queue[u]
    BY <1>18 DEF Splice, ControlTypes, QueueTypes
  <2>5. UNCHANGED <<dpc, dcpu, cv, sec>>
    BY <1>18 DEF Splice
  <2>6. QED
    BY <2>2, <2>3, <2>4, <2>5, LoopFrame
<1>19. ASSUME NEW w \in Workers, Take(w) PROVE SignalInv'
  <2>1. \A p \in Priorities : Passed(w, p)' => Passed(w, p) /\ cv'[w] = cv[w]
    BY <1>19 DEF Take, AtList, Takes, Passed, Outside, ControlTypes, Priorities, IDLE, NORM, HIGH, EMRG, CRIT, Exit
  <2>2. \A u \in Workers \ {w} : pc'[u] = pc[u] /\ sec'[u] = sec[u] /\ cv'[u] = cv[u]
    BY <1>19 DEF Take, AtList, Takes, ControlTypes, QueueTypes
  <2>3. UNCHANGED <<dpc, dcpu, queue>>
    BY <1>19 DEF Take, AtList, Takes
  <2>4. QED
    BY <2>1, <2>2, <2>3, LoopFrame
<1>20. ASSUME NEW w \in Workers, LeaveSection(w) PROVE SignalInv'
  <2>1. \A p \in Priorities : Passed(w, p)' => Passed(w, p) /\ cv'[w] = cv[w]
    BY <1>20 DEF LeaveSection, Enter, AtList, Passed, Outside, ControlTypes, Priorities, IDLE, NORM, HIGH, EMRG, CRIT, Exit
  <2>2. \A u \in Workers \ {w} : pc'[u] = pc[u] /\ sec'[u] = sec[u] /\ cv'[u] = cv[u]
    BY <1>20 DEF LeaveSection, Enter, AtList, ControlTypes, QueueTypes
  <2>3. UNCHANGED <<dpc, dcpu, queue>>
    BY <1>20 DEF LeaveSection, Enter, AtList
  <2>4. QED
    BY <2>1, <2>2, <2>3, LoopFrame
<1>21. ASSUME NEW w \in Workers, Release(w) PROVE SignalInv'
  <2>1. \A p \in Priorities : Passed(w, p)' => Passed(w, p) /\ cv'[w] = cv[w]
    BY <1>21 DEF Release, Passed, Outside, ControlTypes, Priorities, IDLE, NORM, HIGH, EMRG, CRIT, Exit
  <2>2. \A u \in Workers \ {w} : pc'[u] = pc[u] /\ sec'[u] = sec[u] /\ cv'[u] = cv[u]
    BY <1>21 DEF Release, ControlTypes, QueueTypes
  <2>3. UNCHANGED <<dpc, dcpu, queue>>
    BY <1>21 DEF Release
  <2>4. QED
    BY <2>1, <2>2, <2>3, LoopFrame
<1>22. ASSUME NEW w \in Workers, Return(w) PROVE SignalInv'
  <2>1. \A p \in Priorities : Passed(w, p)' => Passed(w, p) /\ cv'[w] = cv[w]
    BY <1>22 DEF Return, Passed, Outside, ControlTypes, Priorities, IDLE, NORM, HIGH, EMRG, CRIT, Exit
  <2>2. \A u \in Workers \ {w} : pc'[u] = pc[u] /\ sec'[u] = sec[u] /\ cv'[u] = cv[u]
    BY <1>22 DEF Return, ControlTypes, QueueTypes
  <2>3. UNCHANGED <<dpc, dcpu, queue>>
    BY <1>22 DEF Return
  <2>4. QED
    BY <2>1, <2>2, <2>3, LoopFrame
<1>23. ASSUME NEW w \in Workers, Preempt(w) PROVE SignalInv'
  <2>1. \A p \in Priorities : Passed(w, p)' => Passed(w, p) /\ cv'[w] = cv[w]
    BY <1>23 DEF Preempt, Enter, AtCheck, Passed, Outside, ControlTypes, Priorities, IDLE, NORM, HIGH, EMRG, CRIT, Exit
  <2>2. \A u \in Workers \ {w} : pc'[u] = pc[u] /\ sec'[u] = sec[u] /\ cv'[u] = cv[u]
    BY <1>23 DEF Preempt, Enter, AtCheck, ControlTypes, QueueTypes
  <2>3. UNCHANGED <<dpc, dcpu, queue>>
    BY <1>23 DEF Preempt, Enter, AtCheck
  <2>4. QED
    BY <2>1, <2>2, <2>3, LoopFrame
<1>24. ASSUME NEW w \in Workers, CheckNext(w) PROVE SignalInv'
  <2>1. \A p \in Priorities : Passed(w, p)' => Passed(w, p) /\ cv'[w] = cv[w]
    BY <1>24 DEF CheckNext, AtCheck, Passed, Outside, ControlTypes, Priorities, IDLE, NORM, HIGH, EMRG, CRIT, Exit
  <2>2. \A u \in Workers \ {w} : pc'[u] = pc[u] /\ sec'[u] = sec[u] /\ cv'[u] = cv[u]
    BY <1>24 DEF CheckNext, AtCheck, ControlTypes, QueueTypes
  <2>3. UNCHANGED <<dpc, dcpu, queue>>
    BY <1>24 DEF CheckNext, AtCheck
  <2>4. QED
    BY <2>1, <2>2, <2>3, LoopFrame
<1>25. ASSUME NEW w \in Workers, ThreadEnd(w) PROVE SignalInv'
  <2>1. \A p \in Priorities : Passed(w, p)' => Passed(w, p) /\ cv'[w] = cv[w]
    BY <1>25 DEF ThreadEnd, Passed, Outside, ControlTypes, Priorities, IDLE, NORM, HIGH, EMRG, CRIT, Exit
  <2>2. \A u \in Workers \ {w} : pc'[u] = pc[u] /\ sec'[u] = sec[u] /\ cv'[u] = cv[u]
    BY <1>25 DEF ThreadEnd, ControlTypes, QueueTypes
  <2>3. UNCHANGED <<dpc, dcpu, queue>>
    BY <1>25 DEF ThreadEnd
  <2>4. QED
    BY <2>1, <2>2, <2>3, LoopFrame
<1>25a. ASSUME NEW w \in Workers, InitTls(w) PROVE SignalInv'
  <2>1. \A p \in Priorities : Passed(w, p)' => Passed(w, p) /\ cv'[w] = cv[w]
    BY <1>25a DEF InitTls, Passed, Outside, ControlTypes, Priorities, IDLE, NORM, HIGH, EMRG, CRIT, Exit
  <2>2. \A u \in Workers \ {w} : pc'[u] = pc[u] /\ sec'[u] = sec[u] /\ cv'[u] = cv[u]
    BY <1>25a DEF InitTls, ControlTypes, QueueTypes
  <2>3. UNCHANGED <<dpc, dcpu, queue>>
    BY <1>25a DEF InitTls
  <2>4. QED
    BY <2>1, <2>2, <2>3, LoopFrame
<1>25b. ASSUME NEW w \in Workers, SignalStart(w) PROVE SignalInv'
  <2>1. \A p \in Priorities : Passed(w, p)' => Passed(w, p) /\ cv'[w] = cv[w]
    BY <1>25b DEF SignalStart, Passed, Outside, ControlTypes, Priorities, IDLE, NORM, HIGH, EMRG, CRIT, Exit
  <2>2. \A u \in Workers \ {w} : pc'[u] = pc[u] /\ sec'[u] = sec[u] /\ cv'[u] = cv[u]
    BY <1>25b DEF SignalStart, ControlTypes, QueueTypes
  <2>3. UNCHANGED <<dpc, dcpu, queue>>
    BY <1>25b DEF SignalStart
  <2>4. QED
    BY <2>1, <2>2, <2>3, LoopFrame
<1>25c. ASSUME NEW w \in Workers, Cancelled(w) PROVE SignalInv'
  <2>1. \A p \in Priorities : Passed(w, p)' => Passed(w, p) /\ cv'[w] = cv[w]
    BY <1>25c DEF Cancelled, Passed, Outside, ControlTypes, Priorities, IDLE, NORM, HIGH, EMRG, CRIT, Exit
  <2>2. \A u \in Workers \ {w} : pc'[u] = pc[u] /\ sec'[u] = sec[u] /\ cv'[u] = cv[u]
    BY <1>25c DEF Cancelled, ControlTypes, QueueTypes
  <2>3. UNCHANGED <<dpc, dcpu, queue>>
    BY <1>25c DEF Cancelled
  <2>4. QED
    BY <2>1, <2>2, <2>3, LoopFrame
<1>25d. ASSUME StartThread PROVE SignalInv'
  <2> DEFINE w == sindex
  <2>1. w \in Workers /\ pc[w] = "none" /\ pc' = [pc EXCEPT ![w] = "born"]
    BY <1>25d, StartFresh
  <2>2. UNCHANGED <<dpc, dcpu, queue, cv, sec>>
    BY <1>25d, StartKeeps DEF StartStep
  <2>3. \A p \in Priorities : Passed(w, p)
    BY <2>1 DEF Passed, Outside
  <2>4. \A u \in Workers \ {w} : pc'[u] = pc[u]
    BY <2>1 DEF ControlTypes
  <2>5. QED
    BY <2>1, <2>2, <2>3, <2>4, LoopFrame
<1>26. CASE UNCHANGED <<queue, cv, dpc, dcpu, pc, sec>>
  BY <1>26 DEF SignalInv, Signalled, Passed
<1>27. QED
  BY ONLY [Next]_vars, <1>1, <1>2, <1>3, <1>4, <1>5, <1>6, <1>7, <1>8, <1>9, <1>10, <1>11, <1>12, <1>13, <1>14, <1>15, <1>16, <1>17, <1>18, <1>19, <1>20, <1>21, <1>22, <1>23, <1>24, <1>25, <1>25a, <1>25b, <1>25c, <1>25d, <1>26 DEF Next, DispatchStep, WorkerStep, vars, evars, dvars, wvars, qvars, fvars, svars,
     FiniCall, FiniStop, FiniFree, StartStep, StartRefused, StartDone, StartTimeout, StartUndo

\* ListInv is inductive: the local list is empty when a pass is over.
LEMMA ListStep == TypeOK /\ ListInv /\ [Next]_vars => ListInv'
<1> SUFFICES ASSUME TypeOK, ListInv, [Next]_vars PROVE ListInv'
  OBVIOUS
<1> USE WorkerAssumption DEF WorkerAssumption, TypeOK, ListTypes, ControlTypes, ListInv, Outside, Priorities, IDLE, NORM, HIGH, EMRG, CRIT, Exit, evars, dvars, wvars, qvars, fvars, svars
<1>1. ASSUME NEW w \in Workers, LoopTest(w) PROVE ListInv'
  BY <1>1 DEF LoopTest
<1>2. ASSUME NEW w \in Workers, NoWait(w) PROVE ListInv'
  BY <1>2 DEF NoWait, Awaken
<1>3. ASSUME NEW w \in Workers, Block(w) PROVE ListInv'
  BY <1>3 DEF Block
<1>4. ASSUME NEW w \in Workers, Wake(w) PROVE ListInv'
  BY <1>4 DEF Wake, Awaken
<1>5. ASSUME NEW w \in Workers, SpuriousWake(w) PROVE ListInv'
  BY <1>5 DEF SpuriousWake, Awaken
<1>6. ASSUME NEW w \in Workers, Splice(w) PROVE ListInv'
  BY <1>6 DEF Splice
<1>7. ASSUME NEW w \in Workers, Take(w) PROVE ListInv'
  BY <1>7 DEF Take, AtList, Takes
<1>8. ASSUME NEW w \in Workers, LeaveSection(w) PROVE ListInv'
  <2>1. sec[w] \in Priorities
    <3>1. sec[w] # Exit
      BY <1>8 DEF LeaveSection, AtList
    <3>2. sec[w] \in Priorities \cup {Exit}
      OBVIOUS
    <3>3. QED
      BY <3>1, <3>2
  <2>2. CASE sec[w] = IDLE
    <3>1. local[w] = <<>>
      BY <1>8, <2>2 DEF LeaveSection, Takes
    <3>2. \A u \in Workers \ {w} : pc'[u] = pc[u] /\ sec'[u] = sec[u]
      BY <1>8 DEF LeaveSection, Enter
    <3>3. local' = local
      BY <1>8 DEF LeaveSection
    <3>4. QED
      BY <3>1, <3>2, <3>3
  <2>3. CASE sec[w] # IDLE
    <3>1. sec'[w] = sec[w] - 1 /\ pc'[w] = "splice"
      BY <1>8, <2>3 DEF LeaveSection, Enter
    <3>2. sec'[w] # Exit
      BY ONLY <2>1, <2>3, <3>1 DEF Priorities, Exit, IDLE, CRIT
    <3>3. \A u \in Workers \ {w} : pc'[u] = pc[u] /\ sec'[u] = sec[u]
      BY <1>8 DEF LeaveSection, Enter
    <3>4. local' = local
      BY <1>8 DEF LeaveSection
    <3>5. QED
      BY <3>1, <3>2, <3>3, <3>4
  <2>4. QED
    BY <2>2, <2>3
<1>9. ASSUME NEW w \in Workers, Release(w) PROVE ListInv'
  BY <1>9 DEF Release
<1>10. ASSUME NEW w \in Workers, Return(w) PROVE ListInv'
  BY <1>10 DEF Return
<1>11. ASSUME NEW w \in Workers, Preempt(w) PROVE ListInv'
  <2>1. chk[w] \in Priorities \cup {Exit} /\ sec[w] \in Priorities \cup {Exit}
    OBVIOUS
  <2>2. sec'[w] # Exit /\ pc'[w] = "splice"
    <3>1. chk[w] > sec[w] /\ sec'[w] = chk[w] /\ pc'[w] = "splice"
      BY <1>11 DEF Preempt, AtCheck, Enter
    <3>2. QED
      BY ONLY <2>1, <3>1 DEF Priorities, IDLE, CRIT, Exit
  <2>3. \A u \in Workers \ {w} : pc'[u] = pc[u] /\ sec'[u] = sec[u]
    BY <1>11 DEF Preempt, Enter
  <2>4. local' = local
    BY <1>11 DEF Preempt
  <2>5. QED
    BY <2>2, <2>3, <2>4
<1>12. ASSUME NEW w \in Workers, CheckNext(w) PROVE ListInv'
  BY <1>12 DEF CheckNext, AtCheck
<1>13. ASSUME NEW w \in Workers, ThreadEnd(w) PROVE ListInv'
  BY <1>13 DEF ThreadEnd
<1>13a. ASSUME NEW w \in Workers, InitTls(w) PROVE ListInv'
  BY <1>13a DEF InitTls
<1>13b. ASSUME NEW w \in Workers, SignalStart(w) PROVE ListInv'
  BY <1>13b DEF SignalStart
<1>13c. ASSUME NEW w \in Workers, Cancelled(w) PROVE ListInv'
  BY <1>13c DEF Cancelled
<1>13d. ASSUME StartThread PROVE ListInv'
  <2>1. UNCHANGED <<sec, local>>
    BY <1>13d, StartKeeps DEF StartStep
  <2>2. QED
    BY <1>13d, <2>1, StartFresh
<1>14. CASE UNCHANGED <<local, pc, sec>>
  BY <1>14
<1>15. QED
  BY ONLY [Next]_vars, <1>1, <1>2, <1>3, <1>4, <1>5, <1>6, <1>7, <1>8, <1>9, <1>10, <1>11, <1>12, <1>13, <1>13a, <1>13b, <1>13c, <1>13d, <1>14 DEF Next, DispatchStep, WorkerStep, vars, evars, dvars, wvars, qvars, fvars, svars,
     Dispatch, Redispatch, RouteKeep, RouteRound, NextRound, IncRound, LoadRound, ModRound, Reject, Stray, Enqueue, Signal, FiniCall, FiniStop, FiniFree,
     StartStep, StartRefused, StartDone, StartTimeout, StartUndo

\* A worker sleeps without a signal only when it has nothing to do, or when the
\* thread that gave it an event has yet to signal.
THEOREM NoLostWakeup == Spec => []SleepSafe
<1>1. Init => SignalInv /\ ListInv
  BY DEF Init, SignalInv, ListInv
<1>2. TypeOK /\ SignalInv /\ ListInv => SleepSafe
  BY DEF TypeOK, QueueTypes, SignalInv, ListInv, SleepSafe, Passed, Outside
<1>3. QED
  BY TypeCorrect, <1>1, SignalStep, ListStep, <1>2, PTL DEF Spec

-----------------------------------------------------------------------------
(* The pending counters and the round. *)

\* PendingExact is inductive: counter and queue change under one lock.
LEMMA PendingStep == TypeOK /\ PendingExact /\ [Next]_vars => PendingExact'
<1> SUFFICES ASSUME TypeOK, PendingExact, [Next]_vars PROVE PendingExact'
  OBVIOUS
<1> USE WorkerAssumption DEF WorkerAssumption, TypeOK, QueueTypes, CallTypes, ControlTypes, PendingExact, evars, dvars, wvars, qvars, fvars, svars
<1>1. ASSUME NEW t \in Threads, Enqueue(t) PROVE PendingExact'
  BY <1>1 DEF Enqueue
<1>2. ASSUME NEW w \in Workers, Splice(w) PROVE PendingExact'
  BY <1>2 DEF Splice
<1>3. CASE UNCHANGED <<queue, pending>>
  BY <1>3
<1>4. \A t \in Threads, e \in Events : Redispatch(t, e) \/ (\E k \in Kinds : Dispatch(t, e, k)) => PendingExact'
  BY ONLY CallKeeps, <1>3
<1>5. \A t \in Threads : DispatchStep(t) => PendingExact'
  BY ONLY DispatchKeeps, <1>1, <1>3
<1>6. \A w \in Workers : WorkerStep(w) \/ SpuriousWake(w) => PendingExact'
  BY ONLY LoopKeeps, <1>2, <1>3
<1>7s. StartStep => PendingExact'
  BY ONLY StartKeeps, <1>3
<1>7. FiniCall \/ FiniStop \/ FiniFree => PendingExact'
  BY ONLY FiniKeeps, <1>3
<1>8. UNCHANGED vars => PendingExact'
  BY ONLY <1>3 DEF vars, evars, dvars, wvars, qvars, fvars, svars
<1>9. QED
  BY ONLY [Next]_vars, <1>7s, <1>4, <1>5, <1>6, <1>7, <1>8 DEF Next

\* Each pending counter is the length of its queue.
THEOREM PendingCorrect == Spec => []PendingExact
<1>1. Init => PendingExact
  BY DEF Init, PendingExact
<1>2. QED
  BY TypeCorrect, <1>1, PendingStep, PTL DEF Spec

\* RoundInv is inductive: with one store, wd_round always names a worker.
LEMMA RoundStep == TypeOK /\ RoundInv /\ [Next]_vars => RoundInv'
<1> SUFFICES ASSUME TypeOK, RoundInv, [Next]_vars PROVE RoundInv'
  OBVIOUS
<1> USE WorkerAssumption DEF WorkerAssumption, TypeOK, CallTypes, RoundInv, Workers, evars, dvars, wvars, qvars, fvars, svars
<1>1. ASSUME NEW t \in Threads, NEW e \in Events, NEW k \in Kinds, Dispatch(t, e, k) PROVE RoundInv'
  BY <1>1 DEF Dispatch, AtCall
<1>2. ASSUME NEW t \in Threads, NEW e \in Events, Redispatch(t, e) PROVE RoundInv'
  BY <1>2 DEF Redispatch, AtCall
<1>3. ASSUME NEW t \in Threads, RouteKeep(t) PROVE RoundInv'
  <2>1. cpuid[dev[t]] \in Int
    BY <1>3, CallHolds DEF RouteKeep, EventTypes
  <2>2. QED
    BY <1>3, <2>1 DEF RouteKeep, Pinned
<1>4. ASSUME NEW t \in Threads, RouteRound(t) PROVE RoundInv'
  BY <1>4 DEF RouteRound, Pinned
<1>5. ASSUME NEW t \in Threads, NextRound(t) PROVE RoundInv'
  BY <1>5 DEF NextRound
<1>6. ASSUME NEW t \in Threads, IncRound(t) PROVE RoundInv'
  BY <1>6 DEF IncRound
<1>7. ASSUME NEW t \in Threads, LoadRound(t) PROVE RoundInv'
  BY <1>7 DEF LoadRound
<1>8. ASSUME NEW t \in Threads, ModRound(t) PROVE RoundInv'
  BY <1>8 DEF ModRound
<1>9. ASSUME NEW t \in Threads, Reject(t) PROVE RoundInv'
  BY <1>9 DEF Reject
<1>10. ASSUME NEW t \in Threads, Stray(t) PROVE RoundInv'
  BY <1>10 DEF Stray
<1>11. ASSUME NEW t \in Threads, Enqueue(t) PROVE RoundInv'
  BY <1>11 DEF Enqueue
<1>12. ASSUME NEW t \in Threads, Signal(t) PROVE RoundInv'
  BY <1>12 DEF Signal
<1>13. CASE UNCHANGED <<wd_round, dpc, dcpu>>
  BY <1>13
<1>14. \A t \in Threads, e \in Events : Redispatch(t, e) \/ (\E k \in Kinds : Dispatch(t, e, k)) => RoundInv'
  BY ONLY <1>1, <1>2
<1>15. \A t \in Threads : DispatchStep(t) => RoundInv'
  BY ONLY <1>3, <1>4, <1>5, <1>6, <1>7, <1>8, <1>9, <1>10, <1>11, <1>12 DEF DispatchStep
<1>16. \A w \in Workers : WorkerStep(w) \/ SpuriousWake(w) => RoundInv'
  BY ONLY LoopKeeps, <1>13
<1>17s. StartStep => RoundInv'
  BY ONLY StartKeeps, <1>13
<1>17. FiniCall \/ FiniStop \/ FiniFree => RoundInv'
  BY ONLY FiniKeeps, <1>13
<1>18. UNCHANGED vars => RoundInv'
  BY ONLY <1>13 DEF vars, evars, dvars, wvars, qvars, fvars, svars
<1>19. QED
  BY ONLY [Next]_vars, <1>17s, <1>14, <1>15, <1>16, <1>17, <1>18 DEF Next

\* With one store per dispatch, wd_round and the worker chosen are in range.
THEOREM RoundCorrect == Spec => []RouteInRange
<1>1. Init => RoundInv
  BY WorkerAssumption DEF WorkerAssumption, Init, RoundInv, Workers
<1>2. RoundInv => RouteInRange
  BY DEF RoundInv, RouteInRange
<1>3. QED
  BY TypeCorrect, <1>1, RoundStep, <1>2, PTL DEF Spec
-----------------------------------------------------------------------------
(* The start of the workers. *)

\* StartInv is inductive: worker_init waits for the signal each worker gives
\* behind worker_init_tls, and only then lets dispatches in.
LEMMA StartInvStep == TypeOK /\ StartInv /\ [Next]_vars => StartInv'
<1> SUFFICES ASSUME TypeOK, StartInv, [Next]_vars PROVE StartInv'
  OBVIOUS
<1> USE WorkerAssumption DEF WorkerAssumption, TypeOK, CallTypes, ControlTypes, StartTypes, StartInv, Workers, evars, dvars, wvars, qvars, fvars, svars
<1>1. ASSUME NEW t \in Threads, NEW e \in Events, NEW k \in Kinds, Dispatch(t, e, k) PROVE StartInv'
  BY <1>1 DEF Dispatch, AtCall
<1>2. ASSUME NEW t \in Threads, NEW e \in Events, Redispatch(t, e) PROVE StartInv'
  BY <1>2 DEF Redispatch, AtCall
<1>3. ASSUME NEW t \in Threads, DispatchStep(t) PROVE StartInv'
  <2>1. UNCHANGED <<pc, start, sindex, tls, wcv>>
    BY <1>3, DispatchKeeps
  <2>2. dpc[t] # "idle" /\ \A u \in Threads \ {t} : dpc'[u] = dpc[u]
    BY <1>3 DEF DispatchStep, RouteKeep, RouteRound, NextRound, IncRound, LoadRound, ModRound,
       Reject, Stray, Enqueue, Signal
  <2>3. QED
    BY <2>1, <2>2
<1>4. ASSUME NEW w \in Workers, WorkerStep(w) \/ SpuriousWake(w) PROVE StartInv'
  <2>1. UNCHANGED <<start, sindex, dpc>>
    BY <1>4, LoopKeeps
  <2>2. CASE InitTls(w)
    BY <2>1, <2>2 DEF InitTls
  <2>3. CASE SignalStart(w)
    BY <2>1, <2>3 DEF SignalStart
  <2>4. CASE ~InitTls(w) /\ ~SignalStart(w)
    <3>1. UNCHANGED <<tls, wcv>>
      BY <1>4, <2>4, LoopKeeps
    <3>2. /\ pc[w] \notin {"none", "born"}
          /\ \A v \in Workers \ {w} : pc'[v] = pc[v]
      <4>1. pc[w] # "born"
        BY <1>4, <2>4 DEF WorkerStep, SpuriousWake, Cancelled, LoopTest, NoWait, Block, Wake, Splice,
           Take, LeaveSection, AtList, Release, Return, Preempt, CheckNext, AtCheck, ThreadEnd
      <4>2. QED
        BY <1>4, <4>1, LoopMoves
    <3>3. QED
      BY <2>1, <3>1, <3>2
  <2>5. QED
    BY <2>2, <2>3, <2>4
<1>5. ASSUME StartThread PROVE StartInv'
  <2>1. UNCHANGED <<tls, dpc, wcv, sindex>>
    BY <1>5, StartKeeps DEF StartStep, StartThread, StartDone
  <2>2. \A w \in Workers : pc'[w] # "born" => pc'[w] = pc[w]
    BY <1>5, StartFresh
  <2>3. start = "create" /\ start' = "wait"
    BY <1>5 DEF StartThread
  <2>4. QED
    BY <2>1, <2>2, <2>3
<1>6. ASSUME StartDone PROVE StartInv'
  BY <1>6 DEF StartDone
<1>7. ASSUME StartRefused \/ StartTimeout \/ StartUndo PROVE StartInv'
  BY <1>7 DEF StartRefused, StartTimeout, StartUndo
<1>8. CASE UNCHANGED <<pc, dpc, start, sindex, tls, wcv>>
  BY <1>8
<1>9. FiniCall \/ FiniStop \/ FiniFree => StartInv'
  BY <1>8 DEF FiniCall, FiniStop, FiniFree
<1>10. UNCHANGED vars => StartInv'
  BY ONLY <1>8 DEF vars, evars, dvars, wvars, qvars, fvars, svars
<1>11. QED
  BY ONLY [Next]_vars, <1>1, <1>2, <1>3, <1>4, <1>5, <1>6, <1>7, <1>9, <1>10 DEF Next, StartStep

\* No dispatch reaches a worker before its lists and locks are initialised.
THEOREM StartCorrect == Spec => []StartSafe
<1>1. Init => StartInv
  BY WorkerAssumption DEF WorkerAssumption, Init, StartInv, Workers
<1>2. StartInv => StartSafe
  <2> SUFFICES ASSUME StartInv, ~Spurious, NEW t \in Threads, dpc[t] \in {"enqueue", "stray"},
                      dcpu[t] \in Workers
               PROVE  tls[dcpu[t]]
    BY DEF StartSafe
  <2>1. sindex = ThreadNum
    BY DEF StartInv
  <2>2. dcpu[t] < sindex
    BY <2>1, WorkerAssumption DEF WorkerAssumption, Workers
  <2>3. QED
    BY <2>2 DEF StartInv
<1>3. QED
  BY TypeCorrect, <1>1, StartInvStep, <1>2, PTL DEF Spec
=============================================================================
