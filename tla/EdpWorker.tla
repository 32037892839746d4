------------------------------ MODULE EdpWorker ------------------------------
(****************************************************************************)
(* The worker pool of edp.io, src/worker.c with the condition variable of   *)
(* posix/edp_sys.h: worker_init starts the threads one by one, threads      *)
(* dispatch events to the priority queues of a worker (__edp_dispatch), the *)
(* worker splices a queue into a local list and runs the handlers           *)
(* (worker_routine), worker_fini stops the pool.  Locked sections are one   *)
(* action each; an unlocked read or write is an action of its own, but for  *)
(* the reads of wd_round in the choice of a worker, see RouteRound.  The    *)
(* wk_*_handled counters are never read and are left out.                   *)
(****************************************************************************)
EXTENDS Integers, Sequences

CONSTANTS ThreadNum,       \* wd_thread_num
          Clients,         \* threads of the application other than the workers
          Dispatchers,     \* the clients and workers that dispatch events
          Events,          \* the edp_event_t objects
          Kinds,           \* [type, priority] pairs events are initialised with
          HighNormRatio,   \* HIGH_NORM_RATIO
          SplitRound,      \* the build stores wd_round twice (worker.c:296-297)
          CallsFini,       \* the application calls worker_fini
          StartFails,      \* a thread may fail to start
          Spurious,        \* a wait for a condition may return unsignalled
          NoEvent

IDLE == 0
NORM == 1
HIGH == 2
EMRG == 3
CRIT == 4
Exit == -1                 \* the checks behind the loop, worker.c:264-273

Priorities == IDLE .. CRIT
Workers == 0 .. (ThreadNum - 1)
Threads == Clients \cup Workers

ASSUME WorkerAssumption ==
    /\ ThreadNum \in Nat \ {0}
    /\ HighNormRatio \in Nat \ {0}
    /\ Clients \cap Int = {}
    /\ Dispatchers \subseteq Threads
    /\ Kinds \subseteq [type : Int, priority : Int]
    /\ SplitRound \in BOOLEAN
    /\ CallsFini \in BOOLEAN
    /\ Spurious \in BOOLEAN
    /\ StartFails \in BOOLEAN
    /\ NoEvent \notin Events

VARIABLES
    wd_round,   \* the worker the next unpinned event goes to
    type, priority, cpuid,  \* ev_type, ev_priority, ev_cpuid of each event
    queue,      \* queue[w][p]: wk_crit_events .. wk_idle_events
    pending,    \* pending[w][p]: wk_crit_pending .. wk_idle_pending
    cv,         \* cv[w]: wk_event.cv_count
    status,     \* wk_status
    local,      \* local[w]: the list `events' of worker_routine
    running,    \* the event whose handler runs
    pc,         \* where worker_routine is
    sec,        \* the section of the loop worker_routine is in
    chk,        \* the pending counter the section reads next
    ratio, high,
    dpc,        \* where thread t is in __edp_dispatch
    dev, dcpu,  \* its arguments ev and cpuid
    dtmp,       \* the value of wd_round it has loaded (locals out of scope are 0)
    start,      \* where worker_init is
    sindex,     \* its index i
    tls,        \* tls[w]: worker_init_tls has initialised the lists and locks of w
    wcv,        \* wcv[w]: wk_convar.cv_count
    convar,     \* convar[w]: how often wk_convar was initialised and not destroyed
    fini,       \* where worker_fini is
    findex,     \* its index i
    free,       \* auxiliary: the events the application owns
    owed        \* auxiliary: owed[w], accepted by w before its STOP, not run

evars == <<type, priority, cpuid>>
dvars == <<dpc, dev, dcpu, dtmp>>
wvars == <<local, running, pc, sec, chk, ratio, high>>
qvars == <<queue, pending>>
svars == <<start, sindex, tls, wcv, convar>>
fvars == <<svars, fini, findex, status, owed>>
vars == <<wd_round, evars, qvars, cv, wvars, dvars, fvars, free>>

Init ==
    /\ wd_round = 0
    /\ type = [e \in Events |-> 0]
    /\ priority = [e \in Events |-> 0]
    /\ cpuid = [e \in Events |-> -1]
    /\ queue = [w \in Workers |-> [p \in Priorities |-> <<>>]]
    /\ pending = [w \in Workers |-> [p \in Priorities |-> 0]]
    /\ cv = [w \in Workers |-> 0]
    /\ status = [w \in Workers |-> "zero"]
    /\ local = [w \in Workers |-> <<>>]
    /\ running = [w \in Workers |-> NoEvent]
    /\ pc = [w \in Workers |-> "none"]
    /\ sec = [w \in Workers |-> CRIT]
    /\ chk = [w \in Workers |-> CRIT]
    /\ ratio = [w \in Workers |-> 0]
    /\ high = [w \in Workers |-> FALSE]
    /\ dpc = [t \in Threads |-> "idle"]
    /\ dev = [t \in Threads |-> NoEvent]
    /\ dcpu = [t \in Threads |-> 0]
    /\ dtmp = [t \in Threads |-> 0]
    /\ start = "create"
    /\ sindex = 0
    /\ tls = [w \in Workers |-> FALSE]
    /\ wcv = [w \in Workers |-> 0]
    /\ convar = [w \in Workers |-> 0]
    /\ fini = "uncalled"
    /\ findex = ThreadNum
    /\ free = Events
    /\ owed = [w \in Workers |-> {}]

-----------------------------------------------------------------------------
(* worker_init, with the array allocated: one thread after the other is     *)
(* created and waited for.                                                  *)

\* Mutant of StartThread: worker_init does not wait for the thread.
StartThreadNoWait ==
    /\ start = "create"
    /\ convar' = [convar EXCEPT ![sindex] = @ + 1]
    /\ pc' = [pc EXCEPT ![sindex] = "born"]
    /\ sindex' = sindex + 1
    /\ start' = IF sindex + 1 = ThreadNum THEN "up" ELSE "create"
    /\ UNCHANGED <<wd_round, evars, qvars, cv, local, running, sec, chk, ratio, high,
                   dvars, tls, wcv, fini, findex, status, owed, free>>

StartThread ==
    /\ start = "create"
    /\ convar' = [convar EXCEPT ![sindex] = @ + 1]
    /\ pc' = [pc EXCEPT ![sindex] = "born"]
    /\ start' = "wait"
    /\ UNCHANGED <<wd_round, evars, qvars, cv, local, running, sec, chk, ratio, high,
                   dvars, sindex, tls, wcv, fini, findex, status, owed, free>>

\* The condition variable cannot be initialised, or there is no thread and it
\* is destroyed again.
StartRefused ==
    /\ StartFails
    /\ start = "create"
    /\ start' = "undo"
    /\ UNCHANGED <<wd_round, evars, qvars, cv, wvars, dvars, sindex, tls, wcv, convar,
                   fini, findex, status, owed, free>>

\* __spi_convar_timedwait returns 0; pthread_cond_timedwait is not called in a loop.
StartDone ==
    /\ start = "wait"
    /\ wcv[sindex] = 1 \/ Spurious
    /\ wcv' = [wcv EXCEPT ![sindex] = 0]
    /\ sindex' = sindex + 1
    /\ start' = IF sindex + 1 = ThreadNum THEN "up" ELSE "create"
    /\ UNCHANGED <<wd_round, evars, qvars, cv, wvars, dvars, tls, convar, fini, findex,
                   status, owed, free>>

\* The wait is over before the thread signals: after a millisecond, or at once
\* when tv_nsec is not below a second.
StartTimeout ==
    /\ StartFails
    /\ start = "wait"
    /\ wcv[sindex] = 0
    /\ convar' = [convar EXCEPT ![sindex] = @ - 1]
    /\ start' = "undo"
    /\ UNCHANGED <<wd_round, evars, qvars, cv, wvars, dvars, sindex, tls, wcv, fini, findex,
                   status, owed, free>>

\* Mutant of StartUndo: the first worker is left out.
StartUndoFirst ==
    /\ start = "undo"
    /\ convar' = [w \in Workers |-> IF w <= sindex /\ w > 0 THEN convar[w] - 1 ELSE convar[w]]
    /\ start' = "failed"
    /\ UNCHANGED <<wd_round, evars, qvars, cv, wvars, dvars, sindex, tls, wcv, fini, findex,
                   status, owed, free>>

\* The cleanup, for the failed thread too: cancel, destroy, and free the array.
\* The cancel of a handle that no thread was created for, or that was cancelled
\* before, goes well here; that it may not is in Edp (WorkerInitCancels).
\* It does not join; what the threads do with the array until the cancellation
\* reaches them is done to memory that is not used otherwise in the model.
StartUndo ==
    /\ start = "undo"
    /\ convar' = [w \in Workers |-> IF w <= sindex THEN convar[w] - 1 ELSE convar[w]]
    /\ start' = "failed"
    /\ UNCHANGED <<wd_round, evars, qvars, cv, wvars, dvars, sindex, tls, wcv, fini, findex,
                   status, owed, free>>

\* worker_routine up to its loop: worker_init_tls, RUNNING.  The lists and
\* counters are empty: no dispatch has reached them.
InitTls(w) ==
    /\ pc[w] = "born"
    /\ tls' = [tls EXCEPT ![w] = TRUE]
    /\ status' = [status EXCEPT ![w] = "running"]
    /\ pc' = [pc EXCEPT ![w] = "begun"]
    /\ UNCHANGED <<wd_round, evars, qvars, cv, local, running, sec, chk, ratio, high,
                   dvars, start, sindex, wcv, convar, fini, findex, owed, free>>

\* __spi_convar_signal(&wkr->wk_convar)
SignalStart(w) ==
    /\ pc[w] = "begun"
    /\ wcv' = [wcv EXCEPT ![w] = 1]
    /\ pc' = [pc EXCEPT ![w] = "loop"]
    /\ UNCHANGED <<wd_round, evars, qvars, cv, local, running, sec, chk, ratio, high,
                   dvars, start, sindex, tls, convar, fini, findex, status, owed, free>>

\* pthread_cond_wait is the cancellation point of a worker that was cancelled.
Cancelled(w) ==
    /\ start = "failed"
    /\ pc[w] = "blocked"
    /\ pc' = [pc EXCEPT ![w] = "done"]
    /\ UNCHANGED <<wd_round, evars, qvars, cv, local, running, sec, chk, ratio, high,
                   dvars, fvars, free>>

-----------------------------------------------------------------------------
(* __edp_dispatch, called by a client or from a handler or done callback.   *)

\* Thread t is in code of the application and may call __edp_dispatch:
\* worker_init has returned 0.
AtCall(t) == /\ start = "up"
             /\ t \in Dispatchers
             /\ dpc[t] = "idle"
             /\ t \in Workers => pc[t] \in {"handler", "released"}

\* edp_event_init, then the call: an event without affinity.
Dispatch(t, e, k) ==
    /\ AtCall(t)
    /\ e \in free
    /\ type' = [type EXCEPT ![e] = k.type]
    /\ priority' = [priority EXCEPT ![e] = k.priority]
    /\ cpuid' = [cpuid EXCEPT ![e] = -1]
    /\ free' = free \ {e}
    /\ dev' = [dev EXCEPT ![t] = e]
    /\ dpc' = [dpc EXCEPT ![t] = "route"]
    /\ UNCHANGED <<wd_round, qvars, cv, wvars, dcpu, dtmp, fvars>>

\* An event that was dispatched before keeps the ev_cpuid it was given then.
Redispatch(t, e) ==
    /\ AtCall(t)
    /\ e \in free
    /\ cpuid[e] # -1
    /\ free' = free \ {e}
    /\ dev' = [dev EXCEPT ![t] = e]
    /\ dpc' = [dpc EXCEPT ![t] = "route"]
    /\ UNCHANGED <<wd_round, evars, qvars, cv, wvars, dcpu, dtmp, fvars>>

\* The range check reads wd_round, not wd_thread_num.
Pinned(e) == cpuid[e] >= 0 /\ cpuid[e] < wd_round

RouteKeep(t) ==
    /\ dpc[t] = "route"
    /\ Pinned(dev[t])
    /\ dcpu' = [dcpu EXCEPT ![t] = cpuid[dev[t]]]
    /\ dpc' = [dpc EXCEPT ![t] = "enqueue"]
    /\ UNCHANGED <<wd_round, evars, qvars, cv, wvars, dev, dtmp, fvars, free>>

\* The three reads of wd_round (worker.c:291, 294 and the one of wd_round++ in 296)
\* are one step: a store of another thread between them changes only which worker
\* of those this thread could have taken before or after it, and the increment
\* that is lost; the stores and the second read are steps of their own.
RouteRound(t) ==
    /\ dpc[t] = "route"
    /\ ~Pinned(dev[t])
    /\ dcpu' = [dcpu EXCEPT ![t] = wd_round]
    /\ cpuid' = [cpuid EXCEPT ![dev[t]] = wd_round]
    /\ dtmp' = [dtmp EXCEPT ![t] = wd_round]
    /\ dpc' = [dpc EXCEPT ![t] = IF SplitRound THEN "inc" ELSE "next"]
    /\ UNCHANGED <<wd_round, type, priority, qvars, cv, wvars, dev, fvars, free>>

\* Mutant of NextRound: the modulo is forgotten.
NextRoundNoModulo(t) ==
    /\ dpc[t] = "next"
    /\ wd_round' = dtmp[t] + 1
    /\ dtmp' = [dtmp EXCEPT ![t] = 0]
    /\ dpc' = [dpc EXCEPT ![t] = "enqueue"]
    /\ UNCHANGED <<evars, qvars, cv, wvars, dev, dcpu, fvars, free>>

\* One store: the optimiser has merged wd_round++ and the modulo.
NextRound(t) ==
    /\ dpc[t] = "next"
    /\ wd_round' = (dtmp[t] + 1) % ThreadNum
    /\ dtmp' = [dtmp EXCEPT ![t] = 0]
    /\ dpc' = [dpc EXCEPT ![t] = "enqueue"]
    /\ UNCHANGED <<evars, qvars, cv, wvars, dev, dcpu, fvars, free>>

\* Two stores: wd_round++ is visible before the modulo is taken.
IncRound(t) ==
    /\ dpc[t] = "inc"
    /\ wd_round' = dtmp[t] + 1
    /\ dpc' = [dpc EXCEPT ![t] = "load"]
    /\ UNCHANGED <<evars, qvars, cv, wvars, dev, dcpu, dtmp, fvars, free>>

LoadRound(t) ==
    /\ dpc[t] = "load"
    /\ dtmp' = [dtmp EXCEPT ![t] = wd_round % ThreadNum]
    /\ dpc' = [dpc EXCEPT ![t] = "mod"]
    /\ UNCHANGED <<wd_round, evars, qvars, cv, wvars, dev, dcpu, fvars, free>>

ModRound(t) ==
    /\ dpc[t] = "mod"
    /\ wd_round' = dtmp[t]
    /\ dtmp' = [dtmp EXCEPT ![t] = 0]
    /\ dpc' = [dpc EXCEPT ![t] = "enqueue"]
    /\ UNCHANGED <<evars, qvars, cv, wvars, dev, dcpu, fvars, free>>

\* The default case of the switch: -ERANGE, the caller keeps the event.
Reject(t) ==
    /\ dpc[t] = "enqueue"
    /\ priority[dev[t]] \notin Priorities
    /\ free' = free \cup {dev[t]}
    /\ dev' = [dev EXCEPT ![t] = NoEvent]
    /\ dpc' = [dpc EXCEPT ![t] = "idle"]
    /\ dcpu' = [dcpu EXCEPT ![t] = 0]
    /\ UNCHANGED <<wd_round, evars, qvars, cv, wvars, dtmp, fvars>>

\* cpuid is not a worker, the lock and list lie beyond wd_threads, or they are
\* not initialised yet: the thread does not come back.
Stray(t) ==
    /\ dpc[t] = "enqueue"
    /\ priority[dev[t]] \in Priorities
    /\ dcpu[t] \in Workers => ~tls[dcpu[t]]
    /\ dpc' = [dpc EXCEPT ![t] = "stray"]
    /\ UNCHANGED <<wd_round, evars, qvars, cv, wvars, dev, dcpu, dtmp, fvars, free>>

Enqueue(t) ==
    LET e == dev[t]
        w == dcpu[t]
        p == priority[e] IN
    /\ dpc[t] = "enqueue"
    /\ p \in Priorities
    /\ w \in Workers
    /\ tls[w]
    /\ queue' = [queue EXCEPT ![w][p] = Append(@, e)]
    /\ pending' = [pending EXCEPT ![w][p] = @ + 1]
    /\ dev' = [dev EXCEPT ![t] = NoEvent]
    /\ dpc' = [dpc EXCEPT ![t] = "signal"]
    /\ UNCHANGED <<wd_round, evars, cv, wvars, dcpu, dtmp, fvars, free>>

\* Mutants of Signal: the signal is not remembered for a worker that does not
\* wait yet; cv_count is incremented instead of set.
SignalUnlatched(t) ==
    /\ dpc[t] = "signal"
    /\ cv' = [cv EXCEPT ![dcpu[t]] = IF pc[dcpu[t]] = "blocked" THEN 1 ELSE @]
    /\ dpc' = [dpc EXCEPT ![t] = "idle"]
    /\ dcpu' = [dcpu EXCEPT ![t] = 0]
    /\ UNCHANGED <<wd_round, evars, qvars, wvars, dev, dtmp, fvars, free>>

SignalCounts(t) ==
    /\ dpc[t] = "signal"
    /\ cv' = [cv EXCEPT ![dcpu[t]] = @ + 1]
    /\ dpc' = [dpc EXCEPT ![t] = "idle"]
    /\ dcpu' = [dcpu EXCEPT ![t] = 0]
    /\ UNCHANGED <<wd_round, evars, qvars, wvars, dev, dtmp, fvars, free>>

\* __spi_convar_signal(&wkr->wk_event): a blocked worker wakes when cv is 1.
Signal(t) ==
    /\ dpc[t] = "signal"
    /\ cv' = [cv EXCEPT ![dcpu[t]] = 1]
    /\ dpc' = [dpc EXCEPT ![t] = "idle"]
    /\ dcpu' = [dcpu EXCEPT ![t] = 0]
    /\ UNCHANGED <<wd_round, evars, qvars, wvars, dev, dtmp, fvars, free>>

-----------------------------------------------------------------------------
(* worker_routine                                                           *)

\* The labels of the loop: section s is the next one, no check is under way.
Enter(w, s) == /\ sec' = [sec EXCEPT ![w] = s]
               /\ chk' = [chk EXCEPT ![w] = s]

\* Mutant of LoopTest: the thread ends without the checks behind the loop.
LoopTestNoDrain(w) ==
    /\ pc[w] = "loop"
    /\ pc' = [pc EXCEPT ![w] = IF status[w] = "stop" THEN "done" ELSE "wait"]
    /\ UNCHANGED <<wd_round, evars, qvars, cv, local, running, sec, chk, ratio, high,
                   dvars, fvars, free>>

\* while(wkr->wk_status != kWORKER_STATUS_STOP), worker.c:140 and 264.
LoopTest(w) ==
    /\ pc[w] = "loop"
    /\ IF status[w] = "stop"
       THEN /\ pc' = [pc EXCEPT ![w] = "scan"]
            /\ sec' = [sec EXCEPT ![w] = Exit]
       ELSE /\ pc' = [pc EXCEPT ![w] = "wait"]
            /\ UNCHANGED sec
    /\ UNCHANGED <<wd_round, evars, qvars, cv, local, running, chk, ratio, high,
                   dvars, fvars, free>>

\* __spi_convar_wait returns and the CRIT section is entered.
Awaken(w) ==
    /\ cv' = [cv EXCEPT ![w] = 0]
    /\ pc' = [pc EXCEPT ![w] = "splice"]
    /\ UNCHANGED <<wd_round, evars, qvars, local, running, sec, chk, ratio, high,
                   dvars, fvars, free>>

NoWait(w) ==
    /\ pc[w] = "wait"
    /\ cv[w] # 0
    /\ Awaken(w)

Block(w) ==
    /\ pc[w] = "wait"
    /\ cv[w] = 0
    /\ pc' = [pc EXCEPT ![w] = "blocked"]
    /\ UNCHANGED <<wd_round, evars, qvars, cv, local, running, sec, chk, ratio, high,
                   dvars, fvars, free>>

Wake(w) ==
    /\ pc[w] = "blocked"
    /\ cv[w] = 1
    /\ Awaken(w)

\* pthread_cond_wait is not called in a loop: the worker makes a pass.
SpuriousWake(w) ==
    /\ Spurious
    /\ pc[w] = "blocked"
    /\ cv[w] = 0
    /\ Awaken(w)

\* The locked head of a section: HIGH and above go to the front of the local
\* list, NORM and IDLE to its end.  HIGH sets ratio and high, NORM scales
\* ratio (C division truncates toward zero).
Truncate(x, d) == IF x >= 0 THEN x \div d ELSE -((-x) \div d)

\* Mutants of Splice: NORM and IDLE are spliced with list_splice_init, HIGH
\* with list_splice_tail_init; list_splice_init loses its _init; the
\* atomic_reset of a longer queue leaves a count behind.
SpliceWith(w, joined, kept, count) ==
    LET s == sec[w] IN
    /\ pc[w] = "splice"
    /\ local' = [local EXCEPT ![w] = joined]
    /\ queue' = [queue EXCEPT ![w][s] = kept]
    /\ pending' = [pending EXCEPT ![w][s] = count]
    /\ ratio' = [ratio EXCEPT ![w] = CASE s = HIGH -> pending[w][s]
                                       [] s = NORM -> Truncate(@, HighNormRatio)
                                       [] OTHER -> @]
    /\ high' = [high EXCEPT ![w] = IF s = HIGH THEN pending[w][s] # 0 ELSE @]
    /\ pc' = [pc EXCEPT ![w] = "scan"]
    /\ UNCHANGED <<wd_round, evars, cv, running, sec, chk, dvars, fvars, free>>

SpliceNormFront(w) == SpliceWith(w, queue[w][sec[w]] \o local[w], <<>>, 0)

SpliceHighTail(w) ==
    SpliceWith(w, IF sec[w] > HIGH THEN queue[w][sec[w]] \o local[w]
                                   ELSE local[w] \o queue[w][sec[w]], <<>>, 0)

SpliceKeepsQueue(w) ==
    SpliceWith(w, IF sec[w] >= HIGH THEN queue[w][sec[w]] \o local[w]
                                    ELSE local[w] \o queue[w][sec[w]], queue[w][sec[w]], 0)

SpliceMiscounts(w) ==
    SpliceWith(w, IF sec[w] >= HIGH THEN queue[w][sec[w]] \o local[w]
                                    ELSE local[w] \o queue[w][sec[w]], <<>>,
               IF Len(queue[w][sec[w]]) > 1 THEN 1 ELSE 0)

Splice(w) ==
    LET s == sec[w] IN
    /\ pc[w] = "splice"
    /\ local' = [local EXCEPT ![w] = IF s >= HIGH THEN queue[w][s] \o @ ELSE @ \o queue[w][s]]
    /\ queue' = [queue EXCEPT ![w][s] = <<>>]
    /\ pending' = [pending EXCEPT ![w][s] = 0]
    /\ ratio' = [ratio EXCEPT ![w] = CASE s = HIGH -> pending[w][s]
                                       [] s = NORM -> Truncate(@, HighNormRatio)
                                       [] OTHER -> @]
    /\ high' = [high EXCEPT ![w] = IF s = HIGH THEN pending[w][s] # 0 ELSE @]
    /\ pc' = [pc EXCEPT ![w] = "scan"]
    /\ UNCHANGED <<wd_round, evars, cv, running, sec, chk, dvars, fvars, free>>

\* The section takes the head of the local list: NORM and IDLE take any
\* event, the others only one whose ev_type is their priority constant.
Takes(w, e) == sec[w] <= NORM \/ type[e] = sec[w]

AtList(w) == pc[w] = "scan" /\ sec[w] # Exit /\ chk[w] = sec[w]

Take(w) ==
    /\ AtList(w)
    /\ local[w] # <<>>
    /\ Takes(w, Head(local[w]))
    /\ running' = [running EXCEPT ![w] = Head(local[w])]
    /\ local' = [local EXCEPT ![w] = Tail(@)]
    /\ owed' = [owed EXCEPT ![w] = @ \ {Head(local[w])}]
    /\ pc' = [pc EXCEPT ![w] = "handler"]
    /\ UNCHANGED <<wd_round, evars, qvars, cv, sec, chk, ratio, high,
                   dvars, svars, fini, findex, status, free>>

\* The list is empty or its head is not the section's: the next section, or
\* the loop test after IDLE.
LeaveSection(w) ==
    /\ AtList(w)
    /\ local[w] # <<>> => ~Takes(w, Head(local[w]))
    /\ IF sec[w] = IDLE
       THEN /\ pc' = [pc EXCEPT ![w] = "loop"]
            /\ Enter(w, CRIT)
       ELSE /\ pc' = [pc EXCEPT ![w] = "splice"]
            /\ Enter(w, sec[w] - 1)
    /\ UNCHANGED <<wd_round, evars, qvars, cv, local, running, ratio, high,
                   dvars, fvars, free>>

\* The handler calls edp_event_done: the event is the application's again.
Release(w) ==
    /\ pc[w] = "handler"
    /\ dpc[w] = "idle"
    /\ free' = free \cup {running[w]}
    /\ running' = [running EXCEPT ![w] = NoEvent]
    /\ pc' = [pc EXCEPT ![w] = "released"]
    /\ UNCHANGED <<wd_round, evars, qvars, cv, local, sec, chk, ratio, high,
                   dvars, fvars>>

\* The done callback and the handler return; the checks start at CRIT.
Return(w) ==
    /\ pc[w] = "released"
    /\ dpc[w] = "idle"
    /\ pc' = [pc EXCEPT ![w] = "scan"]
    /\ chk' = [chk EXCEPT ![w] = CRIT]
    /\ UNCHANGED <<wd_round, evars, qvars, cv, local, running, sec, ratio, high,
                   dvars, fvars, free>>

\* One unlocked read of a pending counter.  In NORM a pending HIGH event
\* preempts only when HIGH was idle or its share (ratio) is used up; ratio--
\* follows the last check of NORM.
Preempts(w) ==
    /\ pending[w][chk[w]] # 0
    /\ sec[w] = NORM /\ chk[w] = HIGH => ~high[w] \/ ratio[w] = 0

AtCheck(w) == pc[w] = "scan" /\ chk[w] > sec[w]

Preempt(w) ==
    /\ AtCheck(w)
    /\ Preempts(w)
    /\ Enter(w, chk[w])
    /\ pc' = [pc EXCEPT ![w] = "splice"]
    /\ UNCHANGED <<wd_round, evars, qvars, cv, local, running, ratio, high,
                   dvars, fvars, free>>

CheckNext(w) ==
    /\ AtCheck(w)
    /\ ~Preempts(w)
    /\ chk' = [chk EXCEPT ![w] = @ - 1]
    /\ ratio' = [ratio EXCEPT ![w] = IF sec[w] = NORM /\ chk[w] = HIGH THEN @ - 1 ELSE @]
    /\ UNCHANGED <<wd_round, evars, qvars, cv, local, running, pc, sec, high,
                   dvars, fvars, free>>

\* Every counter was zero behind the loop: worker_fini_tls, the thread ends.
ThreadEnd(w) ==
    /\ pc[w] = "scan"
    /\ sec[w] = Exit
    /\ chk[w] = Exit
    /\ pc' = [pc EXCEPT ![w] = "done"]
    /\ status' = [status EXCEPT ![w] = IF @ = "stop" THEN "zero" ELSE @]
    /\ UNCHANGED <<wd_round, evars, qvars, cv, local, running, sec, chk, ratio, high,
                   dvars, svars, fini, findex, owed, free>>

-----------------------------------------------------------------------------
(* worker_fini, called by a thread that does not dispatch meanwhile: the    *)
(* loop runs from wd_thread_num, one past the last worker, down to 0.       *)

FiniCall ==
    /\ CallsFini
    /\ start = "up"
    /\ fini = "uncalled"
    /\ fini' = "stop"
    /\ findex' = ThreadNum
    /\ UNCHANGED <<wd_round, evars, qvars, cv, wvars, dvars, svars, status, owed, free>>

SeqRange(s) == {s[i] : i \in DOMAIN s}

\* The events worker w has accepted and not started.
Accepted(w) == SeqRange(local[w]) \cup UNION {SeqRange(queue[w][p]) : p \in Priorities}

\* Mutant of FiniStop: the loop ends before worker 0.
FiniStopBelow ==
    /\ fini = "stop"
    /\ findex' = findex - 1
    /\ fini' = IF findex = 1 THEN "free" ELSE "stop"
    /\ IF findex \in Workers
       THEN /\ status' = [status EXCEPT ![findex] = "stop"]
            /\ owed' = [owed EXCEPT ![findex] = Accepted(findex)]
            /\ convar' = [convar EXCEPT ![findex] = @ - 1]
       ELSE UNCHANGED <<status, owed, convar>>
    /\ UNCHANGED <<wd_round, evars, qvars, cv, wvars, dvars, start, sindex, tls, wcv, free>>

FiniStop ==
    /\ fini = "stop"
    /\ findex' = findex - 1
    /\ fini' = IF findex = 0 THEN "free" ELSE "stop"
    /\ IF findex \in Workers
       THEN /\ status' = [status EXCEPT ![findex] = "stop"]
            /\ owed' = [owed EXCEPT ![findex] = Accepted(findex)]
            /\ convar' = [convar EXCEPT ![findex] = @ - 1]
       ELSE UNCHANGED <<status, owed, convar>>
    /\ UNCHANGED <<wd_round, evars, qvars, cv, wvars, dvars, start, sindex, tls, wcv, free>>

\* mheap_free(wd_threads) under the running threads: the allocator may
\* overwrite the first words of the block, wk_status of worker 0 with them.
FiniFree ==
    /\ fini = "free"
    /\ fini' = "freed"
    /\ status' \in {status, [status EXCEPT ![0] = "lost"]}
    /\ UNCHANGED <<wd_round, evars, qvars, cv, wvars, dvars, svars, findex, owed, free>>

-----------------------------------------------------------------------------
DispatchStep(t) == \/ RouteKeep(t) \/ RouteRound(t) \/ NextRound(t)
                   \/ IncRound(t) \/ LoadRound(t) \/ ModRound(t)
                   \/ Reject(t) \/ Stray(t) \/ Enqueue(t) \/ Signal(t)

StartStep == StartThread \/ StartRefused \/ StartDone \/ StartTimeout \/ StartUndo

WorkerStep(w) == \/ InitTls(w) \/ SignalStart(w) \/ Cancelled(w)
                 \/ LoopTest(w) \/ NoWait(w) \/ Block(w) \/ Wake(w)
                 \/ Splice(w) \/ Take(w) \/ LeaveSection(w) \/ Release(w)
                 \/ Return(w) \/ Preempt(w) \/ CheckNext(w) \/ ThreadEnd(w)

Next == \/ \E t \in Threads, e \in Events : \/ \E k \in Kinds : Dispatch(t, e, k)
                                            \/ Redispatch(t, e)
        \/ \E t \in Threads : DispatchStep(t)
        \/ \E w \in Workers : WorkerStep(w) \/ SpuriousWake(w)
        \/ StartStep
        \/ FiniCall \/ FiniStop \/ FiniFree

Spec == Init /\ [][Next]_vars

\* The operating system runs every thread that can run; a thread in
\* __edp_dispatch leaves it, a handler returns.
Fairness == /\ \A t \in Threads : WF_vars(DispatchStep(t))
            /\ \A w \in Workers : WF_vars(WorkerStep(w))
            /\ WF_vars(StartStep) /\ WF_vars(FiniStop) /\ WF_vars(FiniFree)

FairSpec == Spec /\ Fairness

-----------------------------------------------------------------------------
(* Properties *)

EventTypes ==
    /\ type \in [Events -> Int]
    /\ priority \in [Events -> Int]
    /\ cpuid \in [Events -> Int]
    /\ free \in SUBSET Events

QueueTypes ==
    /\ queue \in [Workers -> [Priorities -> Seq(Events)]]
    /\ pending \in [Workers -> [Priorities -> Nat]]
    /\ cv \in [Workers -> {0, 1}]

CallTypes ==
    /\ wd_round \in Nat
    /\ dpc \in [Threads -> {"idle", "route", "next", "inc", "load", "mod",
                             "enqueue", "signal", "stray"}]
    /\ dev \in [Threads -> Events \cup {NoEvent}]
    /\ \A t \in Threads : dev[t] = NoEvent <=> dpc[t] \in {"idle", "signal"}
    /\ dcpu \in [Threads -> Nat]
    /\ \A t \in Threads : dpc[t] = "signal" => dcpu[t] \in Workers
    /\ dtmp \in [Threads -> Nat]

ListTypes ==
    /\ local \in [Workers -> Seq(Events)]
    /\ running \in [Workers -> Events \cup {NoEvent}]
    /\ \A w \in Workers : running[w] = NoEvent <=> pc[w] # "handler"
    /\ ratio \in [Workers -> Int]
    /\ high \in [Workers -> BOOLEAN]

\* A worker that has not started, or is between two passes of its loop.
Outside == {"none", "born", "begun", "loop", "wait", "blocked"}

ControlTypes ==
    /\ pc \in [Workers -> {"none", "born", "begun", "loop", "wait", "blocked", "splice", "scan",
                            "handler", "released", "done"}]
    /\ sec \in [Workers -> Priorities \cup {Exit}]
    /\ chk \in [Workers -> Priorities \cup {Exit}]
    /\ \A w \in Workers :
          /\ pc[w] = "scan" => chk[w] >= sec[w]
          /\ pc[w] \in {"splice", "handler", "released"} => sec[w] # Exit /\ chk[w] = sec[w]
          /\ pc[w] \in Outside => sec[w] = CRIT /\ chk[w] = CRIT

FiniTypes ==
    /\ status \in [Workers -> {"running", "stop", "zero", "lost"}]
    /\ fini \in {"uncalled", "stop", "free", "freed"}
    /\ findex \in -1 .. ThreadNum
    /\ fini \in {"uncalled", "stop"} => findex >= 0
    /\ owed \in [Workers -> SUBSET Events]

StartTypes ==
    /\ start \in {"create", "wait", "undo", "up", "failed"}
    /\ sindex \in 0 .. ThreadNum
    /\ start \in {"create", "wait", "undo"} => sindex < ThreadNum
    /\ \A w \in Workers : w > sindex \/ (w = sindex /\ start = "create") => pc[w] = "none"
    /\ tls \in [Workers -> BOOLEAN]
    /\ wcv \in [Workers -> {0, 1}]
    /\ convar \in [Workers -> Int]

\* Every variable keeps its type; where the code is in a call or in the loop
\* fixes which of its variables are in use.
TypeOK == EventTypes /\ QueueTypes /\ CallTypes /\ ListTypes /\ ControlTypes /\ FiniTypes
          /\ StartTypes

\* A thread has filled a queue of w and is about to signal.
Signalled(w) == \E t \in Threads : dpc[t] = "signal" /\ dcpu[t] = w

\* No wake-up is lost (worker.c:141, 337-342; edp_sys.h:56-77): when a worker
\* sleeps without a signal, its local list is empty and each event in its
\* queues was put there by a thread that has yet to signal it.
SleepSafe ==
    \A w \in Workers : pc[w] = "blocked" /\ cv[w] = 0 =>
        /\ local[w] = <<>>
        /\ \/ \A p \in Priorities : queue[w][p] = <<>>
           \/ Signalled(w)

\* The strengthening that makes SleepSafe inductive: a queue the pass of worker w
\* has spliced already, or every queue when w is about to wait, is empty unless
\* a signal is there or on its way; a worker that ends its pass has an empty list.
Passed(w, p) == \/ pc[w] \in Outside
                \/ pc[w] = "splice" /\ p > sec[w]
                \/ pc[w] \in {"scan", "handler", "released"} /\ p >= sec[w]

SignalInv ==
    \A w \in Workers, p \in Priorities :
        Passed(w, p) /\ queue[w][p] # <<>> => cv[w] = 1 \/ Signalled(w)

ListInv ==
    \A w \in Workers : pc[w] \in Outside \/ sec[w] = Exit
                        => local[w] = <<>>

\* The counters the worker reads outside the locks are the queue lengths
\* (worker.c:148, 339): a check that reads zero has seen an empty queue.
PendingExact ==
    \A w \in Workers, p \in Priorities : pending[w][p] = Len(queue[w][p])

\* The places an event can be in: owned by the application, argument of a
\* call, in a handler, or in a list; and the events in each of them.
Places == {<<"free", 0, 0>>} \cup ({"call"} \X Threads \X {0})
          \cup ({"run", "local"} \X Workers \X {0}) \cup ({"queue"} \X Workers \X Priorities)

Content(x) == CASE x[1] = "free" -> free
                [] x[1] = "call" -> {dev[x[2]]} \ {NoEvent}
                [] x[1] = "run" -> {running[x[2]]} \ {NoEvent}
                [] x[1] = "local" -> SeqRange(local[x[2]])
                [] x[1] = "queue" -> SeqRange(queue[x[2]][x[3]])

Once(s) == \A i, j \in DOMAIN s : s[i] = s[j] => i = j

\* An accepted event is never lost, never linked into two lists or twice into
\* one (it has one ev_node) and never run by two workers; a rejected one goes
\* back to its owner (worker.c:143-257, 301-342).
OnePlace ==
    /\ \A e \in Events : \E x \in Places : \A y \in Places : e \in Content(y) <=> y = x
    /\ \A w \in Workers : Once(local[w]) /\ \A p \in Priorities : Once(queue[w][p])

\* Splicing keeps the urgent events (HIGH and above) in front of the NORM and
\* IDLE ones, whatever sections were left early (worker.c:146-239).
UrgentFirst ==
    \A w \in Workers : \A i, j \in DOMAIN local[w] :
        priority[local[w][i]] < HIGH /\ priority[local[w][j]] >= HIGH => j < i

\* With the two stores of wd_round merged, an event is routed to a worker that
\* exists, whatever threads advance wd_round at once (worker.c:291-300).
RouteInRange ==
    ~SplitRound => \A t \in Threads : dpc[t] = "enqueue" => dcpu[t] \in Workers

\* The strengthening that makes RouteInRange inductive.
RoundInv ==
    ~SplitRound => /\ wd_round \in Workers
                   /\ \A t \in Threads : /\ dpc[t] \in {"next", "enqueue"} => dcpu[t] \in Workers
                                         /\ dpc[t] \notin {"inc", "load", "mod"}

\* No dispatch reaches a worker before its lists and locks are initialised: it
\* is the handshake of wk_convar that orders worker_init_tls before the return
\* of worker_init (worker.c:134-138, 377); pthread_cond_timedwait is not in a
\* loop (edp_sys.h:90-97), so that a spurious return would break it.
StartSafe ==
    ~Spurious => \A t \in Threads :
        dpc[t] \in {"enqueue", "stray"} /\ dcpu[t] \in Workers => tls[dcpu[t]]

\* The strengthening that makes StartSafe inductive.
StartInv ==
    /\ \A w \in Workers : wcv[w] = 1 \/ pc[w] \notin {"none", "born"} => tls[w]
    /\ ~Spurious => \A w \in Workers : w < sindex => tls[w]
    /\ start = "up" => sindex = ThreadNum
    /\ \A t \in Threads : dpc[t] # "idle" => start = "up"

\* When worker_init has failed, or worker_fini has stopped the pool, every
\* wk_convar is destroyed as often as it was initialised; only that of the
\* thread that failed is destroyed once more (worker.c:373, 381, 386-391, 410).
ConvarsDown ==
    /\ start = "failed" => \A w \in Workers : convar[w] = IF w = sindex THEN -1 ELSE 0
    /\ fini \in {"free", "freed"} => \A w \in Workers : convar[w] = 0

\* A worker ends only after it has started every event it had accepted when
\* its STOP was written (worker.c:264-275, 412).
DrainBeforeExit ==
    \A w \in Workers : pc[w] = "done" => owed[w] = {} /\ local[w] = <<>>

\* The pool as its clients see it: the events of a worker are those in its
\* queues and its local list, in the order of the two lists put together.
Line(w, p) == local[w] \o queue[w][p]

Waiting == [w \in Workers |-> {<<e, priority[e]>> : e \in Accepted(w)}]

Ahead == UNION {LET s == Line(w, p)
                    I == {i \in DOMAIN s : priority[s[i]] = p} IN
                {<<s[x[1]], s[x[2]]>> : x \in {y \in I \X I : y[1] < y[2]}}
                : w \in Workers, p \in {IDLE, NORM}}

Pool == INSTANCE EventPool WITH
            Classes <- Priorities, Ordered <- {IDLE, NORM},
            waiting <- Waiting, ahead <- Ahead

\* The worker pool implements the abstract pool: accepted events are run once,
\* by their worker, NORM and IDLE events in the order they were accepted
\* (worker.c:143-257, 337-342).
Implements == Pool!Spec

\* Every accepted event is run, although wake-ups, preemption and re-dispatch
\* from handlers interleave, in a pool of HIGH and NORM events: CRIT and EMRG
\* events can starve the others, and HIGH with NORM can starve IDLE
\* (worker.c:141, 225-231).
Served ==
    \A w \in Workers : \A e \in Events : (e \in Accepted(w)) ~> (running[w] = e)

\* worker.c:412, "let it stop": a worker told to stop ends.
StopEnds ==
    \A w \in Workers : (status[w] = "stop") ~> (pc[w] = "done")
=============================================================================
