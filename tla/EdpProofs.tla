------------------------------ MODULE EdpProofs ------------------------------
(****************************************************************************)
(* Theorems about Edp for every set of emitters, every argument of edp_init *)
(* and any number of calls.                                                 *)
(****************************************************************************)
EXTENDS Edp, FiniteSetTheorems, TLAPS

\* The fini calls that may be left: of edp_fini, or of an edp_init that failed.
T0 == <<>>
T1 == <<"logger">>
T2 == <<"hset", "logger">>
T3 == <<"worker", "hset", "logger">>
T4 == <<"emit", "worker", "hset", "logger">>
TN == <<"net", "emit", "worker", "hset", "logger">>
TE == <<"eio", "emit", "worker", "hset", "logger">>
T6 == <<"eio", "net", "emit", "worker", "hset", "logger">>

Todos == {T0, T1, T2, T3, T4, TN, TE, T6}

\* The calls that edp_init has made when it is at init, and those among todo.
Before == [logger |-> {}, hset |-> {"logger"}, worker |-> {"logger", "hset"},
           emit |-> {"logger", "hset", "worker"},
           eio |-> {"logger", "hset", "worker", "emit"},
           net |-> {"logger", "hset", "worker", "emit", "eio"}]

Left(c) == \/ c = "logger" /\ todo # T0
           \/ c = "hset" /\ todo \notin {T0, T1}
           \/ c = "worker" /\ todo \notin {T0, T1, T2}
           \/ c = "emit" /\ todo \notin {T0, T1, T2, T3}
           \/ c = "eio" /\ todo \in {TE, T6}
           \/ c = "net" /\ todo \in {TN, T6}

\* The part that call c initialises ought to be initialised.
On(c) == IF init # "none" THEN c \in Before[init] ELSE up \/ Left(c)

\* What is initialised while edp_init goes on, while the system is up, and while
\* it is taken down, in whatever order it is called.
UpInv ==
    /\ todo \in Todos
    /\ init # "none" => arg \in ThreadNums
    /\ init \in {"emit", "eio", "net"} => ~up /\ wd_init /\ wd_threads = "live" /\ wd_thread_num # 0
    /\ init \in {"eio", "net"} => emd_init
    /\ init = "net" => iod
    /\ init \in {"emit", "eio", "net"} => ~net_init
    /\ up => /\ todo \in {T0, T1, T2}
             /\ wd_init /\ wd_threads = "live" /\ wd_thread_num # 0
             /\ emd_init /\ iod /\ net_init /\ evcache = "live"
    /\ net_init => wd_thread_num # 0 /\ wd_init /\ todo \notin {TE, T4, T3}
    /\ polling => iod
    /\ wd_threads = "live" => wd_thread_num # 0
    /\ todo \in {TN, T6} /\ "twice" \notin breach => evcache = "live"

\* An event under way keeps its emitter on the list, and an io callback its sock;
\* the application that keeps its promises has no emitter while it is down.
LiveInv ==
    /\ emd_lock = "live" <=> emd_init
    /\ ~emd_init => ed_emits = {}
    /\ \A e \in Emits : inflight[e] # "none" => e \in ed_emits
    /\ \A e \in Routing : inflight[e] # "none"
    /\ incb # NoEmit => incb \in socks
    /\ breach \cap {"early", "alive"} = {} => (~up => ed_emits = {}) /\ ~stale

\* The index of the next worker is below the largest pool there was while nobody
\* is between the two stores of wd_round, and so is every worker taken by then.
RoundInv ==
    /\ wd_thread_num <= most
    /\ Routing = {} => wd_round < most \/ wd_round = 0
    /\ \A e \in Routing \ torn : cpu[e] < most \/ cpu[e] = 0
    /\ Routing # {} /\ wd_thread_num = 0 => "early" \in breach

\* The monitor's hash set stays in the registry while the monitor is there.
SetsInv ==
    "again" \notin breach =>
        /\ init # "none" => ~up
        /\ iod => hsd_sets /\ hsd_lock = "live" /\ (up \/ init = "net" \/ todo \in {TE, T6})

\* The network events under way.
Netted == {e \in Emits : inflight[e] = "net"}

OutInv == IsFiniteSet(Netted) /\ CacheBalanced

\* An event that is still to be given back while the network is down: edpnet_fini
\* came first, or the application is to blame.
LateInv == late > 0 /\ ~net_init => raced \/ breach \cap {"early", "alive"} # {}

\* What an application that keeps its promises may lose.
Lost == Cancelled \cup {"iod_evcache"} \cup {x \in {"ed_evcache"} : raced}

\* A part is initialised exactly when it ought to be; without a breach it always is so.
OnNow == /\ up => init = "none" /\ todo = T0
         /\ (On("logger") <=> log_init) /\ (On("logger") <=> log_sock = "open")
         /\ On("hset") <=> hsd_init
         /\ (On("worker") <=> wd_init) /\ (On("worker") <=> wd_threads = "live")
         /\ On("emit") <=> emd_init
         /\ (On("eio") <=> iod) /\ (On("eio") <=> hsd_sets) /\ (ioes => iod)
         /\ On("net") <=> net_init
         /\ ~raced => (On("net") <=> evcache = "live")

OnInv == breach = {} => OnNow

LeakInv == breach = {} => leaks \subseteq Lost

IInv == /\ TypeOK /\ UpInv /\ LiveInv /\ RoundInv /\ SetsInv
        /\ OutInv /\ LateInv /\ OnInv /\ LeakInv /\ Blamed

-----------------------------------------------------------------------------
(* The calls that are left.                                                 *)

\* The lists of calls are different, and each is one call and another list.
LEMMA Lists ==
    /\ T0 # T1 /\ T0 # T2 /\ T0 # T3 /\ T0 # T4 /\ T0 # TN /\ T0 # TE /\ T0 # T6
    /\ T1 # T2 /\ T1 # T3 /\ T1 # T4 /\ T1 # TN /\ T1 # TE /\ T1 # T6
    /\ T2 # T3 /\ T2 # T4 /\ T2 # TN /\ T2 # TE /\ T2 # T6
    /\ T3 # T4 /\ T3 # TN /\ T3 # TE /\ T3 # T6
    /\ T4 # TN /\ T4 # TE /\ T4 # T6 /\ TN # TE /\ TN # T6 /\ TE # T6
  BY DEF T0, T1, T2, T3, T4, TN, TE, T6

\* What is the first of each list, and what is behind it.
LEMMA Firsts ==
    /\ Head(T1) = "logger" /\ Tail(T1) = T0
    /\ Head(T2) = "hset" /\ Tail(T2) = T1
    /\ Head(T3) = "worker" /\ Tail(T3) = T2
    /\ Head(T4) = "emit" /\ Tail(T4) = T3
    /\ Head(TN) = "net" /\ Tail(TN) = T4
    /\ Head(TE) = "eio" /\ Tail(TE) = T4
    /\ Head(T6) = "eio" /\ Tail(T6) = TN
<1>1. Head(T1) = "logger" /\ Tail(T1) = T0
  BY DEF T0, T1
<1>2. Head(T2) = "hset" /\ Tail(T2) = T1
  BY DEF T1, T2
<1>3. Head(T3) = "worker" /\ Tail(T3) = T2
  BY DEF T2, T3
<1>4. Head(T4) = "emit" /\ Tail(T4) = T3
  BY DEF T3, T4
<1>5. Head(TN) = "net" /\ Tail(TN) = T4
  BY DEF TN, T4
<1>6. Head(TE) = "eio" /\ Tail(TE) = T4
  BY DEF TE, T4
<1>7. Head(T6) = "eio" /\ Tail(T6) = TN
  BY DEF TN, T6
<1>. QED
  BY <1>1, <1>2, <1>3, <1>4, <1>5, <1>6, <1>7

\* Each is a sequence of calls.
LEMMA Sequences == Todos \subseteq Seq(Calls)
  BY DEF Todos, T0, T1, T2, T3, T4, TN, TE, T6, Calls

\* Which list a fini call is taken from, and what it leaves (edp.c:58-73, 85-99).
LEMMA Takes ==
    ASSUME TypeOK, UpInv, NEW call, Due(call), Done
    PROVE  /\ todo \in Todos /\ todo' \in Todos /\ init = "none"
           /\ call = "logger" => todo = T1 /\ todo' = T0
           /\ call = "hset" => todo = T2 /\ todo' = T1
           /\ call = "worker" => todo = T3 /\ todo' = T2
           /\ call = "emit" => todo = T4 /\ todo' = T3
           /\ call = "net" => todo = TN /\ todo' = T4
           /\ call = "eio" => \/ todo = TE /\ todo' = T4
                              \/ todo = T6 /\ todo' = TN
<1>1. todo \in Todos /\ todo # T0 /\ init = "none"
  BY DEF TypeOK, UpInv, Due, T0
<1>2. todo' = Tail(todo) /\ Head(todo) = call
  BY DEF Due, Done
<1>. QED
  BY <1>1, <1>2, Firsts DEF Todos

\* The call a fini fails in.
LEMMA Fini ==
    ASSUME TypeOK, UpInv, NEW call, Due(call)
    PROVE  /\ init = "none"
           /\ call = "net" => todo = TN
           /\ call = "eio" => todo = TE \/ todo = T6
<1>1. todo \in Todos /\ todo # T0 /\ init = "none" /\ Head(todo) = call
  BY DEF TypeOK, UpInv, Due, T0
<1>. QED
  BY <1>1, Firsts DEF Todos

\* A call of edp_init that succeeds (edp.c:18-52).
LEMMA Goes ==
    ASSUME TypeOK, NEW call \in Calls, At(call), Go
    PROVE  /\ todo = T0 /\ todo' = T0 /\ init = call /\ init' = Next1[call]
           /\ call # "net" => up' = up
           /\ call = "net" => up' = TRUE
           /\ calls' = calls /\ arg' = arg /\ breach' = breach /\ fault' = fault
           /\ fault = "none" /\ raced' = raced
<1>1. init = call /\ call # "none" /\ up \in BOOLEAN
  BY DEF At, Calls, TypeOK
<1>. QED
  BY <1>1 DEF TypeOK, At, Go, T0

\* A call of edp_init that fails (edp.c:58-73).
LEMMA Stops ==
    ASSUME TypeOK, NEW call \in {"logger", "worker", "eio", "net"}, At(call), Stop
    PROVE  /\ todo = T0 /\ init = call /\ init' = "none" /\ todo' \in Todos
           /\ call = "logger" => todo' = T0
           /\ call = "worker" => todo' = T2
           /\ call = "eio" => todo' = T4
           /\ call = "net" => todo' = TE
           /\ calls' = calls /\ arg' = arg /\ breach' = breach /\ fault' = fault /\ up' = up
           /\ fault = "none" /\ raced' = raced
<1>1. todo = T0 /\ init = call
  BY DEF At, TypeOK, T0
<1>2. /\ call = "logger" => todo' = T0
      /\ call = "worker" => todo' = T2
      /\ call = "eio" => todo' = T4
      /\ call = "net" => todo' = TE
  BY <1>1 DEF Stop, Unwind, T0, T2, T4, TE
<1>3. todo' \in Todos
  BY <1>2 DEF Todos
<1>. QED
  BY <1>1, <1>2, <1>3 DEF At, Stop

\* The calls of edp_init in order (edp.c:18-52).
LEMMA Order ==
    /\ Next1["logger"] = "hset" /\ Next1["hset"] = "worker" /\ Next1["worker"] = "emit"
    /\ Next1["emit"] = "eio" /\ Next1["eio"] = "net" /\ Next1["net"] = "none"
  BY DEF Next1

\* The calls made before each call of edp_init.
LEMMA Befores ==
    /\ Before["logger"] = {} /\ Before["hset"] = {"logger"}
    /\ Before["worker"] = {"logger", "hset"}
    /\ Before["emit"] = {"logger", "hset", "worker"}
    /\ Before["eio"] = {"logger", "hset", "worker", "emit"}
    /\ Before["net"] = {"logger", "hset", "worker", "emit", "eio"}
  BY DEF Before

\* The application calls edp_init or edp_fini.
LEMMA Asks ==
    ASSUME TypeOK, Idle
    PROVE  todo = T0 /\ init = "none"
  BY DEF Idle, T0

\* wd_round is brought back below the number of threads.
LEMMA Modulo ==
    ASSUME NEW n \in Nat, NEW m \in Nat \ {0}
    PROVE  n % m \in 0 .. m - 1
  OBVIOUS

\* A program that failed is where it was, but for the blame.
LEMMA FailType ==
    ASSUME TypeOK, NEW f, Fails(f)
    PROVE  TypeOK'
  BY DEF TypeOK, Fails, mvars, lvars, hvars, wvars, evars, ivars, nvars

-----------------------------------------------------------------------------
(* Types.                                                                   *)

\* The types of the calls, of the flags and of the rest.
CallTypes == /\ calls \in 0 .. MaxCalls
             /\ init \in Calls \cup {"none"}
             /\ todo \in Seq(Calls)
             /\ init # "none" => todo = <<>>
             /\ arg \in ThreadNums \cup {0}

FlagTypes == /\ log_init \in BOOLEAN /\ hsd_init \in BOOLEAN /\ hsd_sets \in BOOLEAN
             /\ wd_init \in BOOLEAN /\ emd_init \in BOOLEAN /\ iod \in BOOLEAN
             /\ polling \in BOOLEAN /\ raced \in BOOLEAN
             /\ ioes \in BOOLEAN /\ stale \in BOOLEAN /\ net_init \in BOOLEAN
             /\ up \in BOOLEAN

DataTypes ==
    /\ log_sock \in {"none", "open", "closed"}
    /\ hsd_lock \in {"none", "live", "dead"}
    /\ wd_threads \in {"none", "live", "freed"}
    /\ wd_thread_num \in ThreadNums \cup {0}
    /\ most \in ThreadNums \cup {0}
    /\ wd_round \in Nat
    /\ cpu \in [Emits -> Nat \cup {-1}]
    /\ torn \subseteq Emits
    /\ emd_lock \in {"none", "live", "dead"}
    /\ ed_emits \subseteq Emits
    /\ inflight \in [Emits -> {"none", "own", "net"}]
    /\ watched \subseteq socks
    /\ socks \subseteq ed_emits
    /\ incb \in Emits \cup {NoEmit}
    /\ evcache \in {"none", "live", "freed"}
    /\ out \in Int
    /\ late \in 0 .. MaxLate

\* Together they are TypeOK.
LEMMA TypeParts ==
    /\ TypeOK <=> CallTypes /\ FlagTypes /\ DataTypes
    /\ TypeOK' <=> CallTypes' /\ FlagTypes' /\ DataTypes'
<1>. DEFINE F == {log_init, hsd_init, hsd_sets, wd_init, emd_init, iod, polling, ioes,
                  stale, net_init, up, raced}
<1>1. F \subseteq BOOLEAN <=> FlagTypes
  BY DEF FlagTypes
<1>2. F' \subseteq BOOLEAN <=> FlagTypes'
  BY DEF FlagTypes
<1>. QED
  BY <1>1, <1>2 DEF TypeOK, CallTypes, DataTypes

\* The calls of edp_init keep the types.
LEMMA TypeInits ==
    ASSUME TypeOK, LiveInv,
           \/ LoggerInit \/ LoggerInitFails \/ HsetInit \/ WorkerInit \/ WorkerInitFails
           \/ EmitInit \/ EioInit \/ EioInitFails \/ NetInit \/ NetInitFails
    PROVE  TypeOK'
<1>. USE DEF mvars, lvars, hvars, wvars, evars, ivars, nvars
<1>0. CallTypes /\ FlagTypes /\ DataTypes
  BY TypeParts
<1>1. CASE LoggerInit
  <2>1. todo' = <<>> /\ init' = "hset" /\ up' \in BOOLEAN /\ raced' = raced /\ calls' = calls /\ arg' = arg
    BY <1>1, Goes, Order DEF LoggerInit, Calls, T0, TypeOK, At, Go
  <2>2. CallTypes'
    BY <1>0, <2>1 DEF CallTypes, Calls
  <2>3. FlagTypes'
    BY <1>0, <1>1, <2>1 DEF FlagTypes, LoggerInit
  <2>4. DataTypes'
    BY <1>0, <1>1 DEF DataTypes, CallTypes, LoggerInit
  <2>. QED
    BY <2>2, <2>3, <2>4, TypeParts
<1>2. CASE HsetInit
  <2>1. todo' = <<>> /\ init' = "worker" /\ up' \in BOOLEAN /\ raced' = raced /\ calls' = calls /\ arg' = arg
    BY <1>2, Goes, Order DEF HsetInit, Calls, T0, TypeOK, At, Go
  <2>2. CallTypes'
    BY <1>0, <2>1 DEF CallTypes, Calls
  <2>3. FlagTypes'
    BY <1>0, <1>2, <2>1 DEF FlagTypes, HsetInit
  <2>4. DataTypes'
    BY <1>0, <1>2 DEF DataTypes, CallTypes, HsetInit
  <2>. QED
    BY <2>2, <2>3, <2>4, TypeParts
<1>3. CASE WorkerInit
  <2>1. todo' = <<>> /\ init' = "emit" /\ up' \in BOOLEAN /\ raced' = raced /\ calls' = calls /\ arg' = arg
    BY <1>3, Goes, Order DEF WorkerInit, Calls, T0, TypeOK, At, Go
  <2>2. CallTypes'
    BY <1>0, <2>1 DEF CallTypes, Calls
  <2>3. FlagTypes'
    BY <1>0, <1>3, <2>1 DEF FlagTypes, WorkerInit
  <2>4. DataTypes'
    BY <1>0, <1>3 DEF DataTypes, CallTypes, WorkerInit
  <2>. QED
    BY <2>2, <2>3, <2>4, TypeParts
<1>4. CASE EmitInit
  <2>1. todo' = <<>> /\ init' = "eio" /\ up' \in BOOLEAN /\ raced' = raced /\ calls' = calls /\ arg' = arg
    BY <1>4, Goes, Order DEF EmitInit, Calls, T0, TypeOK, At, Go
  <2>2. CallTypes'
    BY <1>0, <2>1 DEF CallTypes, Calls
  <2>3. FlagTypes'
    BY <1>0, <1>4, <2>1 DEF FlagTypes, EmitInit
  <2>4. DataTypes'
    BY <1>0, <1>4 DEF DataTypes, CallTypes, EmitInit, LiveInv
  <2>. QED
    BY <2>2, <2>3, <2>4, TypeParts
<1>5. CASE EioInit
  <2>1. todo' = <<>> /\ init' = "net" /\ up' \in BOOLEAN /\ raced' = raced /\ calls' = calls /\ arg' = arg
    BY <1>5, Goes, Order DEF EioInit, Calls, T0, TypeOK, At, Go
  <2>2. CallTypes'
    BY <1>0, <2>1 DEF CallTypes, Calls
  <2>3. FlagTypes'
    BY <1>0, <1>5, <2>1 DEF FlagTypes, EioInit
  <2>4. DataTypes'
    BY <1>0, <1>5 DEF DataTypes, CallTypes, EioInit
  <2>. QED
    BY <2>2, <2>3, <2>4, TypeParts
<1>6. CASE NetInit
  <2>1. todo' = <<>> /\ init' = "none" /\ up' \in BOOLEAN /\ raced' = raced /\ calls' = calls /\ arg' = arg
    BY <1>6, Goes, Order DEF NetInit, Calls, T0, TypeOK, At, Go
  <2>2. CallTypes'
    BY <1>0, <2>1 DEF CallTypes, Calls
  <2>3. FlagTypes'
    BY <1>0, <1>6, <2>1 DEF FlagTypes, NetInit
  <2>4. DataTypes'
    BY <1>0, <1>6 DEF DataTypes, CallTypes, NetInit
  <2>. QED
    BY <2>2, <2>3, <2>4, TypeParts
<1>7. CASE LoggerInitFails
  <2>1. todo' \in Seq(Calls) /\ init' = "none" /\ up' = up /\ raced' = raced /\ calls' = calls /\ arg' = arg
    BY <1>7, Stops, Sequences DEF LoggerInitFails
  <2>2. CallTypes'
    BY <1>0, <2>1 DEF CallTypes
  <2>3. FlagTypes'
    BY <1>0, <1>7, <2>1 DEF FlagTypes, LoggerInitFails
  <2>4. DataTypes'
    BY <1>0, <1>7 DEF DataTypes, LoggerInitFails
  <2>. QED
    BY <2>2, <2>3, <2>4, TypeParts
<1>8. CASE WorkerInitFails
  <2>1. todo' \in Seq(Calls) /\ init' = "none" /\ up' = up /\ raced' = raced /\ calls' = calls /\ arg' = arg
    BY <1>8, Stops, Sequences DEF WorkerInitFails
  <2>2. CallTypes'
    BY <1>0, <2>1 DEF CallTypes
  <2>3. FlagTypes'
    BY <1>0, <1>8, <2>1 DEF FlagTypes, WorkerInitFails
  <2>4. DataTypes'
    BY <1>0, <1>8 DEF DataTypes, WorkerInitFails
  <2>. QED
    BY <2>2, <2>3, <2>4, TypeParts
<1>9. CASE EioInitFails
  <2>1. todo' \in Seq(Calls) /\ init' = "none" /\ up' = up /\ raced' = raced /\ calls' = calls /\ arg' = arg
    BY <1>9, Stops, Sequences DEF EioInitFails
  <2>2. CallTypes'
    BY <1>0, <2>1 DEF CallTypes
  <2>3. FlagTypes'
    BY <1>0, <1>9, <2>1 DEF FlagTypes, EioInitFails
  <2>4. DataTypes'
    BY <1>0, <1>9 DEF DataTypes, EioInitFails
  <2>. QED
    BY <2>2, <2>3, <2>4, TypeParts
<1>10. CASE NetInitFails
  <2>1. todo' \in Seq(Calls) /\ init' = "none" /\ up' = up /\ raced' = raced /\ calls' = calls /\ arg' = arg
    BY <1>10, Stops, Sequences DEF NetInitFails
  <2>2. CallTypes'
    BY <1>0, <2>1 DEF CallTypes
  <2>3. FlagTypes'
    BY <1>0, <1>10, <2>1 DEF FlagTypes, NetInitFails
  <2>4. DataTypes'
    BY <1>0, <1>10 DEF DataTypes, NetInitFails
  <2>. QED
    BY <2>2, <2>3, <2>4, TypeParts
<1>. QED
  BY <1>1, <1>2, <1>3, <1>4, <1>5, <1>6, <1>7, <1>8, <1>9, <1>10

\* The calls of edp_fini keep the types.
LEMMA TypeFinis ==
    ASSUME TypeOK, UpInv,
           \/ EioFini \/ NetFini \/ EmitFini \/ WorkerFini \/ HsetFini \/ LoggerFini
    PROVE  TypeOK'
<1>. USE DEF mvars, lvars, hvars, wvars, evars, ivars, nvars
<1>0. CallTypes /\ FlagTypes /\ DataTypes
  BY TypeParts
<1>1. CASE EioFini
  <2>1. todo' \in Seq(Calls) /\ init = "none"
    BY <1>1, Takes, Sequences DEF EioFini
  <2>2. CallTypes'
    BY <1>0, <1>1, <2>1 DEF CallTypes, EioFini, Done
  <2>3. FlagTypes'
    BY <1>0, <1>1 DEF FlagTypes, EioFini, Done
  <2>4. DataTypes'
    BY <1>0, <1>1 DEF DataTypes, EioFini
  <2>. QED
    BY <2>2, <2>3, <2>4, TypeParts
<1>2. CASE NetFini
  <2>1. todo' \in Seq(Calls) /\ init = "none"
    BY <1>2, Takes, Sequences DEF NetFini
  <2>2. CallTypes'
    BY <1>0, <1>2, <2>1 DEF CallTypes, NetFini, Done
  <2>3. FlagTypes'
    BY <1>0, <1>2 DEF FlagTypes, NetFini, Done
  <2>4. DataTypes'
    BY <1>0, <1>2 DEF DataTypes, NetFini
  <2>. QED
    BY <2>2, <2>3, <2>4, TypeParts
<1>3. CASE EmitFini
  <2>1. todo' \in Seq(Calls) /\ init = "none"
    BY <1>3, Takes, Sequences DEF EmitFini
  <2>2. CallTypes'
    BY <1>0, <1>3, <2>1 DEF CallTypes, EmitFini, Done
  <2>3. FlagTypes'
    BY <1>0, <1>3 DEF FlagTypes, EmitFini, Done
  <2>4. DataTypes'
    BY <1>0, <1>3 DEF DataTypes, EmitFini
  <2>. QED
    BY <2>2, <2>3, <2>4, TypeParts
<1>4. CASE WorkerFini
  <2>1. todo' \in Seq(Calls) /\ init = "none"
    BY <1>4, Takes, Sequences DEF WorkerFini
  <2>2. CallTypes'
    BY <1>0, <1>4, <2>1 DEF CallTypes, WorkerFini, Done
  <2>3. FlagTypes'
    BY <1>0, <1>4 DEF FlagTypes, WorkerFini, Done
  <2>4. DataTypes'
    BY <1>0, <1>4 DEF DataTypes, WorkerFini
  <2>. QED
    BY <2>2, <2>3, <2>4, TypeParts
<1>5. CASE HsetFini
  <2>1. todo' \in Seq(Calls) /\ init = "none"
    BY <1>5, Takes, Sequences DEF HsetFini
  <2>2. CallTypes'
    BY <1>0, <1>5, <2>1 DEF CallTypes, HsetFini, Done
  <2>3. FlagTypes'
    BY <1>0, <1>5 DEF FlagTypes, HsetFini, Done
  <2>4. DataTypes'
    BY <1>0, <1>5 DEF DataTypes, HsetFini
  <2>. QED
    BY <2>2, <2>3, <2>4, TypeParts
<1>6. CASE LoggerFini
  <2>1. todo' \in Seq(Calls) /\ init = "none"
    BY <1>6, Takes, Sequences DEF LoggerFini
  <2>2. CallTypes'
    BY <1>0, <1>6, <2>1 DEF CallTypes, LoggerFini, Done
  <2>3. FlagTypes'
    BY <1>0, <1>6 DEF FlagTypes, LoggerFini, Done
  <2>4. DataTypes'
    BY <1>0, <1>6 DEF DataTypes, LoggerFini
  <2>. QED
    BY <2>2, <2>3, <2>4, TypeParts
<1>. QED
  BY <1>1, <1>2, <1>3, <1>4, <1>5, <1>6

\* The application calls edp_init or edp_fini.
LEMMA TypeCalls ==
    ASSUME TypeOK, (\E n \in ThreadNums : CallInit(n)) \/ CallFini
    PROVE  TypeOK'
<1>. USE DEF mvars, lvars, hvars, wvars, evars, ivars, nvars
<1>0. CallTypes /\ FlagTypes /\ DataTypes
  BY TypeParts
<1>1. FlagTypes' /\ DataTypes'
  <2>1. CASE CallFini
    <3>1. up' = FALSE /\ UNCHANGED <<lvars, hvars, wvars, evars, ivars, nvars, raced>>
      BY <2>1 DEF CallFini
    <3>2. FlagTypes'
      BY <1>0, <3>1 DEF FlagTypes
    <3>3. DataTypes'
      BY <1>0, <3>1 DEF DataTypes
    <3>. QED
      BY <3>2, <3>3
  <2>2. ASSUME NEW n \in ThreadNums, CallInit(n) PROVE FlagTypes' /\ DataTypes'
    BY <1>0, <2>2 DEF FlagTypes, DataTypes, CallInit
  <2>. QED
    BY <2>1, <2>2
<1>2. todo' \in Seq(Calls)
  <2>1. CASE CallFini
    <3>1. todo' = <<"eio", "net", "emit", "worker", "hset", "logger">>
      BY <2>1 DEF CallFini
    <3>. QED
      BY ONLY <3>1 DEF Calls
  <2>2. ASSUME NEW n \in ThreadNums, CallInit(n) PROVE todo' \in Seq(Calls)
    <3>1. todo' = todo
      BY <2>2 DEF CallInit
    <3>. QED
      BY <1>0, <3>1 DEF CallTypes
  <2>. QED
    BY <2>1, <2>2
<1>3. CallTypes'
  BY <1>0, <1>2, EdpAssumption DEF CallTypes, CallInit, CallFini, Idle, Calls
<1>. QED
  BY <1>1, <1>3, TypeParts

\* A dispatch that goes through takes a worker there is (worker.c:297-300).
LEMMA Routes ==
    ASSUME TypeOK, NEW e \in Emits, RouteFault(e) = "none"
    PROVE  /\ wd_thread_num \in Nat \ {0} /\ wd_threads = "live"
           /\ wd_round % wd_thread_num \in 0 .. wd_thread_num - 1
<1>1. wd_thread_num # 0 /\ wd_threads = "live"
  BY DEF RouteFault, IndexFault
<1>2. wd_thread_num \in Nat \ {0} /\ wd_round \in Nat
  BY <1>1, EdpAssumption DEF TypeOK
<1>. QED
  BY <1>1, <1>2, Modulo

\* The application and the epoll thread keep the types of the emitters and socks.
LEMMA TypeUses ==
    ASSUME TypeOK, LiveInv, NEW e \in Emits,
           \/ EmitDestroy(e) \/ AddFd(e) \/ SockDestroy(e) \/ ReportNoEvent(e)
           \/ \E own \in BOOLEAN : EmitCreate(e, own)
    PROVE  TypeOK'
<1>. USE DEF mvars, lvars, hvars, wvars, evars, ivars, nvars, avars
<1>0. CallTypes /\ FlagTypes /\ DataTypes
  BY TypeParts
<1>1. CASE EmitDestroy(e)
  <2>1. CallTypes' /\ FlagTypes'
    BY <1>0, <1>1 DEF CallTypes, FlagTypes, EmitDestroy
  <2>2. DataTypes'
    BY <1>0, <1>1 DEF DataTypes, EmitDestroy
  <2>. QED
    BY <2>1, <2>2, TypeParts
<1>2. CASE AddFd(e)
  <2>1. CASE \E f : Fails(f)
    BY <2>1, FailType
  <2>2. CASE ~\E f : Fails(f)
    <3>1. CallTypes' /\ FlagTypes'
      BY <1>0, <1>2, <2>2 DEF CallTypes, FlagTypes, AddFd
    <3>2. DataTypes'
      BY <1>0, <1>2, <2>2 DEF DataTypes, AddFd
    <3>. QED
      BY <3>1, <3>2, TypeParts
  <2>. QED
    BY <2>1, <2>2
<1>3. CASE SockDestroy(e)
  <2>1. CallTypes' /\ FlagTypes'
    BY <1>0, <1>3 DEF CallTypes, FlagTypes, SockDestroy
  <2>2. DataTypes'
    BY <1>0, <1>3 DEF DataTypes, SockDestroy
  <2>. QED
    BY <2>1, <2>2, TypeParts
<1>4. CASE \E own \in BOOLEAN : EmitCreate(e, own)
  <2>1. CASE \E f : Fails(f)
    BY <2>1, FailType
  <2>2. CASE ~\E f : Fails(f)
    <3>1. CallTypes' /\ FlagTypes'
      BY <1>0, <1>4, <2>2 DEF CallTypes, FlagTypes, EmitCreate
    <3>2. DataTypes'
      BY <1>0, <1>4, <2>2 DEF DataTypes, EmitCreate
    <3>. QED
      BY <3>1, <3>2, TypeParts
  <2>. QED
    BY <2>1, <2>2
<1>5. CASE ReportNoEvent(e)
  <2>1. CallTypes' /\ FlagTypes'
    BY <1>0, <1>5 DEF CallTypes, FlagTypes, ReportNoEvent
  <2>2. DataTypes'
    BY <1>0, <1>5 DEF DataTypes, ReportNoEvent
  <2>. QED
    BY <2>1, <2>2, TypeParts
<1>. QED
  BY <1>1, <1>2, <1>3, <1>4, <1>5

\* What is dispatched, and what is handled, keeps the types.
LEMMA TypeEvents ==
    ASSUME TypeOK, NEW e \in Emits,
           \/ Dispatch(e) \/ Queue(e) \/ Report(e) \/ Handle(e)
           \/ \E c \in 0 .. most - 1 : DispatchKept(e, c)
    PROVE  TypeOK'
<1>. USE DEF mvars, lvars, hvars, wvars, evars, ivars, nvars, avars
<1>0. CallTypes /\ FlagTypes /\ DataTypes
  BY TypeParts
<1>1. ASSUME NEW k \in {"own", "net"}, Route(e, k)
      PROVE  /\ inflight' \in [Emits -> {"none", "own", "net"}]
             /\ wd_round' \in Nat /\ cpu' \in [Emits -> Nat \cup {-1}] /\ torn' \subseteq Emits
  BY <1>0, <1>1 DEF DataTypes, Route
<1>2. CASE Dispatch(e)
  <2>1. CallTypes' /\ FlagTypes'
    BY <1>0, <1>2 DEF CallTypes, FlagTypes, Dispatch
  <2>2. DataTypes'
    BY <1>0, <1>1, <1>2 DEF DataTypes, Dispatch
  <2>. QED
    BY <2>1, <2>2, TypeParts
<1>3. CASE Report(e)
  <2>1. CallTypes' /\ FlagTypes'
    BY <1>0, <1>3 DEF CallTypes, FlagTypes, Report
  <2>2. DataTypes'
    BY <1>0, <1>1, <1>3 DEF DataTypes, Report
  <2>. QED
    BY <2>1, <2>2, TypeParts
<1>4. CASE Queue(e)
  <2>1. CASE RouteFault(e) # "none"
    BY <1>4, <2>1, FailType DEF Queue
  <2>2. CASE RouteFault(e) = "none"
    <3>1. CallTypes' /\ FlagTypes'
      BY <1>0, <1>4, <2>2 DEF CallTypes, FlagTypes, Queue
    <3>2. wd_round' \in Nat
      BY <1>4, <2>2, Routes DEF Queue
    <3>3. DataTypes'
      BY <1>0, <1>4, <2>2, <3>2 DEF DataTypes, Queue
    <3>. QED
      BY <3>1, <3>3, TypeParts
  <2>. QED
    BY <2>1, <2>2
<1>5. ASSUME NEW c \in 0 .. most - 1, DispatchKept(e, c) PROVE TypeOK'
  <2>1. CASE IndexFault(c) # "none"
    BY <1>5, <2>1, FailType DEF DispatchKept
  <2>2. CASE IndexFault(c) = "none"
    <3>1. CallTypes' /\ FlagTypes'
      BY <1>0, <1>5, <2>2 DEF CallTypes, FlagTypes, DispatchKept
    <3>2. DataTypes'
      BY <1>0, <1>5, <2>2 DEF DataTypes, DispatchKept
    <3>. QED
      BY <3>1, <3>2, TypeParts
  <2>. QED
    BY <2>1, <2>2
<1>6. CASE Handle(e)
  <2>1. CallTypes' /\ FlagTypes'
    BY <1>0, <1>6 DEF CallTypes, FlagTypes, Handle
  <2>2. late' \in 0 .. MaxLate
    BY <1>0, <1>6, EdpAssumption DEF DataTypes, Handle
  <2>3. DataTypes'
    BY <1>0, <1>6, <2>2 DEF DataTypes, Handle
  <2>. QED
    BY <2>1, <2>3, TypeParts
<1>. QED
  BY <1>2, <1>3, <1>4, <1>5, <1>6

\* The io callback returns.
LEMMA TypeReported ==
    ASSUME TypeOK, Reported
    PROVE  TypeOK'
<1>. USE DEF mvars, lvars, hvars, wvars, evars, ivars, nvars
<1>0. CallTypes /\ FlagTypes /\ DataTypes
  BY TypeParts
<1>1. CASE \E f : Fails(f)
  BY <1>1, FailType
<1>2. CASE ~\E f : Fails(f)
  <2>1. CallTypes' /\ FlagTypes'
    BY <1>0, <1>2 DEF CallTypes, FlagTypes, Reported
  <2>2. DataTypes'
    BY <1>0, <1>2 DEF DataTypes, Reported
  <2>. QED
    BY <2>1, <2>2, TypeParts
<1>. QED
  BY <1>1, <1>2

\* An event is given back, and the epoll thread ends.
LEMMA TypeBack ==
    ASSUME TypeOK, EventDone \/ EpollBreaks
    PROVE  TypeOK'
<1>. USE DEF mvars, lvars, hvars, wvars, evars, ivars, nvars, avars
<1>0. CallTypes /\ FlagTypes /\ DataTypes
  BY TypeParts
<1>1. CASE EventDone /\ net_init
  <2>1. CallTypes' /\ FlagTypes'
    BY <1>0, <1>1 DEF CallTypes, FlagTypes, EventDone
  <2>2. late' \in 0 .. MaxLate /\ out' \in Int
    BY <1>0, <1>1, EdpAssumption DEF DataTypes, EventDone
  <2>3. DataTypes'
    BY <1>0, <1>1, <2>2 DEF DataTypes, EventDone
  <2>. QED
    BY <2>1, <2>3, TypeParts
<1>2. CASE EventDone /\ ~net_init
  BY <1>2, FailType DEF EventDone
<1>3. CASE EpollBreaks
  <2>0. /\ polling' = FALSE
        /\ UNCHANGED <<mvars, lvars, hvars, wd_init, emd_init, iod, ioes, stale, nvars, avars>>
    BY <1>3 DEF EpollBreaks
  <2>1. CallTypes'
    BY <1>0, <2>0 DEF CallTypes
  <2>2. FlagTypes'
    BY <1>0, <2>0 DEF FlagTypes
  <2>3. DataTypes'
    BY <1>0, <1>3 DEF DataTypes, EpollBreaks
  <2>. QED
    BY <2>1, <2>2, <2>3, TypeParts
<1>. QED
  BY <1>1, <1>2, <1>3

\* A step that changes nothing.
LEMMA TypeStutter ==
    ASSUME TypeOK, UNCHANGED vars
    PROVE  TypeOK'
  BY DEF TypeOK, vars, mvars, lvars, hvars, wvars, evars, ivars, nvars, avars

\* The calls in which the program fails.
Trouble == \/ WorkerInitCancels \/ EioInitCancels
           \/ EioFiniFails \/ NetFiniFails \/ WorkerFiniPastEnd

\* They fail, and blame nobody anew.
LEMMA Troubles ==
    ASSUME Trouble
    PROVE  breach' = breach /\ \E f : Fails(f)
  BY DEF Trouble, WorkerInitCancels, EioInitCancels, EioFiniFails, NetFiniFails,
         WorkerFiniPastEnd

\* Every step keeps the types.
LEMMA TypeStep ==
    ASSUME TypeOK, UpInv, LiveInv, [Next]_vars
    PROVE  TypeOK'
<1>1. CASE Next
  <2>1. CASE Trouble
    BY <2>1, Troubles, FailType
  <2>. QED
    BY <1>1, <2>1, TypeInits, TypeFinis, TypeCalls, TypeUses, TypeEvents, TypeReported,
       TypeBack DEF Next, Trouble
<1>2. CASE UNCHANGED vars
  BY <1>2, TypeStutter
<1>. QED
  BY <1>1, <1>2

-----------------------------------------------------------------------------
(* What the application, the epoll thread and the workers leave alone.      *)

Meanwhile(e) == \/ EmitDestroy(e) \/ AddFd(e) \/ SockDestroy(e)
                \/ \E own \in BOOLEAN : EmitCreate(e, own)
                \/ Dispatch(e) \/ Queue(e) \/ Report(e) \/ ReportNoEvent(e)
                \/ \E c \in 0 .. most - 1 : DispatchKept(e, c)
                \/ Handle(e)

\* The steps of a next-state relation, by what they are about.
Inits == \/ LoggerInit \/ LoggerInitFails \/ HsetInit \/ WorkerInit \/ WorkerInitFails
         \/ EmitInit \/ EioInit \/ EioInitFails \/ NetInit \/ NetInitFails

Finis == EioFini \/ NetFini \/ EmitFini \/ WorkerFini \/ HsetFini \/ LoggerFini

Others == \/ \E e \in Emits : Meanwhile(e)
          \/ EventDone \/ Reported \/ EpollBreaks \/ Trouble \/ UNCHANGED vars

\* These are all there are.
LEMMA Kinds ==
    ASSUME [Next]_vars
    PROVE  \/ \E n \in ThreadNums : CallInit(n)
           \/ Inits \/ CallFini \/ Finis \/ Others
  BY DEF Next, Inits, Finis, Others, Meanwhile, Trouble

Frame == /\ UNCHANGED <<mvars, lvars, hvars, wd_init, wd_threads, wd_thread_num, most>>
         /\ UNCHANGED <<emd_init, emd_lock, iod, stale, net_init, evcache, up, raced, leaks>>
         /\ breach \subseteq breach'
         /\ polling' => polling

\* A program that failed is where it was.
LEMMA FailFrame ==
    ASSUME NEW f, Fails(f), breach \subseteq breach'
    PROVE  Frame
  BY DEF Fails, Frame, mvars, lvars, hvars, wvars, evars, ivars, nvars

\* Between the calls of edp_init and edp_fini nothing is initialised or not any more.
LEMMA Framed ==
    ASSUME Others
    PROVE  Frame
<1>. USE DEF mvars, lvars, hvars, wvars, evars, ivars, nvars, avars
<1>1. ASSUME NEW e \in Emits, EmitDestroy(e) PROVE Frame
  BY <1>1 DEF EmitDestroy, Frame
<1>2. ASSUME NEW e \in Emits, AddFd(e) PROVE Frame
  <2>1. breach \subseteq breach'
    BY <1>2 DEF AddFd, Uses
  <2>. QED
    BY <1>2, <2>1, FailFrame DEF AddFd, Frame
<1>3. ASSUME NEW e \in Emits, SockDestroy(e) PROVE Frame
  BY <1>3 DEF SockDestroy, Uses, Frame
<1>4. ASSUME NEW e \in Emits, NEW own \in BOOLEAN, EmitCreate(e, own) PROVE Frame
  <2>1. breach \subseteq breach'
    BY <1>4 DEF EmitCreate, Uses
  <2>. QED
    BY <1>4, <2>1, FailFrame DEF EmitCreate, Frame
<1>5. ASSUME NEW e \in Emits, Dispatch(e) PROVE Frame
  BY <1>5 DEF Dispatch, Uses, Frame
<1>6. ASSUME NEW e \in Emits, NEW c \in 0 .. most - 1, DispatchKept(e, c) PROVE Frame
  <2>1. breach \subseteq breach'
    BY <1>6 DEF DispatchKept, Uses
  <2>. QED
    BY <1>6, <2>1, FailFrame DEF DispatchKept, Frame
<1>7. ASSUME NEW e \in Emits, Queue(e) PROVE Frame
  BY <1>7, FailFrame DEF Queue, Frame
<1>8. ASSUME NEW e \in Emits, Report(e) \/ ReportNoEvent(e) PROVE Frame
  BY <1>8 DEF Report, ReportNoEvent, Frame
<1>9. ASSUME NEW e \in Emits, Handle(e) PROVE Frame
  BY <1>9 DEF Handle, Frame
<1>10. CASE EventDone \/ Reported
  BY <1>10, FailFrame DEF EventDone, Reported, Frame
<1>11. CASE EpollBreaks
  BY <1>11 DEF EpollBreaks, Frame
<1>12. CASE Trouble
  BY <1>12, Troubles, FailFrame
<1>13. CASE UNCHANGED vars
  BY <1>13 DEF vars, Frame
<1>. QED
  BY <1>1, <1>2, <1>3, <1>4, <1>5, <1>6, <1>7, <1>8, <1>9, <1>10, <1>11, <1>12, <1>13
     DEF Others, Meanwhile

-----------------------------------------------------------------------------
(* What is initialised when.                                                *)

\* Every step keeps UpInv.
LEMMA UpStep ==
    ASSUME TypeOK, UpInv, [Next]_vars
    PROVE  UpInv'
<1>. USE DEF mvars, lvars, hvars, wvars, evars, ivars, nvars
<1>1. ASSUME NEW n \in ThreadNums, CallInit(n) PROVE UpInv'
  <2>1. todo = T0 /\ todo' = T0 /\ init = "none"
    BY <1>1, Asks DEF CallInit
  <2>. QED
    BY <1>1, <2>1, Lists DEF UpInv, CallInit, Todos
<1>2. CASE CallFini
  <2>1. todo' = T6 /\ init' = "none" /\ up' = FALSE /\ ("twice" \notin breach' => up)
    BY <1>2, Asks DEF CallFini, T6
  <2>2. todo' \in Todos
    BY <2>1 DEF Todos
  <2>. QED
    BY <1>2, <2>1, <2>2, Lists DEF UpInv, CallFini
<1>3. CASE LoggerInit
  BY <1>3, Goes, Order, Lists, EdpAssumption DEF UpInv, Todos, Calls, LoggerInit
<1>4. CASE HsetInit
  BY <1>4, Goes, Order, Lists, EdpAssumption DEF UpInv, Todos, Calls, HsetInit
<1>5. CASE WorkerInit
  BY <1>5, Goes, Order, Lists, EdpAssumption DEF UpInv, Todos, Calls, WorkerInit
<1>6. CASE EmitInit
  BY <1>6, Goes, Order, Lists, EdpAssumption DEF UpInv, Todos, Calls, EmitInit
<1>7. CASE EioInit
  BY <1>7, Goes, Order, Lists, EdpAssumption DEF UpInv, Todos, Calls, EioInit
<1>8. CASE NetInit
  BY <1>8, Goes, Order, Lists, EdpAssumption DEF UpInv, Todos, Calls, NetInit
<1>9. CASE LoggerInitFails
  BY <1>9, Stops, Lists DEF UpInv, Todos, LoggerInitFails
<1>10. CASE WorkerInitFails
  BY <1>10, Stops, Lists DEF UpInv, Todos, WorkerInitFails
<1>11. CASE EioInitFails
  BY <1>11, Stops, Lists DEF UpInv, Todos, EioInitFails
<1>12. CASE NetInitFails
  BY <1>12, Stops, Lists DEF UpInv, Todos, NetInitFails
<1>13. CASE EioFini
  BY <1>13, Takes, Lists DEF UpInv, Done, EioFini
<1>14. CASE NetFini
  BY <1>14, Takes, Lists DEF UpInv, Done, NetFini
<1>15. CASE EmitFini
  BY <1>15, Takes, Lists DEF UpInv, Done, EmitFini
<1>16. CASE WorkerFini
  BY <1>16, Takes, Lists DEF UpInv, Done, WorkerFini
<1>17. CASE HsetFini
  BY <1>17, Takes, Lists DEF UpInv, Done, HsetFini
<1>18. CASE LoggerFini
  BY <1>18, Takes, Lists DEF UpInv, Done, LoggerFini
<1>19. CASE Others
  BY <1>19, Framed DEF UpInv, Frame
<1>. QED
  BY Kinds, <1>1, <1>2, <1>3, <1>4, <1>5, <1>6, <1>7, <1>8, <1>9, <1>10, <1>11, <1>12, <1>13, <1>14, <1>15, <1>16, <1>17, <1>18, <1>19 DEF Inits, Finis

-----------------------------------------------------------------------------
(* Emitters, events and callbacks.                                          *)

\* A program that failed is where it was.
LEMMA FailLive ==
    ASSUME LiveInv, NEW f, Fails(f), breach \subseteq breach'
    PROVE  LiveInv'
  BY DEF LiveInv, Fails, mvars, wvars, evars, ivars, Routing

\* What a use of the system does to the order of calls.
LEMMA Early ==
    ASSUME Uses
    PROVE  /\ breach \subseteq breach'
           /\ breach' \cap {"early", "alive"} = {} => up /\ breach \cap {"early", "alive"} = {}
  BY DEF Uses

\* Every step of the application, the epoll thread and the workers keeps LiveInv.
LEMMA LiveOthers ==
    ASSUME TypeOK, LiveInv, Others
    PROVE  LiveInv'
<1>. USE DEF mvars, evars, ivars, avars
<1>1. ASSUME NEW e \in Emits, EmitDestroy(e) PROVE LiveInv'
  BY <1>1 DEF EmitDestroy, LiveInv, TypeOK, Routing, wvars
<1>2. ASSUME NEW e \in Emits, AddFd(e) PROVE LiveInv'
  <2>1. Uses
    BY <1>2 DEF AddFd
  <2>2. CASE iod
    BY <1>2, <2>1, <2>2, Early DEF AddFd, LiveInv, Routing, wvars
  <2>. QED
    BY <1>2, <2>1, <2>2, Early, FailLive DEF AddFd
<1>3. ASSUME NEW e \in Emits, SockDestroy(e) PROVE LiveInv'
  <2>1. Uses
    BY <1>3 DEF SockDestroy
  <2>. QED
    BY <1>3, <2>1, Early DEF SockDestroy, LiveInv, Routing, wvars
<1>4. ASSUME NEW e \in Emits, NEW own \in BOOLEAN, EmitCreate(e, own) PROVE LiveInv'
  <2>1. Uses
    BY <1>4 DEF EmitCreate
  <2>2. CASE emd_lock = "live"
    BY <1>4, <2>1, <2>2, Early DEF EmitCreate, LiveInv, Routing, wvars
  <2>. QED
    BY <1>4, <2>1, <2>2, Early, FailLive DEF EmitCreate
<1>5. ASSUME NEW e \in Emits, NEW k \in {"own", "net"}, Route(e, k)
      PROVE  /\ \A x \in Emits : inflight'[x] # "none" => x = e \/ inflight[x] # "none"
             /\ \A x \in Emits : x \in Routing' => x = e \/ x \in Routing
             /\ inflight'[e] # "none" /\ \A x \in Emits \ {e} : inflight'[x] = inflight[x]
  BY <1>5 DEF Route, Routing, TypeOK
<1>6. ASSUME NEW e \in Emits, Dispatch(e) PROVE LiveInv'
  <2>1. Uses
    BY <1>6 DEF Dispatch
  <2>. QED
    BY <1>5, <1>6, <2>1, Early DEF Dispatch, LiveInv, Routing
<1>7. ASSUME NEW e \in Emits, NEW c \in 0 .. most - 1, DispatchKept(e, c) PROVE LiveInv'
  <2>1. Uses
    BY <1>7 DEF DispatchKept
  <2>2. CASE IndexFault(c) = "none"
    <3>1. /\ \A x \in Emits : inflight'[x] # "none" => x = e \/ inflight[x] # "none"
          /\ inflight'[e] # "none" /\ \A x \in Emits \ {e} : inflight'[x] = inflight[x]
          /\ Routing' = Routing
      BY <1>7, <2>2 DEF DispatchKept, TypeOK, wvars, Routing
    <3>. QED
      BY <1>7, <2>1, <2>2, <3>1, Early DEF DispatchKept, LiveInv, Routing
  <2>. QED
    BY <1>7, <2>1, <2>2, Early, FailLive DEF DispatchKept
<1>8. ASSUME NEW e \in Emits, Queue(e) PROVE LiveInv'
  <2>1. CASE RouteFault(e) = "none"
    <3>1. Routing' \subseteq Routing
      BY <1>8, <2>1 DEF Queue, Routing, TypeOK
    <3>. QED
      BY <1>8, <2>1, <3>1 DEF Queue, LiveInv
  <2>. QED
    BY <1>8, <2>1, FailLive DEF Queue
<1>9. ASSUME NEW e \in Emits, Report(e) PROVE LiveInv'
  <2>1. e \in socks /\ e \in ed_emits
    BY <1>9 DEF Report, TypeOK
  <2>. QED
    BY <1>5, <1>9, <2>1 DEF Report, LiveInv, Routing
<1>10. ASSUME NEW e \in Emits, ReportNoEvent(e) PROVE LiveInv'
  <2>1. e \in socks
    BY <1>10 DEF ReportNoEvent, TypeOK
  <2>. QED
    BY <1>10, <2>1 DEF ReportNoEvent, LiveInv, Routing, wvars
<1>11. ASSUME NEW e \in Emits, Handle(e) PROVE LiveInv'
  <2>1. /\ \A x \in Emits : inflight'[x] # "none" => inflight[x] # "none"
        /\ \A x \in Emits \ {e} : inflight'[x] = inflight[x]
        /\ Routing' = Routing /\ e \notin Routing
    BY <1>11 DEF Handle, TypeOK, wvars, Routing
  <2>. QED
    BY <1>11, <2>1 DEF Handle, LiveInv, Routing
<1>12. CASE Reported
  <2>1. CASE stale
    BY <1>12, <2>1, FailLive DEF Reported
  <2>2. CASE ~stale
    BY <1>12, <2>2 DEF Reported, LiveInv, Routing, wvars
  <2>. QED
    BY <2>1, <2>2
<1>13. CASE EventDone
  BY <1>13, FailLive DEF EventDone, LiveInv, Routing, wvars
<1>14. CASE EpollBreaks
  BY <1>14 DEF EpollBreaks, LiveInv, Routing, wvars
<1>15. CASE Trouble
  BY <1>15, Troubles, FailLive
<1>16. CASE UNCHANGED vars
  BY <1>16 DEF vars, LiveInv, Routing, wvars
<1>. QED
  BY <1>1, <1>2, <1>3, <1>4, <1>6, <1>7, <1>8, <1>9, <1>10, <1>11, <1>12, <1>13, <1>14,
     <1>15, <1>16 DEF Others, Meanwhile

\* Every step keeps LiveInv.
LEMMA LiveStep ==
    ASSUME TypeOK, UpInv, LiveInv, [Next]_vars
    PROVE  LiveInv'
<1>. USE DEF mvars, lvars, hvars, wvars, evars, ivars, nvars, Routing
<1>1. ASSUME NEW n \in ThreadNums, CallInit(n) PROVE LiveInv'
  BY <1>1 DEF CallInit, LiveInv
<1>2. CASE CallFini
  <2>1. /\ breach \subseteq breach' /\ up' = FALSE
        /\ breach' \cap {"early", "alive"} = {} => ed_emits = {}
    BY <1>2 DEF CallFini
  <2>. QED
    BY <1>2, <2>1 DEF CallFini, LiveInv
<1>3. CASE LoggerInit
  BY <1>3, Goes DEF LiveInv, Calls, LoggerInit
<1>4. CASE HsetInit
  BY <1>4, Goes DEF LiveInv, Calls, HsetInit
<1>5. CASE WorkerInit
  BY <1>5, Goes DEF LiveInv, Calls, WorkerInit
<1>6. CASE EmitInit
  BY <1>6, Goes DEF LiveInv, Calls, EmitInit
<1>7. CASE EioInit
  BY <1>7, Goes DEF LiveInv, Calls, EioInit
<1>8. CASE NetInit
  BY <1>8, Goes DEF LiveInv, Calls, NetInit
<1>9. CASE LoggerInitFails
  BY <1>9, Stops DEF LiveInv, LoggerInitFails
<1>10. CASE WorkerInitFails
  BY <1>10, Stops DEF LiveInv, WorkerInitFails
<1>11. CASE EioInitFails
  BY <1>11, Stops DEF LiveInv, EioInitFails
<1>12. CASE NetInitFails
  BY <1>12, Stops DEF LiveInv, NetInitFails
<1>13. CASE EioFini
  <2>1. ~up
    BY <1>13, Takes, Lists DEF EioFini, UpInv
  <2>2. ed_emits = {} => incb = NoEmit
    BY DEF LiveInv, TypeOK
  <2>. QED
    BY <1>13, <2>1, <2>2 DEF EioFini, Done, LiveInv
<1>14. CASE NetFini
  BY <1>14 DEF LiveInv, Done, NetFini
<1>15. CASE EmitFini
  BY <1>15 DEF LiveInv, Done, EmitFini
<1>16. CASE WorkerFini
  BY <1>16 DEF LiveInv, Done, WorkerFini
<1>17. CASE HsetFini
  BY <1>17 DEF LiveInv, Done, HsetFini
<1>18. CASE LoggerFini
  BY <1>18 DEF LiveInv, Done, LoggerFini
<1>19. CASE Others
  BY <1>19, LiveOthers
<1>. QED
  BY Kinds, <1>1, <1>2, <1>3, <1>4, <1>5, <1>6, <1>7, <1>8, <1>9, <1>10, <1>11, <1>12, <1>13, <1>14, <1>15, <1>16, <1>17, <1>18, <1>19 DEF Inits, Finis

-----------------------------------------------------------------------------
(* The index of the next worker, the registry, the cache of events.         *)

RoundFrame == /\ UNCHANGED <<wd_thread_num, most, wd_round, cpu, torn>>
              /\ breach \subseteq breach'

\* Nothing about the next worker changes.
LEMMA RoundKept ==
    ASSUME RoundInv, RoundFrame
    PROVE  RoundInv'
  BY DEF RoundInv, RoundFrame, Routing

\* edp_init and edp_fini leave the next worker alone, but for the start of a pool
\* (worker.c:393-396).
LEMMA RoundCalls ==
    ASSUME TypeOK, (\E n \in ThreadNums : CallInit(n)) \/ Inits \/ CallFini \/ Finis
    PROVE  WorkerInit \/ RoundFrame
<1>. USE DEF wvars, RoundFrame
<1>1. ASSUME NEW n \in ThreadNums, CallInit(n) PROVE RoundFrame
  BY <1>1 DEF CallInit
<1>2. CASE CallFini
  BY <1>2 DEF CallFini
<1>3. CASE LoggerInit \/ LoggerInitFails
  BY <1>3, Goes, Stops DEF LoggerInit, LoggerInitFails, Calls
<1>4. CASE HsetInit \/ EmitInit
  BY <1>4, Goes DEF HsetInit, EmitInit, Calls
<1>5. CASE WorkerInitFails
  BY <1>5, Stops DEF WorkerInitFails
<1>6. CASE EioInit \/ EioInitFails
  BY <1>6, Goes, Stops DEF EioInit, EioInitFails, Calls
<1>7. CASE NetInit \/ NetInitFails
  BY <1>7, Goes, Stops DEF NetInit, NetInitFails, Calls
<1>8. CASE Finis
  BY <1>8 DEF Finis, Done, EioFini, NetFini, EmitFini, WorkerFini, HsetFini, LoggerFini
<1>. QED
  BY <1>1, <1>2, <1>3, <1>4, <1>5, <1>6, <1>7, <1>8 DEF Inits

\* A dispatch takes the next worker; one that is dispatched before there was a pool
\* is the application's mistake (worker.c:294-296).
LEMMA RoundRoute ==
    ASSUME TypeOK, UpInv, RoundInv, NEW e \in Emits, Dispatch(e) \/ Report(e)
    PROVE  RoundInv'
<1>1. /\ UNCHANGED <<wd_thread_num, most>> /\ breach \subseteq breach'
      /\ wd_thread_num = 0 => "early" \in breach'
  <2>1. CASE Dispatch(e)
    BY <2>1, Early DEF Dispatch, Uses, UpInv
  <2>2. CASE Report(e)
    BY <2>2 DEF Report, UpInv, avars
  <2>. QED
    BY <2>1, <2>2
<1>2. /\ cpu' = [cpu EXCEPT ![e] = wd_round]
      /\ torn' = IF Routing = {} THEN torn ELSE torn \cup {e}
  BY DEF Dispatch, Report, Route
<1>3. wd_round \in Nat /\ cpu \in [Emits -> Nat \cup {-1}]
  BY DEF TypeOK
<1>4. Routing' = Routing \cup {e} /\ cpu'[e] = wd_round
      /\ \A x \in Emits \ {e} : cpu'[x] = cpu[x]
  BY <1>2, <1>3 DEF Routing
<1>5. \A x \in Routing' \ torn' : cpu'[x] < most \/ cpu'[x] = 0
  <2>1. CASE Routing = {}
    BY <1>4, <2>1 DEF RoundInv
  <2>2. CASE Routing # {}
    <3>1. \A x \in Routing' \ torn' : x \in Routing \ torn /\ cpu'[x] = cpu[x]
      BY <1>2, <1>4, <2>2 DEF Routing
    <3>. QED
      BY <3>1 DEF RoundInv
  <2>. QED
    BY <2>1, <2>2
<1>. QED
  BY <1>1, <1>4, <1>5 DEF RoundInv

\* A dispatch that goes through brings it back (worker.c:297).
LEMMA RoundQueue ==
    ASSUME TypeOK, RoundInv, NEW e \in Emits, Queue(e), RouteFault(e) = "none"
    PROVE  RoundInv'
<1>1. wd_round' \in 0 .. wd_thread_num - 1 /\ wd_thread_num \in Nat \ {0}
  BY Routes DEF Queue
<1>2. /\ UNCHANGED <<wd_thread_num, most>> /\ breach' = breach
      /\ cpu' = [cpu EXCEPT ![e] = -1] /\ torn' = torn \ {e}
  BY DEF Queue
<1>3. \A x \in Routing' : x \in Routing /\ x # e /\ cpu'[x] = cpu[x]
  BY <1>2 DEF Routing, TypeOK
<1>4. wd_round' < most' \/ wd_round' = 0
  <2>1. most \in Nat
    BY EdpAssumption DEF TypeOK
  <2>. QED
    BY <1>1, <1>2, <2>1 DEF RoundInv
<1>5. \A x \in Routing' \ torn' : cpu'[x] < most' \/ cpu'[x] = 0
  <2>1. \A x \in Routing' \ torn' : x \in Routing \ torn
    BY <1>2, <1>3
  <2>. QED
    BY <1>2, <1>3, <2>1 DEF RoundInv
<1>6. Routing' # {} => Routing # {}
  BY <1>3
<1>. QED
  BY <1>2, <1>4, <1>5, <1>6 DEF RoundInv

\* The rest of what happens meanwhile leaves the next worker alone.
LEMMA RoundOthers ==
    ASSUME Others
    PROVE  \/ RoundFrame
           \/ \E e \in Emits : \/ Dispatch(e) \/ Report(e)
                              \/ (Queue(e) /\ RouteFault(e) = "none")
<1>. USE DEF wvars
<1>1. breach \subseteq breach' /\ UNCHANGED <<wd_thread_num, most>>
  BY Framed DEF Frame
<1>. DEFINE Same == UNCHANGED <<wd_round, cpu, torn>>
<1>2. ASSUME NEW f, Fails(f) PROVE Same
  BY <1>2 DEF Fails
<1>3. ASSUME NEW e \in Emits, EmitDestroy(e) \/ SockDestroy(e) \/ ReportNoEvent(e) \/ Handle(e)
      PROVE  Same
  BY <1>3 DEF EmitDestroy, SockDestroy, ReportNoEvent, Handle
<1>4. ASSUME NEW e \in Emits, AddFd(e) PROVE Same
  BY <1>2, <1>4 DEF AddFd
<1>5. ASSUME NEW e \in Emits, NEW own \in BOOLEAN, EmitCreate(e, own) PROVE Same
  BY <1>2, <1>5 DEF EmitCreate
<1>6. ASSUME NEW e \in Emits, NEW c \in 0 .. most - 1, DispatchKept(e, c) PROVE Same
  BY <1>2, <1>6 DEF DispatchKept
<1>7. ASSUME NEW e \in Emits, Queue(e), RouteFault(e) # "none" PROVE Same
  BY <1>2, <1>7 DEF Queue
<1>8. ASSUME EventDone \/ Reported PROVE Same
  BY <1>2, <1>8 DEF EventDone, Reported
<1>9. ASSUME EpollBreaks \/ UNCHANGED vars PROVE Same
  BY <1>9 DEF EpollBreaks, vars
<1>10. ASSUME Trouble PROVE Same
  BY <1>2, <1>10, Troubles
<1>. QED
  BY <1>1, <1>3, <1>4, <1>5, <1>6, <1>7, <1>8, <1>9, <1>10 DEF Others, Meanwhile, RoundFrame

\* Every step keeps RoundInv.
LEMMA RoundStep ==
    ASSUME TypeOK, UpInv, RoundInv, [Next]_vars
    PROVE  RoundInv'
<1>1. CASE WorkerInit
  <2>1. arg \in Nat /\ most \in Nat /\ wd_round \in Nat /\ cpu \in [Emits -> Nat \cup {-1}]
    BY EdpAssumption DEF TypeOK
  <2>2. /\ wd_thread_num' = arg /\ wd_round' = wd_round /\ cpu' = cpu /\ torn' = torn
        /\ most' = IF arg > most THEN arg ELSE most
        /\ breach' = breach
    BY <1>1, Goes DEF WorkerInit, Calls
  <2>3. wd_thread_num' # 0
    <3>1. init = "worker"
      BY <1>1 DEF WorkerInit, At
    <3>. QED
      BY <2>2, <3>1, EdpAssumption DEF UpInv
  <2>4. most' \in Nat /\ most <= most' /\ arg <= most'
    BY <2>1, <2>2
  <2>5. Routing' = Routing
    BY <2>2 DEF Routing
  <2>6. \A x \in Routing : cpu[x] \in Nat
    BY <2>1 DEF Routing
  <2>7. \A x \in Routing \ torn : cpu[x] < most' \/ cpu[x] = 0
    BY <2>1, <2>4, <2>6 DEF RoundInv
  <2>8. Routing = {} => wd_round < most' \/ wd_round = 0
    BY <2>1, <2>4 DEF RoundInv
  <2>. QED
    BY <2>2, <2>3, <2>4, <2>5, <2>7, <2>8 DEF RoundInv
<1>2. CASE Others
  BY <1>2, RoundOthers, RoundRoute, RoundQueue, RoundKept
<1>3. CASE ~Others /\ ~WorkerInit
  BY <1>3, Kinds, RoundCalls, RoundKept
<1>. QED
  BY <1>1, <1>2, <1>3

\* Every step keeps SetsInv.
LEMMA SetsStep ==
    ASSUME TypeOK, UpInv, SetsInv, [Next]_vars
    PROVE  SetsInv'
<1>. USE DEF mvars, lvars, hvars, wvars, evars, ivars, nvars
<1>1. ASSUME NEW n \in ThreadNums, CallInit(n) PROVE SetsInv'
  <2>1. todo = T0 /\ todo' = T0 /\ init = "none"
    BY <1>1, Asks DEF CallInit
  <2>. QED
    BY <1>1, <2>1, Lists DEF SetsInv, CallInit
<1>2. CASE CallFini
  <2>1. todo' = T6 /\ init' = "none" /\ ("again" \notin breach' => "again" \notin breach)
    BY <1>2, Asks DEF CallFini, T6
  <2>. QED
    BY <1>2, <2>1 DEF SetsInv, CallFini
<1>3. CASE LoggerInit
  BY <1>3, Goes, Order, Lists DEF SetsInv, Calls, UpInv, LoggerInit
<1>4. CASE HsetInit
  BY <1>4, Goes, Order, Lists DEF SetsInv, Calls, UpInv, HsetInit
<1>5. CASE WorkerInit
  BY <1>5, Goes, Order, Lists DEF SetsInv, Calls, UpInv, WorkerInit
<1>6. CASE EmitInit
  BY <1>6, Goes, Order, Lists DEF SetsInv, Calls, UpInv, EmitInit
<1>7. CASE EioInit
  BY <1>7, Goes, Order, Lists DEF SetsInv, Calls, UpInv, EioInit
<1>8. CASE NetInit
  BY <1>8, Goes, Order, Lists DEF SetsInv, Calls, UpInv, NetInit
<1>9. CASE LoggerInitFails
  BY <1>9, Stops, Lists DEF SetsInv, LoggerInitFails
<1>10. CASE WorkerInitFails
  BY <1>10, Stops, Lists DEF SetsInv, WorkerInitFails
<1>11. CASE EioInitFails
  BY <1>11, Stops, Lists DEF SetsInv, EioInitFails
<1>12. CASE NetInitFails
  BY <1>12, Stops, Lists DEF SetsInv, NetInitFails
<1>13. CASE EioFini
  BY <1>13, Takes, Lists DEF SetsInv, Done, EioFini
<1>14. CASE NetFini
  BY <1>14, Takes, Lists DEF SetsInv, Done, NetFini
<1>15. CASE EmitFini
  BY <1>15, Takes, Lists DEF SetsInv, Done, EmitFini
<1>16. CASE WorkerFini
  BY <1>16, Takes, Lists DEF SetsInv, Done, WorkerFini
<1>17. CASE HsetFini
  BY <1>17, Takes, Lists DEF SetsInv, Done, HsetFini
<1>18. CASE LoggerFini
  BY <1>18, Takes, Lists DEF SetsInv, Done, LoggerFini
<1>19. CASE Others
  BY <1>19, Framed DEF SetsInv, Frame
<1>. QED
  BY Kinds, <1>1, <1>2, <1>3, <1>4, <1>5, <1>6, <1>7, <1>8, <1>9, <1>10, <1>11, <1>12, <1>13, <1>14, <1>15, <1>16, <1>17, <1>18, <1>19 DEF Inits, Finis

\* Which steps change the network events that are under way or counted out.
OutFrame == /\ UNCHANGED <<inflight, out, late>>
            /\ breach \subseteq breach'
            /\ raced => raced'

\* What is counted out stays balanced when nothing changes.
LEMMA OutKept ==
    ASSUME OutInv, OutFrame
    PROVE  OutInv'
<1>1. Netted' = Netted
  BY DEF OutFrame, Netted
<1>. QED
  BY <1>1 DEF OutInv, OutFrame, CacheBalanced, Netted

\* An event goes out for a sock (edpnet.c:49).
LEMMA OutReport ==
    ASSUME TypeOK, OutInv, NEW e \in Emits, Report(e)
    PROVE  OutInv'
<1>. USE DEF avars
<1>1. Netted' = Netted \cup {e} /\ e \notin Netted
  BY DEF Report, Route, Netted, TypeOK
<1>2. /\ IsFiniteSet(Netted')
      /\ Cardinality(Netted') = Cardinality(Netted) + 1
  BY <1>1, FS_AddElement DEF OutInv
<1>3. out' = out + 1 /\ late' = late /\ breach' = breach /\ raced' = raced
  BY DEF Report
<1>4. Cardinality(Netted) \in Nat /\ out \in Int /\ late \in Int
  BY FS_CardinalityType DEF OutInv, TypeOK
<1>. QED
  BY <1>2, <1>3, <1>4 DEF OutInv, CacheBalanced, Netted

\* A network event that was handled is still to be given back (emitter.c:82).
LEMMA OutHandle ==
    ASSUME TypeOK, OutInv, NEW e \in Emits, Handle(e)
    PROVE  OutInv'
<1>. USE DEF avars
<1>0. out' = out /\ breach' = breach /\ raced' = raced
  BY DEF Handle
<1>1. CASE inflight[e] = "net"
  <2>1. Netted' = Netted \ {e} /\ e \in Netted
    BY <1>1 DEF Handle, Netted, TypeOK
  <2>2. /\ IsFiniteSet(Netted')
        /\ Cardinality(Netted') = Cardinality(Netted) - 1
    BY <2>1, FS_RemoveElement DEF OutInv
  <2>3. late' = late + 1
    BY <1>1 DEF Handle
  <2>4. Cardinality(Netted) \in Nat /\ out \in Int /\ late \in Int
    BY FS_CardinalityType DEF OutInv, TypeOK
  <2>. QED
    BY <1>0, <2>2, <2>3, <2>4 DEF OutInv, CacheBalanced, Netted
<1>2. CASE inflight[e] # "net"
  <2>1. Netted' = Netted
    BY <1>2 DEF Handle, Netted, TypeOK
  <2>2. late' = late
    BY <1>2 DEF Handle
  <2>. QED
    BY <1>0, <2>1, <2>2 DEF OutInv, CacheBalanced, Netted
<1>. QED
  BY <1>1, <1>2

\* It is given back (edpnet.c:57).
LEMMA OutDone ==
    ASSUME TypeOK, OutInv, EventDone
    PROVE  OutInv'
<1>. USE DEF evars, nvars
<1>1. CASE net_init
  <2>1. /\ out' = out - 1 /\ late' = late - 1 /\ breach' = breach /\ raced' = raced
        /\ inflight' = inflight
    BY <1>1 DEF EventDone
  <2>2. Netted' = Netted
    BY <2>1 DEF Netted
  <2>3. Cardinality(Netted) \in Nat /\ out \in Int /\ late \in Int
    BY FS_CardinalityType DEF OutInv, TypeOK
  <2>. QED
    BY <2>1, <2>2, <2>3 DEF OutInv, CacheBalanced, Netted
<1>2. CASE ~net_init
  BY <1>2, OutKept DEF OutFrame, EventDone, Fails
<1>. QED
  BY <1>1, <1>2

\* An event of the application is not from the cache.
LEMMA OutDispatch ==
    ASSUME TypeOK, OutInv, NEW e \in Emits,
           Dispatch(e) \/ \E c \in 0 .. most - 1 : DispatchKept(e, c)
    PROVE  OutInv'
<1>. USE DEF evars, nvars
<1>1. CASE Dispatch(e)
  <2>1. Netted' = Netted
    BY <1>1 DEF Dispatch, Route, Netted, TypeOK
  <2>2. out' = out /\ late' = late /\ raced' = raced /\ breach \subseteq breach'
    BY <1>1, Early DEF Dispatch
  <2>. QED
    BY <2>1, <2>2 DEF OutInv, CacheBalanced, Netted
<1>2. ASSUME NEW c \in 0 .. most - 1, DispatchKept(e, c) PROVE OutInv'
  <2>0. breach \subseteq breach'
    BY <1>2, Early DEF DispatchKept
  <2>1. CASE IndexFault(c) = "none"
    <3>1. Netted' = Netted
      BY <1>2, <2>1 DEF DispatchKept, Netted, TypeOK
    <3>2. out' = out /\ late' = late /\ raced' = raced
      BY <1>2, <2>1 DEF DispatchKept
    <3>. QED
      BY <2>0, <3>1, <3>2 DEF OutInv, CacheBalanced, Netted
  <2>2. CASE IndexFault(c) # "none"
    BY <1>2, <2>0, <2>2, OutKept DEF OutFrame, DispatchKept, Fails
  <2>. QED
    BY <2>1, <2>2
<1>. QED
  BY <1>1, <1>2

\* A cache that edpnet_init makes has nothing out, and nothing is under way.
LEMMA OutNetInit ==
    ASSUME TypeOK, UpInv, LiveInv, OutInv, LateInv, NetInit
    PROVE  OutInv'
<1>1. ~up /\ ~net_init
  BY DEF UpInv, NetInit, At
<1>2. inflight' = inflight /\ out' = 0 /\ late' = late /\ breach' = breach /\ raced' = raced
  BY Goes DEF NetInit, evars, Calls
<1>3. Netted' = Netted
  BY <1>2 DEF Netted
<1>4. breach \cap {"early", "alive"} = {} => Netted = {}
  BY <1>1 DEF LiveInv, Netted
<1>5. breach \cap {"early", "alive"} = {} => Cardinality(Netted) = 0
  BY <1>4, FS_EmptySet
<1>6. ~raced /\ breach \cap {"early", "alive"} = {} => late = 0
  BY <1>1 DEF LateInv, TypeOK
<1>. QED
  BY <1>2, <1>3, <1>5, <1>6 DEF OutInv, CacheBalanced, Netted

\* Every step keeps OutInv.
LEMMA OutStep ==
    ASSUME TypeOK, UpInv, LiveInv, OutInv, LateInv, [Next]_vars
    PROVE  OutInv'
<1>. USE DEF mvars, lvars, hvars, wvars, evars, ivars, nvars, avars
<1>1. ASSUME NEW f, Fails(f), breach \subseteq breach' PROVE OutInv'
  BY <1>1, OutKept DEF Fails, OutFrame
<1>2. ASSUME NEW n \in ThreadNums, CallInit(n) PROVE OutInv'
  BY <1>2, OutKept DEF CallInit, OutFrame
<1>3. CASE CallFini
  BY <1>3, OutKept DEF CallFini, OutFrame
<1>4. CASE LoggerInit \/ HsetInit
  BY <1>4, OutKept DEF OutFrame, Go, LoggerInit, HsetInit
<1>5. CASE WorkerInit
  BY <1>5, OutKept DEF OutFrame, Go, WorkerInit
<1>6. CASE EmitInit
  BY <1>6, OutKept DEF OutFrame, Go, EmitInit
<1>7. CASE EioInit
  BY <1>7, OutKept DEF OutFrame, Go, EioInit
<1>8. CASE NetInit
  BY <1>8, OutNetInit
<1>9. CASE LoggerInitFails \/ WorkerInitFails
  BY <1>9, OutKept DEF OutFrame, Stop, LoggerInitFails, WorkerInitFails
<1>10. CASE EioInitFails \/ NetInitFails
  BY <1>10, OutKept DEF OutFrame, Stop, EioInitFails, NetInitFails
<1>11. CASE EioFini
  BY <1>11, OutKept DEF OutFrame, Done, EioFini
<1>12. CASE NetFini
  <2>1. /\ UNCHANGED <<inflight, out, late>> /\ breach \subseteq breach'
        /\ ~raced' => ~raced
    BY <1>12 DEF Done, NetFini
  <2>. QED
    BY <2>1, OutKept DEF OutFrame
<1>13. CASE EmitFini \/ WorkerFini
  BY <1>13, OutKept DEF OutFrame, Done, EmitFini, WorkerFini
<1>14. CASE HsetFini \/ LoggerFini
  BY <1>14, OutKept DEF OutFrame, Done, HsetFini, LoggerFini
<1>15. ASSUME NEW e \in Emits, EmitDestroy(e) \/ ReportNoEvent(e) PROVE OutInv'
  BY <1>15, OutKept DEF OutFrame, EmitDestroy, ReportNoEvent
<1>16. ASSUME NEW e \in Emits, AddFd(e) PROVE OutInv'
  BY <1>1, <1>16, OutKept, Early DEF OutFrame, AddFd
<1>17. ASSUME NEW e \in Emits, SockDestroy(e) PROVE OutInv'
  BY <1>17, OutKept, Early DEF OutFrame, SockDestroy
<1>18. ASSUME NEW e \in Emits, NEW own \in BOOLEAN, EmitCreate(e, own) PROVE OutInv'
  BY <1>1, <1>18, OutKept, Early DEF OutFrame, EmitCreate
<1>19. ASSUME NEW e \in Emits, Queue(e) PROVE OutInv'
  BY <1>1, <1>19, OutKept DEF OutFrame, Queue
<1>20. CASE Reported
  BY <1>1, <1>20, OutKept DEF OutFrame, Reported
<1>21. CASE EpollBreaks
  BY <1>21, OutKept DEF OutFrame, EpollBreaks
<1>22. CASE Trouble
  BY <1>1, <1>22, Troubles
<1>23. CASE UNCHANGED vars
  BY <1>23, OutKept DEF OutFrame, vars
<1>. QED
  BY Kinds, OutReport, OutHandle, OutDone, OutDispatch, <1>2, <1>3, <1>4, <1>5, <1>6, <1>7,
     <1>8, <1>9, <1>10, <1>11, <1>12, <1>13, <1>14, <1>15, <1>16, <1>17, <1>18, <1>19, <1>20,
     <1>21, <1>22, <1>23 DEF Inits, Finis, Others, Meanwhile

\* What keeps LateInv: no event more is late, and the network is not stopped.
LateFrame == /\ late' = late \/ late' = late - 1
             /\ net_init => net_init'
             /\ raced => raced'
             /\ breach \subseteq breach'

LEMMA LateKept ==
    ASSUME TypeOK, LateInv, LateFrame
    PROVE  LateInv'
<1>1. late \in Int
  BY DEF TypeOK
<1>. QED
  BY <1>1 DEF LateInv, LateFrame

\* Every step keeps LateInv.
LEMMA LateStep ==
    ASSUME TypeOK, UpInv, LiveInv, LateInv, [Next]_vars
    PROVE  LateInv'
<1>. USE DEF nvars, avars
<1>1. ASSUME NEW f, Fails(f), breach \subseteq breach' PROVE LateInv'
  BY <1>1, LateKept DEF Fails, LateFrame
<1>2. ASSUME NEW n \in ThreadNums, CallInit(n) PROVE LateInv'
  BY <1>2, LateKept DEF CallInit, LateFrame
<1>3. CASE CallFini
  BY <1>3, LateKept DEF CallFini, LateFrame
<1>4. CASE NetInit
  BY <1>4 DEF LateInv, NetInit
<1>5. CASE Inits /\ ~NetInit
  BY <1>5, LateKept DEF LateFrame, Go, Stop, Inits, LoggerInit, LoggerInitFails, HsetInit,
     WorkerInit, WorkerInitFails, EmitInit, EioInit, EioInitFails, NetInitFails
<1>6. CASE NetFini
  BY <1>6 DEF LateInv, NetFini
<1>7. CASE Finis /\ ~NetFini
  <2>1. UNCHANGED <<late, net_init, raced, breach>>
    BY <1>7 DEF Done, Finis, EioFini, EmitFini, WorkerFini, HsetFini, LoggerFini
  <2>. QED
    BY <2>1, LateKept DEF LateFrame
<1>8. ASSUME NEW e \in Emits, Handle(e) PROVE LateInv'
  <2>1. UNCHANGED <<net_init, raced, breach>>
    BY <1>8 DEF Handle
  <2>2. CASE inflight[e] = "net" /\ ~net_init
    <3>1. e \in ed_emits /\ ~up
      BY <2>2 DEF LiveInv, UpInv
    <3>2. breach \cap {"early", "alive"} # {}
      BY <3>1 DEF LiveInv
    <3>. QED
      BY <2>1, <3>2 DEF LateInv
  <2>3. CASE net_init
    BY <2>1, <2>3 DEF LateInv
  <2>4. CASE inflight[e] # "net"
    BY <1>8, <2>1, <2>4, LateKept DEF Handle, LateFrame
  <2>. QED
    BY <2>2, <2>3, <2>4
<1>9. CASE EventDone
  <2>1. CASE net_init
    <3>1. late' = late - 1 /\ UNCHANGED <<net_init, raced, breach>>
      BY <1>9, <2>1 DEF EventDone
    <3>. QED
      BY <3>1, LateKept DEF LateFrame
  <2>2. CASE ~net_init
    BY <1>1, <1>9, <2>2 DEF EventDone
  <2>. QED
    BY <2>1, <2>2
<1>10. ASSUME Others, late' = late PROVE LateInv'
  BY <1>10, Framed, LateKept DEF LateFrame, Frame
<1>11. ASSUME NEW e \in Emits, Meanwhile(e), ~Handle(e) PROVE late' = late
  BY <1>11 DEF Meanwhile, EmitDestroy, AddFd, SockDestroy, EmitCreate, Dispatch, Queue, Report,
     ReportNoEvent, DispatchKept, Fails
<1>12. CASE Reported \/ EpollBreaks \/ Trouble \/ UNCHANGED vars
  <2>1. late' = late
    BY <1>12, Troubles DEF Reported, EpollBreaks, Fails, vars
  <2>. QED
    BY <1>10, <1>12, <2>1 DEF Others
<1>. QED
  BY Kinds, <1>2, <1>3, <1>4, <1>5, <1>6, <1>7, <1>8, <1>9, <1>10, <1>11, <1>12
     DEF Others

-----------------------------------------------------------------------------
(* What ought to be initialised.                                            *)

\* A step that breaks nothing starts in such a state.
LEMMA OnStart ==
    ASSUME OnInv, breach \subseteq breach', (breach' = {} => (OnNow => OnNow'))
    PROVE  OnInv'
  BY DEF OnInv

\* The application that keeps its promises has no event under way when the
\* system is down.
LEMMA Quietly ==
    ASSUME TypeOK, LiveInv, OutInv, breach = {}, ~up
    PROVE  ed_emits = {} /\ (~raced => out = late)
<1>1. ed_emits = {}
  BY DEF LiveInv
<1>2. Netted = {}
  BY <1>1 DEF LiveInv, Netted
<1>3. Cardinality(Netted) = 0 /\ late \in Int
  BY <1>2, FS_EmptySet DEF TypeOK
<1>. QED
  BY <1>1, <1>3 DEF OutInv, CacheBalanced, Netted

\* edp_init and edp_fini make their calls in the order in which parts depend on
\* each other.
LEMMA OnCalls ==
    ASSUME TypeOK, UpInv, LiveInv, OutInv, OnInv,
           (\E n \in ThreadNums : CallInit(n)) \/ Inits \/ CallFini \/ Finis
    PROVE  OnInv'
<1>. USE DEF mvars, lvars, hvars, wvars, evars, ivars, nvars
<1>1. ASSUME NEW n \in ThreadNums, CallInit(n) PROVE OnInv'
  <2>1. todo = T0 /\ todo' = T0 /\ init = "none" /\ init' = "logger"
    BY <1>1, Asks DEF CallInit
  <2>2. breach \subseteq breach' /\ (breach' = {} => ~up)
    BY <1>1 DEF CallInit
  <2>3. ASSUME OnNow, ~up PROVE OnNow'
    BY <1>1, <2>1, <2>3, Lists, Befores DEF OnNow, On, Left, CallInit
  <2>. QED
    BY <2>2, <2>3, OnStart
<1>2. CASE CallFini
  <2>1. todo = T0 /\ todo' = T6 /\ init = "none" /\ init' = "none"
    BY <1>2, Asks DEF CallFini, T6
  <2>2. breach \subseteq breach' /\ (breach' = {} => up) /\ up' = FALSE
    BY <1>2 DEF CallFini
  <2>3. ASSUME OnNow, up PROVE OnNow'
    BY <1>2, <2>1, <2>2, <2>3, Lists DEF OnNow, On, Left, CallFini
  <2>. QED
    BY <2>2, <2>3, OnStart
<1>3. CASE LoggerInit
  <2>1. ASSUME OnNow PROVE OnNow'
    BY <1>3, <2>1, Goes, Order, Lists, Befores DEF OnNow, On, Left, Calls, LoggerInit
  <2>. QED
    BY <1>3, <2>1, OnStart DEF LoggerInit, Go
<1>4. CASE HsetInit
  <2>1. ASSUME OnNow PROVE OnNow'
    BY <1>4, <2>1, Goes, Order, Lists, Befores DEF OnNow, On, Left, Calls, HsetInit
  <2>. QED
    BY <1>4, <2>1, OnStart DEF HsetInit, Go
<1>5. CASE WorkerInit
  <2>1. ASSUME OnNow PROVE OnNow'
    BY <1>5, <2>1, Goes, Order, Lists, Befores DEF OnNow, On, Left, Calls, WorkerInit
  <2>. QED
    BY <1>5, <2>1, OnStart DEF WorkerInit, Go
<1>6. CASE EmitInit
  <2>1. ASSUME OnNow PROVE OnNow'
    BY <1>6, <2>1, Goes, Order, Lists, Befores DEF OnNow, On, Left, Calls, EmitInit
  <2>. QED
    BY <1>6, <2>1, OnStart DEF EmitInit, Go
<1>7. CASE EioInit
  <2>1. ASSUME OnNow PROVE OnNow'
    BY <1>7, <2>1, Goes, Order, Lists, Befores DEF OnNow, On, Left, Calls, EioInit
  <2>. QED
    BY <1>7, <2>1, OnStart DEF EioInit, Go
<1>8. CASE NetInit
  <2>1. ASSUME OnNow PROVE OnNow'
    BY <1>8, <2>1, Goes, Order, Lists, Befores DEF OnNow, On, Left, Calls, NetInit
  <2>. QED
    BY <1>8, <2>1, OnStart DEF NetInit, Go
<1>9. CASE LoggerInitFails
  <2>1. ASSUME OnNow PROVE OnNow'
    BY <1>9, <2>1, Stops, Lists, Befores DEF OnNow, On, Left, LoggerInitFails
  <2>. QED
    BY <1>9, <2>1, OnStart DEF LoggerInitFails, Stop
<1>10. CASE WorkerInitFails
  <2>1. ASSUME OnNow PROVE OnNow'
    BY <1>10, <2>1, Stops, Lists, Befores DEF OnNow, On, Left, WorkerInitFails
  <2>. QED
    BY <1>10, <2>1, OnStart DEF WorkerInitFails, Stop
<1>11. CASE EioInitFails
  <2>1. ASSUME OnNow PROVE OnNow'
    <3>1. init = "eio" /\ ~hsd_sets
      BY <1>11, <2>1, Befores DEF OnNow, On, EioInitFails, At
    <3>2. hsd_sets' = FALSE
      BY <1>11, <3>1, TypeParts DEF EioInitFails, FlagTypes
    <3>3. UNCHANGED <<lvars, hsd_init, wvars, evars, ivars, nvars>>
      BY <1>11 DEF EioInitFails
    <3>. QED
      BY <1>11, <2>1, <3>2, <3>3, Stops, Lists, Befores DEF OnNow, On, Left, EioInitFails
  <2>. QED
    BY <1>11, <2>1, OnStart DEF EioInitFails, Stop
<1>12. CASE NetInitFails
  <2>1. ASSUME OnNow PROVE OnNow'
    BY <1>12, <2>1, Stops, Lists, Befores DEF OnNow, On, Left, NetInitFails
  <2>. QED
    BY <1>12, <2>1, OnStart DEF NetInitFails, Stop
<1>13. CASE EioFini
  <2>1. ASSUME OnNow, breach = {} PROVE OnNow'
    BY <1>13, <2>1, Takes, Quietly, Lists DEF OnNow, On, Left, Done, EioFini
  <2>. QED
    BY <1>13, <2>1, OnStart DEF EioFini, Done
<1>14. CASE NetFini
  <2>1. ASSUME OnNow, breach = {} PROVE OnNow'
    <3>1. ~up /\ todo = TN /\ todo' = T4 /\ init = "none" /\ init' = "none" /\ up' = up
      BY <1>14, <2>1, Takes, Lists DEF OnNow, Done, NetFini
    <3>2. ~raced' => out = 0 /\ ~raced
      <4>1. ~raced' => ~raced /\ ~(late > 0)
        BY <1>14 DEF NetFini
      <4>2. late \in Nat /\ (~raced => out = late)
        BY <2>1, <3>1, Quietly DEF TypeOK
      <4>. QED
        BY <4>1, <4>2
    <3>3. evcache' = "live" => out # 0
      BY <1>14 DEF NetFini
    <3>. QED
      BY <1>14, <2>1, <3>1, <3>2, <3>3, Lists DEF OnNow, On, Left, NetFini
  <2>. QED
    BY <1>14, <2>1, OnStart DEF NetFini, Done
<1>15. CASE EmitFini
  <2>1. ASSUME OnNow, breach = {} PROVE OnNow'
    BY <1>15, <2>1, Takes, Quietly, Lists DEF OnNow, On, Left, Done, EmitFini
  <2>. QED
    BY <1>15, <2>1, OnStart DEF EmitFini, Done
<1>16. CASE WorkerFini
  <2>1. ASSUME OnNow, breach = {} PROVE OnNow'
    BY <1>16, <2>1, Takes, Quietly, Lists DEF OnNow, On, Left, Done, WorkerFini
  <2>. QED
    BY <1>16, <2>1, OnStart DEF WorkerFini, Done
<1>17. CASE HsetFini
  <2>1. ASSUME OnNow, breach = {} PROVE OnNow'
    BY <1>17, <2>1, Takes, Quietly, Lists DEF OnNow, On, Left, Done, HsetFini
  <2>. QED
    BY <1>17, <2>1, OnStart DEF HsetFini, Done
<1>18. CASE LoggerFini
  <2>1. ASSUME OnNow, breach = {} PROVE OnNow'
    BY <1>18, <2>1, Takes, Quietly, Lists DEF OnNow, On, Left, Done, LoggerFini
  <2>. QED
    BY <1>18, <2>1, OnStart DEF LoggerFini, Done
<1>. QED
  BY <1>1, <1>2, <1>3, <1>4, <1>5, <1>6, <1>7, <1>8, <1>9, <1>10, <1>11, <1>12, <1>13, <1>14, <1>15, <1>16, <1>17, <1>18 DEF Inits, Finis

\* An object of the monitor is out only while there is one.
LEMMA OnOutside ==
    ASSUME Others, ioes => iod
    PROVE  (ioes => iod)'
<1>. DEFINE P == (ioes => iod)'
<1>. USE DEF mvars, lvars, hvars, wvars, evars, ivars, nvars, avars
<1>1. ASSUME NEW f, Fails(f) PROVE P
  BY <1>1 DEF Fails
<1>2. ASSUME NEW e \in Emits, EmitDestroy(e) \/ SockDestroy(e) PROVE P
  BY <1>2 DEF EmitDestroy, SockDestroy
<1>3. ASSUME NEW e \in Emits, AddFd(e) PROVE P
  BY <1>1, <1>3 DEF AddFd
<1>4. ASSUME NEW e \in Emits, NEW own \in BOOLEAN, EmitCreate(e, own) PROVE P
  BY <1>1, <1>4 DEF EmitCreate
<1>5. ASSUME NEW e \in Emits, Dispatch(e) \/ Handle(e) PROVE P
  BY <1>5 DEF Dispatch, Handle
<1>6. ASSUME NEW e \in Emits, NEW c \in 0 .. most - 1, DispatchKept(e, c) PROVE P
  BY <1>1, <1>6 DEF DispatchKept
<1>7. ASSUME NEW e \in Emits, Report(e) \/ ReportNoEvent(e) PROVE P
  BY <1>7 DEF Report, ReportNoEvent
<1>8. ASSUME NEW e \in Emits, Queue(e) PROVE P
  BY <1>1, <1>8 DEF Queue
<1>9. CASE EventDone \/ Reported
  BY <1>1, <1>9 DEF EventDone, Reported
<1>10. CASE EpollBreaks \/ UNCHANGED vars
  BY <1>10 DEF EpollBreaks, vars
<1>11. CASE Trouble
  BY <1>1, <1>11, Troubles
<1>. QED
  BY <1>2, <1>3, <1>4, <1>5, <1>6, <1>7, <1>8, <1>9, <1>10, <1>11 DEF Others, Meanwhile

\* Every step keeps OnInv.
LEMMA OnStep ==
    ASSUME TypeOK, UpInv, LiveInv, OutInv, OnInv, [Next]_vars
    PROVE  OnInv'
<1>1. CASE Others
  <2>1. Frame
    BY <1>1, Framed
  <2>2. ASSUME OnNow PROVE OnNow'
    BY <1>1, <2>1, <2>2, OnOutside DEF OnNow, On, Left, Frame, mvars, lvars, hvars
  <2>. QED
    BY <2>1, <2>2, OnStart DEF Frame
<1>2. CASE ~Others
  BY <1>2, Kinds, OnCalls
<1>. QED
  BY <1>1, <1>2

-----------------------------------------------------------------------------
(* What is lost.                                                            *)

\* More is lost, but nothing that may not be.
LEMMA LeakMore ==
    ASSUME LeakInv, raced => raced', breach \subseteq breach',
           breach = {} => leaks' \subseteq leaks \cup Lost
    PROVE  LeakInv'
  BY DEF LeakInv, Lost

\* The calls of edp_init lose no socket of the logger and no cache (edp.c:21-46).
LEMMA LeakInits ==
    ASSUME TypeOK, UpInv, OnInv, LeakInv, Inits
    PROVE  LeakInv'
<1>. USE DEF Lost, Cancelled
<1>1. breach' = breach /\ raced' = raced
  BY DEF Inits, LoggerInit, LoggerInitFails, HsetInit, WorkerInit, WorkerInitFails, EmitInit,
         EioInit, EioInitFails, NetInit, NetInitFails, Go, Stop
<1>2. CASE LoggerInit \/ LoggerInitFails
  <2>1. init = "logger" /\ todo = T0
    BY <1>2, Goes, Stops DEF LoggerInit, LoggerInitFails, Calls
  <2>2. OnNow => log_sock # "open"
    BY <2>1, Befores DEF OnNow, On
  <2>3. breach = {} => leaks' = leaks
    BY <1>2, <2>2 DEF OnInv, LoggerInit, LoggerInitFails
  <2>. QED
    BY <1>1, <2>3, LeakMore
<1>3. CASE NetInit
  <2>1. init = "net"
    BY <1>3 DEF NetInit, At
  <2>2. OnNow /\ ~raced => evcache # "live"
    BY <2>1, Befores DEF OnNow, On
  <2>3. breach = {} => leaks' \subseteq leaks \cup Lost
    BY <1>3, <2>2 DEF OnInv, NetInit
  <2>. QED
    BY <1>1, <2>3, LeakMore
<1>4. CASE WorkerInitFails
  BY <1>1, <1>4, LeakMore DEF WorkerInitFails
<1>5. CASE EioInitFails
  BY <1>1, <1>5, LeakMore DEF EioInitFails
<1>6. CASE HsetInit \/ WorkerInit \/ EmitInit \/ EioInit \/ NetInitFails
  <2>1. leaks' = leaks
    BY <1>6 DEF HsetInit, WorkerInit, EmitInit, EioInit, NetInitFails
  <2>. QED
    BY <1>1, <2>1, LeakMore
<1>. QED
  BY <1>2, <1>3, <1>4, <1>5, <1>6 DEF Inits

\* Every step keeps LeakInv.
LEMMA LeakStep ==
    ASSUME TypeOK, UpInv, OnInv, LeakInv, [Next]_vars
    PROVE  LeakInv'
<1>1. ASSUME NEW n \in ThreadNums, CallInit(n) PROVE LeakInv'
  BY <1>1, LeakMore DEF CallInit
<1>2. CASE CallFini
  BY <1>2, LeakMore DEF CallFini
<1>3. CASE Finis
  <2>1. breach' = breach /\ (raced => raced')
    <3>1. CASE NetFini
      BY <3>1 DEF NetFini, Done
    <3>2. CASE Finis /\ ~NetFini
      <4>1. breach' = breach /\ raced' = raced
        BY <3>2 DEF Finis, EioFini, EmitFini, WorkerFini, HsetFini, LoggerFini, Done
      <4>. QED
        BY <4>1
    <3>. QED
      BY <1>3, <3>1, <3>2
  <2>2. leaks' \subseteq leaks \cup Lost
    <3>1. CASE EioFini
      <4>1. leaks' = leaks \cup {x \in {"iod_evcache"} : ioes} \cup {x \in {"iwk_epoll"} : polling}
                           \cup {x \in {"iwk_events", "threads"} : iod}
        BY <3>1 DEF EioFini
      <4>. QED
        BY <4>1 DEF Lost, Cancelled
    <3>2. CASE WorkerFini
      <4>1. leaks' \subseteq leaks \cup {"threads"}
        BY <3>2 DEF WorkerFini
      <4>. QED
        BY <4>1 DEF Lost, Cancelled
    <3>3. CASE NetFini \/ EmitFini \/ HsetFini \/ LoggerFini
      <4>1. leaks' = leaks
        BY <3>3 DEF NetFini, EmitFini, HsetFini, LoggerFini
      <4>. QED
        BY <4>1
    <3>. QED
      BY <1>3, <3>1, <3>2, <3>3 DEF Finis
  <2>. QED
    BY <2>1, <2>2, LeakMore
<1>4. CASE Others
  BY <1>4, Framed, LeakMore DEF Frame
<1>. QED
  BY Kinds, LeakInits, <1>1, <1>2, <1>3, <1>4

-----------------------------------------------------------------------------
(* What a fault traces back to.                                             *)

\* A dispatch trips only over a pool that is not there, or over an index of a larger
\* one, or of a wd_round that was not brought back (worker.c:294-300, 393-396).
LEMMA Trips ==
    ASSUME TypeOK, UpInv, LiveInv, RoundInv, NEW e \in Routing, RouteFault(e) # "none"
    PROVE  \/ RouteFault(e) = "divide" /\ "early" \in breach
           \/ RouteFault(e) = "wd_threads" /\ breach \cap {"early", "alive"} # {}
           \/ RouteFault(e) = "route" /\ (wd_thread_num < most \/ torn # {})
<1>1. wd_thread_num \in Nat /\ most \in Nat /\ e \in Emits /\ cpu[e] \in Nat
  BY EdpAssumption DEF TypeOK, Routing
<1>2. CASE wd_thread_num = 0
  BY <1>2 DEF RouteFault, RoundInv
<1>3. CASE wd_thread_num # 0 /\ wd_threads # "live"
  <2>1. RouteFault(e) = "wd_threads"
    BY <1>3 DEF RouteFault, IndexFault
  <2>2. ~up /\ ed_emits # {}
    BY <1>1, <1>3 DEF UpInv, LiveInv
  <2>. QED
    BY <2>1, <2>2 DEF LiveInv
<1>4. CASE wd_thread_num # 0 /\ wd_threads = "live"
  <2>1. RouteFault(e) = "route" /\ cpu[e] >= wd_thread_num
    BY <1>4 DEF RouteFault, IndexFault
  <2>2. e \in torn \/ cpu[e] < most \/ cpu[e] = 0
    BY DEF RoundInv
  <2>. QED
    BY <1>1, <1>4, <2>1, <2>2
<1>. QED
  BY <1>2, <1>3, <1>4

\* So does one that keeps its worker (worker.c:291-292, 300).
LEMMA TripsKept ==
    ASSUME TypeOK, UpInv, NEW c \in 0 .. most - 1, IndexFault(c) # "none"
    PROVE  \/ IndexFault(c) = "wd_threads" /\ ~up
           \/ IndexFault(c) = "route" /\ wd_thread_num < most
<1>1. wd_thread_num \in Nat /\ most \in Nat
  BY EdpAssumption DEF TypeOK
<1>. QED
  BY <1>1 DEF IndexFault, UpInv

\* Every step keeps Blamed.
LEMMA BlamedStep ==
    ASSUME TypeOK, UpInv, LiveInv, RoundInv, SetsInv, LateInv, Blamed, [Next]_vars
    PROVE  Blamed'
<1>0. ASSUME fault' = "none" PROVE Blamed'
  BY <1>0 DEF Blamed
<1>1. ASSUME NEW n \in ThreadNums, CallInit(n) PROVE Blamed'
  BY <1>0, <1>1 DEF CallInit
<1>2. CASE CallFini
  BY <1>0, <1>2 DEF CallFini
<1>3. CASE Inits
  <2>1. fault = "none" /\ fault' = fault
    BY <1>3 DEF Inits, LoggerInit, LoggerInitFails, HsetInit, WorkerInit, WorkerInitFails,
                EmitInit, EioInit, EioInitFails, NetInit, NetInitFails, At, Go, Stop
  <2>. QED
    BY <1>0, <2>1
<1>4. CASE Finis
  <2>1. fault = "none" /\ fault' = fault
    BY <1>4 DEF Finis, EioFini, NetFini, EmitFini, WorkerFini, HsetFini, LoggerFini, Due, Done
  <2>. QED
    BY <1>0, <2>1
<1>5. ASSUME NEW e \in Emits,
             \/ EmitDestroy(e) \/ SockDestroy(e) \/ Report(e) \/ ReportNoEvent(e)
             \/ Dispatch(e) \/ Handle(e)
      PROVE  Blamed'
  BY <1>0, <1>5 DEF EmitDestroy, SockDestroy, Report, ReportNoEvent, Dispatch, Handle, avars
<1>6. ASSUME NEW e \in Emits, AddFd(e) PROVE Blamed'
  <2>1. CASE iod
    BY <1>0, <1>6, <2>1 DEF AddFd
  <2>2. CASE ~iod
    <3>1. fault' = "iod" /\ ~up
      BY <1>6, <2>2 DEF AddFd, Fails, UpInv
    <3>2. "early" \in breach'
      BY <1>6, <3>1 DEF AddFd, Uses
    <3>. QED
      BY <3>1, <3>2 DEF Blamed
  <2>. QED
    BY <2>1, <2>2
<1>7. ASSUME NEW e \in Emits, NEW own \in BOOLEAN, EmitCreate(e, own) PROVE Blamed'
  <2>1. CASE emd_lock = "live"
    BY <1>0, <1>7, <2>1 DEF EmitCreate
  <2>2. CASE emd_lock # "live"
    <3>1. fault' \in {"emits_zero", "emd_lock"}
      BY <1>7, <2>2 DEF EmitCreate, Fails
    <3>2. ~up
      BY <2>2 DEF UpInv, LiveInv
    <3>3. "early" \in breach'
      BY <1>7, <3>2 DEF EmitCreate, Uses
    <3>. QED
      BY <3>1, <3>3 DEF Blamed
  <2>. QED
    BY <2>1, <2>2
<1>8. ASSUME NEW e \in Emits, Queue(e) PROVE Blamed'
  <2>1. CASE RouteFault(e) = "none"
    BY <1>0, <1>8, <2>1 DEF Queue
  <2>2. CASE RouteFault(e) # "none"
    <3>1. /\ fault' = RouteFault(e) /\ wd_thread_num' = wd_thread_num /\ most' = most
          /\ torn' = torn /\ breach' = breach /\ e \in Routing
      BY <1>8, <2>2 DEF Queue, Fails, wvars
    <3>. QED
      BY <2>2, <3>1, Trips DEF Blamed
  <2>. QED
    BY <2>1, <2>2
<1>9. ASSUME NEW e \in Emits, NEW c \in 0 .. most - 1, DispatchKept(e, c) PROVE Blamed'
  <2>1. CASE IndexFault(c) = "none"
    BY <1>0, <1>9, <2>1 DEF DispatchKept
  <2>2. CASE IndexFault(c) # "none"
    <3>1. fault' = IndexFault(c) /\ wd_thread_num' = wd_thread_num /\ most' = most
      BY <1>9, <2>2 DEF DispatchKept, Fails, wvars
    <3>2. ~up => "early" \in breach'
      BY <1>9 DEF DispatchKept, Uses
    <3>. QED
      BY <2>2, <3>1, <3>2, TripsKept DEF Blamed
  <2>. QED
    BY <2>1, <2>2
<1>10. CASE EventDone
  <2>1. CASE net_init
    BY <1>0, <1>10, <2>1 DEF EventDone
  <2>2. CASE ~net_init
    <3>1. fault' = "free_event" /\ breach' = breach /\ raced' = raced /\ late > 0
      BY <1>10, <2>2 DEF EventDone, Fails
    <3>. QED
      BY <2>2, <3>1 DEF LateInv, Blamed
  <2>. QED
    BY <2>1, <2>2
<1>11. CASE Reported
  <2>1. CASE stale
    <3>1. fault' = "iwk" /\ breach' = breach
      BY <1>11, <2>1 DEF Reported, Fails
    <3>2. breach \cap {"early", "alive"} # {}
      BY <2>1 DEF LiveInv
    <3>. QED
      BY <3>1, <3>2 DEF Blamed
  <2>2. CASE ~stale
    BY <1>0, <1>11, <2>2 DEF Reported
  <2>. QED
    BY <2>1, <2>2
<1>12. CASE EioFiniFails
  <2>1. fault' = "hsd_lock" /\ breach' = breach /\ iod /\ hsd_lock # "live"
    BY <1>12 DEF EioFiniFails, Fails
  <2>2. "again" \in breach
    BY <2>1 DEF SetsInv
  <2>. QED
    BY <2>1, <2>2 DEF Blamed
<1>13. CASE NetFiniFails
  <2>1. fault' \in {"cache_null", "cache_freed"} /\ breach' = breach /\ evcache # "live"
    BY <1>13 DEF NetFiniFails, Fails
  <2>2. todo = TN
    BY <1>13, Fini DEF NetFiniFails
  <2>3. "twice" \in breach
    BY <2>1, <2>2 DEF UpInv
  <2>. QED
    BY <2>1, <2>3 DEF Blamed
<1>14. CASE WorkerInitCancels \/ EioInitCancels \/ WorkerFiniPastEnd
  <2>1. fault' \in {"cancel", "past_end"}
    BY <1>14 DEF WorkerInitCancels, EioInitCancels, WorkerFiniPastEnd, Fails
  <2>. QED
    BY <2>1 DEF Blamed
<1>15. CASE EpollBreaks
  BY <1>0, <1>15 DEF EpollBreaks
<1>16. CASE UNCHANGED vars
  BY <1>16 DEF vars, avars, wvars, Blamed
<1>. QED
  BY Kinds, <1>1, <1>2, <1>3, <1>4, <1>5, <1>6, <1>7, <1>8, <1>9, <1>10, <1>11, <1>12,
     <1>13, <1>14, <1>15, <1>16 DEF Others, Meanwhile, Trouble

-----------------------------------------------------------------------------
(* The invariant.                                                           *)

\* It holds in the beginning.
LEMMA InitIInv == Init => IInv
<1>. SUFFICES ASSUME Init PROVE IInv
  OBVIOUS
<1>1. CallTypes /\ FlagTypes /\ DataTypes
  <2>1. CallTypes
    BY EdpAssumption DEF Init, CallTypes
  <2>2. FlagTypes
    BY DEF Init, FlagTypes
  <2>3. DataTypes
    BY EdpAssumption DEF Init, DataTypes
  <2>. QED
    BY <2>1, <2>2, <2>3
<1>2. Netted = {}
  BY DEF Init, Netted
<1>3. OutInv /\ LateInv /\ LeakInv
  BY <1>2, FS_EmptySet DEF Init, OutInv, CacheBalanced, Netted, LateInv, LeakInv
<1>4. todo = T0 /\ init = "none" /\ ~up /\ breach = {}
  BY DEF Init, T0
<1>5. UpInv
  BY <1>4, Lists DEF Init, UpInv, Todos
<1>6. OnInv
  BY <1>4, Lists DEF Init, OnInv, OnNow, On, Left
<1>. QED
  BY <1>1, <1>3, <1>5, <1>6, TypeParts
     DEF Init, IInv, LiveInv, RoundInv, SetsInv, Blamed, Routing

\* Every step keeps it.
LEMMA NextIInv == IInv /\ [Next]_vars => IInv'
  BY TypeStep, UpStep, LiveStep, RoundStep, SetsStep, OutStep, LateStep, OnStep, LeakStep,
     BlamedStep DEF IInv

\* It holds in every state edp.io gets to.
LEMMA IInvCorrect == Spec => []IInv
  BY InitIInv, NextIInv, PTL DEF Spec

\* The state of every part is what its code declares (src/edp.c, worker.c, emitter.c,
\* edpnet.c, eio-epoll.c).
THEOREM TypeCorrect == Spec => []TypeOK
<1>1. IInv => TypeOK
  BY DEF IInv
<1>. QED
  BY <1>1, IInvCorrect, PTL

\* Every call that would fail an assertion, or use memory or a lock that does not
\* exist, traces back to what the application did, but for those that Blamed names:
\* an event given back after edpnet_fini (emitter.c:82, 84), a worker taken from a
\* wd_round not brought back or of a larger pool (worker.c:294-297, 393-396), the
\* cancel of a thread that was not created, and the end of the array in worker_fini
\* (worker.c:389, 408-412, eio-epoll.c:302).
THEOREM BlamedCorrect == Spec => []Blamed
<1>1. IInv => Blamed
  BY DEF IInv
<1>. QED
  BY <1>1, IInvCorrect, PTL

\* What the cache of events counts out is what is under way or still to be given
\* back, until edpnet_fini comes before a done callback (edpnet.c:49, 57).
THEOREM CacheCorrect == Spec => []CacheBalanced
<1>1. IInv => CacheBalanced
  BY DEF IInv, OutInv
<1>. QED
  BY <1>1, IInvCorrect, PTL

\* An application that keeps the order of calls finds nothing initialised after
\* edp_fini, or after an edp_init that failed, so that it can start the system again,
\* and what is lost are the threads, the descriptor and buffer of the epoll thread
\* and the monitor's cache; the cache of events only when edpnet_fini came before a
\* done callback (edp.c:58-73, 85-99, eio-epoll.c:330-339).
THEOREM DownCorrect == Spec => []DownClean
<1>1. ASSUME IInv, Idle, ~up, breach = {} PROVE DownClean
  <2>1. init = "none" /\ todo = T0 /\ OnNow /\ leaks \subseteq Lost
    BY <1>1, Asks DEF IInv, OnInv, LeakInv
  <2>2. ~On("logger") /\ ~On("hset") /\ ~On("worker") /\ ~On("emit") /\ ~On("eio") /\ ~On("net")
    BY <1>1, <2>1, Lists DEF On, Left
  <2>3. ~net_init /\ ~iod /\ ~polling
    BY <1>1, <2>1, <2>2 DEF OnNow, IInv, UpInv
  <2>4. ~raced => late = 0 /\ out = 0
    <3>1. ~raced => late = 0
      BY <1>1, <2>3 DEF IInv, LateInv, TypeOK
    <3>2. ~raced => out = late
      BY <1>1, Quietly DEF IInv
    <3>. QED
      BY <3>1, <3>2
  <2>. QED
    BY <2>1, <2>2, <2>3, <2>4 DEF OnNow, DownClean, Lost
<1>2. IInv => DownClean
  BY <1>1 DEF DownClean
<1>. QED
  BY <1>2, IInvCorrect, PTL

\* A part is initialised only while the parts it uses are (edp.c:18-52, 87-97).
THEOREM LayeredCorrect == Spec => []Layered
<1>1. ASSUME IInv, breach = {} PROVE Layered
  <2>1. OnNow /\ todo \in Todos /\ (init # "none" => todo = T0) /\ init \in Calls \cup {"none"}
    BY <1>1 DEF IInv, OnInv, UpInv, TypeOK, T0
  <2>2. /\ On("net") => On("eio") \/ todo # T0
        /\ On("eio") => On("hset") /\ On("emit") /\ On("worker")
        /\ On("emit") => On("worker")
        /\ On("worker") => On("hset")
        /\ On("hset") => On("logger")
    BY <2>1, Lists, Befores DEF On, Left, Todos, Calls
  <2>. QED
    BY <2>1, <2>2 DEF OnNow, Layered, T0
<1>2. IInv => Layered
  BY <1>1 DEF Layered
<1>. QED
  BY <1>2, IInvCorrect, PTL
=============================================================================
