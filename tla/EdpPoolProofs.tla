---------------------------- MODULE EdpPoolProofs ----------------------------
(****************************************************************************)
(* Theorems about EdpWorker that rest on where the events are: an event is  *)
(* in one place, the local lists are in order, a worker ends drained, and   *)
(* the pool implements EventPool.                                           *)
(****************************************************************************)
EXTENDS EdpWorkerProofs

-----------------------------------------------------------------------------
(* Sequences as sets of entries.                                            *)

\* Appending an event adds it to the events of a list, and keeps it free of repetition
\* when it was not there (list_add_tail).
LEMMA RangeAppend ==
  ASSUME NEW S, NEW s \in Seq(S), NEW e \in S
  PROVE  /\ SeqRange(Append(s, e)) = SeqRange(s) \cup {e}
         /\ Once(s) /\ e \notin SeqRange(s) => Once(Append(s, e))
  BY DEF SeqRange, Once

\* The events of two lists spliced together are those of both.
LEMMA RangeConcat ==
  ASSUME NEW S, NEW s \in Seq(S), NEW t \in Seq(S)
  PROVE  SeqRange(s \o t) = SeqRange(s) \cup SeqRange(t)
<1>1. Len(s \o t) = Len(s) + Len(t) /\ Len(s) \in Nat /\ Len(t) \in Nat
  OBVIOUS
<1>2. \A i \in 1 .. Len(s) : (s \o t)[i] = s[i]
  OBVIOUS
<1>3. \A i \in 1 .. Len(t) : (s \o t)[Len(s) + i] = t[i]
  OBVIOUS
<1>4. SeqRange(s) \subseteq SeqRange(s \o t)
  BY <1>1, <1>2 DEF SeqRange
<1>4a. SeqRange(t) \subseteq SeqRange(s \o t)
  <2> SUFFICES ASSUME NEW i \in 1 .. Len(t) PROVE t[i] \in SeqRange(s \o t)
    BY DEF SeqRange
  <2>1. Len(s) + i \in DOMAIN (s \o t) /\ (s \o t)[Len(s) + i] = t[i]
    BY <1>1, <1>3
  <2>2. QED
    BY <2>1 DEF SeqRange
<1>5. SeqRange(s \o t) \subseteq SeqRange(s) \cup SeqRange(t)
  BY <1>1 DEF SeqRange
<1>6. QED
  BY <1>4, <1>4a, <1>5

\* Splicing two lists without a common event repeats none.
LEMMA OnceConcat ==
  ASSUME NEW S, NEW s \in Seq(S), NEW t \in Seq(S), Once(s), Once(t),
         SeqRange(s) \cap SeqRange(t) = {}
  PROVE  Once(s \o t)
<1>1. /\ Len(s) \in Nat /\ Len(t) \in Nat
      /\ DOMAIN (s \o t) = 1 .. (Len(s) + Len(t))
      /\ DOMAIN s = 1 .. Len(s) /\ DOMAIN t = 1 .. Len(t)
  OBVIOUS
<1>2. /\ \A i \in DOMAIN s : (s \o t)[i] = s[i] /\ s[i] \in SeqRange(s)
      /\ \A i \in DOMAIN (s \o t) : i \notin DOMAIN s =>
            i - Len(s) \in DOMAIN t /\ (s \o t)[i] = t[i - Len(s)] /\ t[i - Len(s)] \in SeqRange(t)
  BY <1>1 DEF SeqRange
<1>3. QED
  BY <1>1, <1>2 DEF Once

\* Removing the head of a list removes one event (list_del of the first entry).
LEMMA RangeTail ==
  ASSUME NEW S, NEW s \in Seq(S), s # <<>>
  PROVE  /\ Head(s) \in SeqRange(s)
         /\ SeqRange(s) = {Head(s)} \cup SeqRange(Tail(s))
         /\ Once(s) => Once(Tail(s)) /\ Head(s) \notin SeqRange(Tail(s))
<1>1. /\ Len(s) \in Nat /\ Len(s) > 0 /\ Len(Tail(s)) = Len(s) - 1
      /\ Head(s) = s[1]
      /\ \A i \in 1 .. Len(s) - 1 : Tail(s)[i] = s[i + 1]
  OBVIOUS
<1>2. SeqRange(s) \subseteq {Head(s)} \cup SeqRange(Tail(s))
  <2> SUFFICES ASSUME NEW i \in 1 .. Len(s), i # 1
               PROVE  s[i] \in SeqRange(Tail(s))
    BY <1>1 DEF SeqRange
  <2>1. i - 1 \in DOMAIN Tail(s) /\ Tail(s)[i - 1] = s[i]
    BY <1>1
  <2>2. QED
    BY <2>1 DEF SeqRange
<1>3. {Head(s)} \cup SeqRange(Tail(s)) \subseteq SeqRange(s)
  BY <1>1 DEF SeqRange
<1>4. Once(s) => Once(Tail(s)) /\ Head(s) \notin SeqRange(Tail(s))
  BY <1>1 DEF SeqRange, Once
<1>5. QED
  BY <1>1, <1>2, <1>3, <1>4 DEF SeqRange

\* An empty list has no events.
LEMMA RangeEmpty == SeqRange(<<>>) = {} /\ Once(<<>>)
  BY DEF SeqRange, Once
-----------------------------------------------------------------------------
(* An event is in one place. *)

\* What a place looks like, and what it contains.
LEMMA PlaceShape ==
  ASSUME NEW x \in Places
  PROVE  \/ x = <<"free", 0, 0>>
         \/ \E t \in Threads : x = <<"call", t, 0>>
         \/ \E w \in Workers : x = <<"run", w, 0>> \/ x = <<"local", w, 0>>
         \/ \E w \in Workers, p \in Priorities : x = <<"queue", w, p>>
  BY DEF Places

\* The content of each kind of place.
LEMMA ContentIs ==
  /\ Content(<<"free", 0, 0>>) = free
  /\ \A t \in Threads : Content(<<"call", t, 0>>) = {dev[t]} \ {NoEvent}
  /\ \A w \in Workers : /\ Content(<<"run", w, 0>>) = {running[w]} \ {NoEvent}
                        /\ Content(<<"local", w, 0>>) = SeqRange(local[w])
                        /\ \A p \in Priorities : Content(<<"queue", w, p>>) = SeqRange(queue[w][p])
  BY DEF Content

\* A place whose variable does not change keeps its events.
LEMMA SameContent ==
  ASSUME NEW x \in Places,
         x[1] = "free" => free' = free,
         x[1] = "call" => dev'[x[2]] = dev[x[2]],
         x[1] = "run" => running'[x[2]] = running[x[2]],
         x[1] = "local" => local'[x[2]] = local[x[2]],
         x[1] = "queue" => queue'[x[2]][x[3]] = queue[x[2]][x[3]]
  PROVE  Content(x)' = Content(x)
<1>1. x[1] \in {"free", "call", "run", "local", "queue"}
  BY PlaceShape
<1>2. QED
  BY <1>1 DEF Content

\* Moving events from one place to another leaves every event in one place.
LEMMA Moved ==
  ASSUME NEW P, NEW H, NEW G, NEW E, NEW a \in P, NEW b \in P, a # b,
         NEW S, S \subseteq H[a], G[a] = H[a] \ S, G[b] = H[b] \cup S,
         \A x \in P \ {a, b} : G[x] = H[x],
         \A e \in E : \E x \in P : \A y \in P : e \in H[y] <=> y = x
  PROVE  \A e \in E : \E x \in P : \A y \in P : e \in G[y] <=> y = x
<1> SUFFICES ASSUME NEW e \in E
             PROVE  \E x \in P : \A y \in P : e \in G[y] <=> y = x
  OBVIOUS
<1>1. PICK x \in P : \A y \in P : e \in H[y] <=> y = x
  OBVIOUS
<1>2. CASE e \in S
  <2>1. x = a
    BY <1>1, <1>2
  <2>2. \A y \in P : e \in G[y] <=> y = b
    BY <1>1, <1>2, <2>1
  <2>3. QED
    BY <2>2
<1>3. CASE e \notin S
  <2>1. \A y \in P : e \in G[y] <=> y = x
    BY <1>1, <1>3
  <2>2. QED
    BY <2>1
<1>4. QED
  BY <1>2, <1>3

\* The same for the places of the pool: a step that moves the events S from
\* place a to place b.
LEMMA MoveStep ==
  ASSUME OnePlace, NEW a \in Places, NEW b \in Places, a # b, NEW S,
         S \subseteq Content(a), Content(a)' = Content(a) \ S, Content(b)' = Content(b) \cup S,
         \A x \in Places \ {a, b} : Content(x)' = Content(x),
         (\A w \in Workers : Once(local[w]) /\ \A p \in Priorities : Once(queue[w][p]))'
  PROVE  OnePlace'
<1> DEFINE H == [x \in Places |-> Content(x)]
           G == [x \in Places |-> Content(x)']
<1>1. \A e \in Events : \E x \in Places : \A y \in Places : e \in H[y] <=> y = x
  BY DEF OnePlace
<1>2. /\ S \subseteq H[a] /\ G[a] = H[a] \ S /\ G[b] = H[b] \cup S
      /\ \A x \in Places \ {a, b} : G[x] = H[x]
  OBVIOUS
<1> HIDE DEF H, G
<1>3. \A e \in Events : \E x \in Places : \A y \in Places : e \in G[y] <=> y = x
  BY <1>1, <1>2, Moved
<1>4. \A y \in Places : G[y] = Content(y)'
  BY DEF G
<1>5. QED
  BY <1>3, <1>4 DEF OnePlace

\* A step that does not touch the places.
LEMMA StayStep ==
  ASSUME OnePlace, UNCHANGED <<free, dev, running, local, queue>>
  PROVE  OnePlace'
  BY DEF OnePlace, Content

\* The places of the steps below.
LEMMA PlaceIn ==
  /\ <<"free", 0, 0>> \in Places
  /\ \A t \in Threads : <<"call", t, 0>> \in Places
  /\ \A w \in Workers : /\ <<"run", w, 0>> \in Places
                        /\ <<"local", w, 0>> \in Places
                        /\ \A p \in Priorities : <<"queue", w, p>> \in Places
  BY DEF Places

\* An event in one place is not in another.
LEMMA Elsewhere ==
  ASSUME OnePlace, NEW e \in Events, NEW x \in Places, NEW y \in Places, e \in Content(x), x # y
  PROVE  e \notin Content(y)
  BY DEF OnePlace

\* A call takes an event of the application.
LEMMA PlaceCall ==
  ASSUME TypeOK, OnePlace, NEW t \in Threads, NEW e \in Events,
         e \in free, dpc[t] = "idle", free' = free \ {e}, dev' = [dev EXCEPT ![t] = e],
         UNCHANGED <<running, local, queue>>
  PROVE  OnePlace'
<1>1. PICK a \in Places, b \in Places : a = <<"free", 0, 0>> /\ b = <<"call", t, 0>> /\ a # b
  BY PlaceIn
<1>2. dev \in [Threads -> Events \cup {NoEvent}] /\ dev[t] = NoEvent /\ e # NoEvent
  BY WorkerAssumption DEF WorkerAssumption, TypeOK, CallTypes
<1>3. /\ {e} \subseteq Content(a) /\ Content(a)' = Content(a) \ {e}
      /\ Content(b)' = Content(b) \cup {e}
  BY <1>1, <1>2 DEF Content
<1>4. \A x \in Places \ {a, b} : Content(x)' = Content(x)
  <2> SUFFICES ASSUME NEW x \in Places, x # a, x # b PROVE Content(x)' = Content(x)
    OBVIOUS
  <2>1. x[1] # "free" /\ (x[1] = "call" => x[2] # t /\ x[2] \in Threads)
    BY <1>1, PlaceShape
  <2>2. QED
    BY <1>2, <2>1, SameContent
<1>5. (\A w \in Workers : Once(local[w]) /\ \A p \in Priorities : Once(queue[w][p]))'
  BY DEF OnePlace, Once
<1>6. QED
  BY <1>1, <1>3, <1>4, <1>5, MoveStep

\* __edp_dispatch gives a refused event back.
LEMMA PlaceReject ==
  ASSUME TypeOK, OnePlace, NEW t \in Threads, Reject(t)
  PROVE  OnePlace'
<1>0. PICK e \in Events : e = dev[t]
  BY CallHolds DEF TypeOK, Reject
<1>1. PICK a \in Places, b \in Places : a = <<"call", t, 0>> /\ b = <<"free", 0, 0>> /\ a # b
  BY PlaceIn
<1>2. /\ dev \in [Threads -> Events \cup {NoEvent}] /\ e # NoEvent
      /\ dev' = [dev EXCEPT ![t] = NoEvent] /\ free' = free \cup {e}
      /\ UNCHANGED <<running, local, queue>>
  BY <1>0, WorkerAssumption DEF WorkerAssumption, TypeOK, CallTypes, Reject, wvars, qvars
<1>3. /\ {e} \subseteq Content(a) /\ Content(a)' = Content(a) \ {e}
      /\ Content(b)' = Content(b) \cup {e}
  BY <1>0, <1>1, <1>2 DEF Content
<1>4. \A x \in Places \ {a, b} : Content(x)' = Content(x)
  <2> SUFFICES ASSUME NEW x \in Places, x # a, x # b PROVE Content(x)' = Content(x)
    OBVIOUS
  <2>1. x[1] # "free" /\ (x[1] = "call" => x[2] # t /\ x[2] \in Threads)
    BY <1>1, PlaceShape
  <2>2. QED
    BY <1>2, <2>1, SameContent
<1>5. (\A w \in Workers : Once(local[w]) /\ \A p \in Priorities : Once(queue[w][p]))'
  BY <1>2 DEF OnePlace, Once
<1>6. QED
  BY <1>1, <1>3, <1>4, <1>5, MoveStep

\* __edp_dispatch links the event into a queue.
LEMMA PlaceEnqueue ==
  ASSUME TypeOK, OnePlace, NEW t \in Threads, Enqueue(t)
  PROVE  OnePlace'
<1>0. PICK e \in Events, v \in Workers, q \in Priorities :
         e = dev[t] /\ v = dcpu[t] /\ q = priority[e]
  BY CallHolds DEF TypeOK, Enqueue
<1>1. /\ dev \in [Threads -> Events \cup {NoEvent}] /\ e # NoEvent
      /\ queue \in [Workers -> [Priorities -> Seq(Events)]]
  BY WorkerAssumption DEF WorkerAssumption, TypeOK, CallTypes, QueueTypes
<1>2. /\ dev' = [dev EXCEPT ![t] = NoEvent]
      /\ queue' = [queue EXCEPT ![v][q] = Append(queue[v][q], e)]
      /\ UNCHANGED <<free, running, local>>
  BY <1>0 DEF Enqueue, wvars
<1>3. PICK a \in Places, b \in Places : a = <<"call", t, 0>> /\ b = <<"queue", v, q>> /\ a # b
  BY <1>1, PlaceIn
<1>4. queue[v][q] \in Seq(Events) /\ queue'[v][q] = Append(queue[v][q], e)
  BY <1>1, <1>2
<1>5. SeqRange(queue'[v][q]) = SeqRange(queue[v][q]) \cup {e}
  BY <1>1, <1>4, RangeAppend
<1>6. {e} \subseteq Content(a) /\ Content(a)' = Content(a) \ {e}
  BY <1>0, <1>1, <1>2, <1>3 DEF Content
<1>7. Content(b)' = Content(b) \cup {e}
  BY <1>3, <1>5 DEF Content
<1>8. \A x \in Places \ {a, b} : Content(x)' = Content(x)
  <2> SUFFICES ASSUME NEW x \in Places, x # a, x # b PROVE Content(x)' = Content(x)
    OBVIOUS
  <2>1. /\ x[1] = "call" => x[2] # t /\ x[2] \in Threads
        /\ x[1] = "queue" => x[2] \in Workers /\ x[3] \in Priorities /\ (x[2] # v \/ x[3] # q)
    BY <1>3, PlaceShape
  <2>2. QED
    BY <1>1, <1>2, <2>1, SameContent
<1>9. (\A w \in Workers : Once(local[w]) /\ \A p \in Priorities : Once(queue[w][p]))'
  <2>1. e \notin SeqRange(queue[v][q])
    BY <1>1, <1>3, <1>6, Elsewhere DEF Content
  <2>2. Once(queue'[v][q])
    BY <1>1, <1>4, <2>1, RangeAppend DEF OnePlace
  <2>3. \A w \in Workers, p \in Priorities : w # v \/ p # q => queue'[w][p] = queue[w][p]
    BY <1>1, <1>2
  <2>4. \A w \in Workers, p \in Priorities : Once(queue'[w][p])
    BY <2>2, <2>3 DEF OnePlace
  <2>5. QED
    BY <1>2, <2>4 DEF OnePlace, Once
<1>10. QED
  BY <1>3, <1>6, <1>7, <1>8, <1>9, MoveStep

\* What Splice does to the two lists of worker w, in terms of its section.
LEMMA SpliceLists ==
  ASSUME TypeOK, NEW w \in Workers, Splice(w)
  PROVE  /\ sec[w] \in Priorities
         /\ local[w] \in Seq(Events) /\ queue[w][sec[w]] \in Seq(Events)
         /\ \A v \in Workers \ {w} : local'[v] = local[v] /\ queue'[v] = queue[v]
         /\ \A p \in Priorities \ {sec[w]} : queue'[w][p] = queue[w][p]
         /\ queue'[w][sec[w]] = <<>>
         /\ local'[w] = IF sec[w] >= HIGH THEN queue[w][sec[w]] \o local[w]
                                          ELSE local[w] \o queue[w][sec[w]]
         /\ UNCHANGED <<type, priority, cpuid, free, dev, running, sec, owed, status, fini, findex>>
<1>1. sec[w] \in Priorities
  BY DEF TypeOK, ControlTypes, Splice
<1>2. /\ queue \in [Workers -> [Priorities -> Seq(Events)]]
      /\ local \in [Workers -> Seq(Events)]
  BY DEF TypeOK, QueueTypes, ListTypes
<1>3. /\ local' = [local EXCEPT ![w] = IF sec[w] >= HIGH THEN queue[w][sec[w]] \o local[w]
                                                         ELSE local[w] \o queue[w][sec[w]]]
      /\ queue' = [queue EXCEPT ![w] = [queue[w] EXCEPT ![sec[w]] = <<>>]]
      /\ UNCHANGED <<type, priority, cpuid, free, dev, running, sec, owed, status, fini, findex>>
  BY DEF Splice, evars, dvars, fvars
<1>4. queue[w] \in [Priorities -> Seq(Events)] /\ local[w] \in Seq(Events)
  BY <1>2
<1>5. queue[w][sec[w]] \in Seq(Events)
  BY <1>1, <1>4
<1>6. /\ \A v \in Workers \ {w} : local'[v] = local[v] /\ queue'[v] = queue[v]
      /\ queue'[w] = [queue[w] EXCEPT ![sec[w]] = <<>>]
      /\ local'[w] = IF sec[w] >= HIGH THEN queue[w][sec[w]] \o local[w]
                                       ELSE local[w] \o queue[w][sec[w]]
  BY <1>2, <1>3
<1>7. /\ \A p \in Priorities \ {sec[w]} : queue'[w][p] = queue[w][p]
      /\ queue'[w][sec[w]] = <<>>
  BY <1>1, <1>4, <1>6
<1>8. QED
  BY <1>1, <1>3, <1>4, <1>5, <1>6, <1>7

\* A section moves a whole queue to the local list.
LEMMA PlaceSplice ==
  ASSUME TypeOK, OnePlace, NEW w \in Workers, Splice(w)
  PROVE  OnePlace'
<1>0. PICK s \in Priorities : s = sec[w]
  BY SpliceLists
<1>1. PICK a \in Places, b \in Places : a = <<"queue", w, s>> /\ b = <<"local", w, 0>> /\ a # b
  BY PlaceIn
<1>2. PICK S : S = SeqRange(queue[w][s])
  OBVIOUS
<1>3. SeqRange(local'[w]) = SeqRange(local[w]) \cup S
  BY <1>0, <1>2, SpliceLists, RangeConcat
<1>4. /\ S \subseteq Content(a) /\ Content(a)' = Content(a) \ S
      /\ Content(b)' = Content(b) \cup S
  <2>1. queue'[w][s] = <<>>
    BY <1>0, SpliceLists
  <2>2. QED
    BY <1>1, <1>2, <1>3, <2>1, RangeEmpty DEF Content
<1>5. \A x \in Places \ {a, b} : Content(x)' = Content(x)
  <2> SUFFICES ASSUME NEW x \in Places, x # a, x # b PROVE Content(x)' = Content(x)
    OBVIOUS
  <2>1. /\ x[1] = "local" => x[2] # w /\ x[2] \in Workers
        /\ x[1] = "queue" => x[2] \in Workers /\ x[3] \in Priorities /\ (x[2] # w \/ x[3] # s)
    BY <1>1, PlaceShape
  <2>2. /\ UNCHANGED <<free, dev, running>>
        /\ \A v \in Workers \ {w} : local'[v] = local[v] /\ queue'[v] = queue[v]
        /\ \A p \in Priorities \ {s} : queue'[w][p] = queue[w][p]
    BY <1>0, SpliceLists
  <2>3. QED
    BY <2>1, <2>2, SameContent
<1>6. (\A v \in Workers : Once(local[v]) /\ \A p \in Priorities : Once(queue[v][p]))'
  <2>1. S \cap SeqRange(local[w]) = {}
    <3>1. \A e \in S : e \in Events /\ e \in Content(a)
      BY <1>0, <1>1, <1>2, SpliceLists, SeqRangeType DEF Content
    <3>2. \A e \in S : e \notin Content(b)
      BY <1>1, <3>1, Elsewhere
    <3>3. QED
      BY <1>1, <3>2 DEF Content
  <2>2. Once(queue[w][s]) /\ Once(local[w])
    BY DEF OnePlace
  <2>3. Once(local'[w])
    BY <1>0, <1>2, <2>1, <2>2, SpliceLists, OnceConcat
  <2>4. Once(queue'[w][s])
    BY <1>0, SpliceLists, RangeEmpty
  <2>5. QED
    BY <1>0, <2>3, <2>4, SpliceLists DEF OnePlace, Once
<1>7. QED
  BY <1>1, <1>4, <1>5, <1>6, MoveStep

\* A section takes the first event of the local list.
LEMMA PlaceTake ==
  ASSUME TypeOK, OnePlace, NEW w \in Workers, Take(w)
  PROVE  OnePlace'
<1>1. /\ local[w] \in Seq(Events) /\ local[w] # <<>> /\ Head(local[w]) \in Events
      /\ running[w] = NoEvent
      /\ \A v \in Workers \ {w} : local'[v] = local[v] /\ running'[v] = running[v]
      /\ local'[w] = Tail(local[w]) /\ running'[w] = Head(local[w])
      /\ UNCHANGED <<free, dev, queue>>
  BY DEF TypeOK, ListTypes, Take, AtList, qvars, dvars
<1>2. PICK e \in Events : e = Head(local[w])
  BY <1>1
<1>3. PICK a \in Places, b \in Places : a = <<"local", w, 0>> /\ b = <<"run", w, 0>> /\ a # b
  BY PlaceIn
<1>4. Once(local[w])
  BY DEF OnePlace
<1>5. /\ Once(local'[w])
      /\ SeqRange(local'[w]) = SeqRange(local[w]) \ {e}
      /\ e \in SeqRange(local[w])
  BY <1>1, <1>2, <1>4, RangeTail
<1>6. /\ {e} \subseteq Content(a) /\ Content(a)' = Content(a) \ {e}
      /\ Content(b)' = Content(b) \cup {e}
  BY <1>1, <1>2, <1>3, <1>5, WorkerAssumption DEF WorkerAssumption, Content
<1>7. \A x \in Places \ {a, b} : Content(x)' = Content(x)
  <2> SUFFICES ASSUME NEW x \in Places, x # a, x # b PROVE Content(x)' = Content(x)
    OBVIOUS
  <2>1. x[1] \in {"local", "run"} => x[2] # w /\ x[2] \in Workers
    BY <1>3, PlaceShape
  <2>2. QED
    BY <1>1, <2>1, SameContent
<1>8. (\A v \in Workers : Once(local[v]) /\ \A p \in Priorities : Once(queue[v][p]))'
  BY <1>1, <1>5 DEF OnePlace, Once
<1>9. QED
  BY <1>3, <1>6, <1>7, <1>8, MoveStep

\* The handler gives its event back.
LEMMA PlaceRelease ==
  ASSUME TypeOK, OnePlace, NEW w \in Workers, Release(w)
  PROVE  OnePlace'
<1>1. /\ running[w] \in Events
      /\ \A v \in Workers \ {w} : running'[v] = running[v]
      /\ running'[w] = NoEvent /\ free' = free \cup {running[w]}
      /\ UNCHANGED <<dev, local, queue>>
  BY DEF TypeOK, ListTypes, Release, qvars, dvars
<1>2. PICK e \in Events : e = running[w]
  BY <1>1
<1>3. PICK a \in Places, b \in Places : a = <<"run", w, 0>> /\ b = <<"free", 0, 0>> /\ a # b
  BY PlaceIn
<1>4. /\ {e} \subseteq Content(a) /\ Content(a)' = Content(a) \ {e}
      /\ Content(b)' = Content(b) \cup {e}
  BY <1>1, <1>2, <1>3, WorkerAssumption DEF WorkerAssumption, Content
<1>5. \A x \in Places \ {a, b} : Content(x)' = Content(x)
  <2> SUFFICES ASSUME NEW x \in Places, x # a, x # b PROVE Content(x)' = Content(x)
    OBVIOUS
  <2>1. x[1] # "free" /\ (x[1] = "run" => x[2] # w /\ x[2] \in Workers)
    BY <1>3, PlaceShape
  <2>2. QED
    BY <1>1, <2>1, SameContent
<1>6. (\A v \in Workers : Once(local[v]) /\ \A p \in Priorities : Once(queue[v][p]))'
  BY <1>1 DEF OnePlace, Once
<1>7. QED
  BY <1>3, <1>4, <1>5, <1>6, MoveStep

\* The steps that move an event are a call, its refusal or its end, a splice, a
\* take and a release; all others leave the places and the priorities alone.
LEMMA Movers ==
  ASSUME [Next]_vars
  PROVE  \/ \E t \in Threads, e \in Events : Redispatch(t, e) \/ \E k \in Kinds : Dispatch(t, e, k)
         \/ \E t \in Threads : Reject(t) \/ Enqueue(t)
         \/ \E w \in Workers : Splice(w) \/ Take(w) \/ Release(w)
         \/ UNCHANGED <<free, dev, running, local, queue, priority>>
<1> DEFINE Same == UNCHANGED <<free, dev, running, local, queue, priority>>
<1>1. ASSUME NEW t \in Threads, DispatchStep(t) PROVE Reject(t) \/ Enqueue(t) \/ Same
  <2>1. CASE RouteKeep(t) \/ RouteRound(t) \/ Stray(t)
    BY ONLY <2>1 DEF RouteKeep, RouteRound, Stray, evars, dvars, wvars, qvars, fvars, svars
  <2>2. CASE NextRound(t) \/ IncRound(t) \/ LoadRound(t) \/ ModRound(t) \/ Signal(t)
    BY ONLY <2>2 DEF NextRound, IncRound, LoadRound, ModRound, Signal, evars, dvars, wvars, qvars, fvars, svars
  <2>3. QED
    BY <1>1, <2>1, <2>2 DEF DispatchStep
<1>2. ASSUME NEW w \in Workers, WorkerStep(w) \/ SpuriousWake(w)
      PROVE  Splice(w) \/ Take(w) \/ Release(w) \/ Same
  <2>1. CASE InitTls(w) \/ SignalStart(w) \/ Cancelled(w) \/ LoopTest(w) \/ Block(w)
    BY ONLY <2>1 DEF InitTls, SignalStart, Cancelled, LoopTest, Block, evars, dvars, wvars, qvars, fvars, svars
  <2>2. CASE NoWait(w) \/ Wake(w) \/ SpuriousWake(w)
    BY ONLY <2>2 DEF NoWait, Wake, SpuriousWake, Awaken, evars, dvars, wvars, qvars, fvars, svars
  <2>3. CASE LeaveSection(w) \/ Preempt(w)
    BY ONLY <2>3 DEF LeaveSection, Preempt, evars, dvars, wvars, qvars, fvars, svars
  <2>4. CASE Return(w) \/ CheckNext(w) \/ ThreadEnd(w)
    BY ONLY <2>4 DEF Return, CheckNext, ThreadEnd, evars, dvars, wvars, qvars, fvars, svars
  <2>5. QED
    BY <1>2, <2>1, <2>2, <2>3, <2>4 DEF WorkerStep
<1>3. StartStep => Same
  BY StartKeeps
<1>4. FiniCall \/ FiniStop \/ FiniFree => Same
  BY FiniKeeps
<1>5. UNCHANGED vars => Same
  BY DEF vars, evars, dvars, wvars, qvars
<1>6. QED
  BY <1>1, <1>2, <1>3, <1>4, <1>5 DEF Next

\* OnePlace is inductive.
LEMMA PlaceStep == TypeOK /\ OnePlace /\ [Next]_vars => OnePlace'
<1> SUFFICES ASSUME TypeOK, OnePlace, [Next]_vars PROVE OnePlace'
  OBVIOUS
<1>1. ASSUME NEW t \in Threads, NEW e \in Events, Redispatch(t, e) PROVE OnePlace'
  BY <1>1, PlaceCall, CallKeeps DEF Redispatch, AtCall
<1>2. ASSUME NEW t \in Threads, NEW e \in Events, NEW k \in Kinds, Dispatch(t, e, k) PROVE OnePlace'
  BY <1>2, PlaceCall, CallKeeps DEF Dispatch, AtCall
<1>3. ASSUME NEW t \in Threads, Reject(t) \/ Enqueue(t) PROVE OnePlace'
  BY <1>3, PlaceReject, PlaceEnqueue
<1>4. ASSUME NEW w \in Workers, Splice(w) \/ Take(w) \/ Release(w) PROVE OnePlace'
  BY <1>4, PlaceSplice, PlaceTake, PlaceRelease
<1>5. QED
  BY <1>1, <1>2, <1>3, <1>4, Movers, StayStep

\* Before the first dispatch the application owns every event.
LEMMA PlaceInit == Init => OnePlace
<1> SUFFICES ASSUME Init PROVE OnePlace
  OBVIOUS
<1>1. \A x \in Places : Content(x) = IF x = <<"free", 0, 0>> THEN Events ELSE {}
  <2> SUFFICES ASSUME NEW x \in Places PROVE Content(x) = IF x = <<"free", 0, 0>> THEN Events ELSE {}
    OBVIOUS
  <2>1. CASE x = <<"free", 0, 0>>
    BY <2>1, ContentIs DEF Init
  <2>2. CASE \E t \in Threads : x = <<"call", t, 0>>
    BY <2>2, ContentIs DEF Init
  <2>3. CASE \E w \in Workers : x = <<"run", w, 0>> \/ x = <<"local", w, 0>>
    BY <2>3, ContentIs, RangeEmpty DEF Init
  <2>4. CASE \E w \in Workers, p \in Priorities : x = <<"queue", w, p>>
    BY <2>4, ContentIs, RangeEmpty DEF Init
  <2>5. QED
    BY <2>1, <2>2, <2>3, <2>4, PlaceShape
<1>2. \A w \in Workers : Once(local[w]) /\ \A p \in Priorities : Once(queue[w][p])
  BY RangeEmpty DEF Init
<1>3. QED
  BY <1>1, <1>2, PlaceIn DEF OnePlace

\* An event is in one place: never lost, never in two lists or twice in one
\* (it has a single ev_node), never run by two workers.
THEOREM PlaceCorrect == Spec => []OnePlace
  BY TypeCorrect, PlaceInit, PlaceStep, PTL DEF Spec

-----------------------------------------------------------------------------
(* The local lists are in order of urgency. *)

\* The strengthening that makes UrgentFirst inductive: an event waits in the
\* queue of its own priority, which no one changes while it waits there.
QueuePrio ==
    \A w \in Workers, p \in Priorities : \A e \in SeqRange(queue[w][p]) : priority[e] = p

\* A call changes the priority of an event that is in no list.
LEMMA CallPrio ==
  ASSUME TypeOK, OnePlace, NEW t \in Threads, NEW e \in Events,
         Redispatch(t, e) \/ \E k \in Kinds : Dispatch(t, e, k)
  PROVE  /\ UNCHANGED <<queue, local, running>>
         /\ \A w \in Workers : \A f \in SeqRange(local[w]) : f \in Events \ {e} /\ priority'[f] = priority[f]
         /\ \A w \in Workers, p \in Priorities :
               \A f \in SeqRange(queue[w][p]) : f \in Events \ {e} /\ priority'[f] = priority[f]
<1>1. UNCHANGED <<queue, local, running>>
  BY CallKeeps
<1>2. e \in free
  BY DEF Redispatch, Dispatch
<1>3. \A f \in Events \ {e} : priority'[f] = priority[f]
  <2>1. CASE Redispatch(t, e)
    BY <2>1 DEF Redispatch, evars
  <2>2. CASE \E k \in Kinds : Dispatch(t, e, k)
    BY <2>2 DEF Dispatch, TypeOK, EventTypes
  <2>3. QED
    BY <2>1, <2>2
<1>4. PICK x \in Places : x = <<"free", 0, 0>> /\ e \in Content(x)
  BY <1>2, PlaceIn, ContentIs
<1>5. \A w \in Workers : SeqRange(local[w]) \subseteq Events /\ e \notin SeqRange(local[w])
  <2> TAKE w \in Workers
  <2>1. PICK y \in Places : y = <<"local", w, 0>>
    BY PlaceIn
  <2>2. e \notin Content(y)
    BY <1>4, <2>1, Elsewhere
  <2>3. QED
    BY <2>1, <2>2, ContentIs, SeqRangeType DEF TypeOK, ListTypes
<1>6. \A w \in Workers, p \in Priorities : SeqRange(queue[w][p]) \subseteq Events /\ e \notin SeqRange(queue[w][p])
  <2> TAKE w \in Workers, p \in Priorities
  <2>1. PICK y \in Places : y = <<"queue", w, p>>
    BY PlaceIn
  <2>2. e \notin Content(y)
    BY <1>4, <2>1, Elsewhere
  <2>3. queue[w][p] \in Seq(Events)
    BY DEF TypeOK, QueueTypes
  <2>4. QED
    BY <2>1, <2>2, <2>3, ContentIs, SeqRangeType
<1>7. QED
  BY <1>1, <1>3, <1>5, <1>6

\* What Enqueue does to the queues, with the event, the worker and the queue named.
LEMMA EnqueueArgs ==
  ASSUME TypeOK, NEW t \in Threads, Enqueue(t)
  PROVE  \E e \in Events, v \in Workers, q \in Priorities : e = dev[t] /\ v = dcpu[t] /\ q = priority[e]
  BY CallHolds DEF TypeOK, Enqueue

\* What Enqueue does to the queues.
LEMMA EnqueueLists ==
  ASSUME TypeOK, NEW t \in Threads, Enqueue(t),
         NEW e \in Events, NEW v \in Workers, NEW q \in Priorities,
         e = dev[t], v = dcpu[t], q = priority[e]
  PROVE  /\ queue[v][q] \in Seq(Events) /\ queue'[v][q] = Append(queue[v][q], e)
         /\ SeqRange(queue'[v][q]) = SeqRange(queue[v][q]) \cup {e}
         /\ \A w \in Workers, p \in Priorities : w # v \/ p # q => queue'[w][p] = queue[w][p]
         /\ UNCHANGED <<free, running, local, priority>>
<1>2. queue \in [Workers -> [Priorities -> Seq(Events)]]
  BY DEF TypeOK, QueueTypes
<1>3. /\ queue' = [queue EXCEPT ![v][q] = Append(queue[v][q], e)]
      /\ UNCHANGED <<free, running, local, priority>>
  BY DEF Enqueue, wvars, evars
<1>4. queue[v][q] \in Seq(Events) /\ queue'[v][q] = Append(queue[v][q], e)
  BY <1>2, <1>3
<1>5. \A w \in Workers, p \in Priorities : w # v \/ p # q => queue'[w][p] = queue[w][p]
  BY <1>2, <1>3
<1>6. \A s \in Seq(Events) : SeqRange(Append(s, e)) = SeqRange(s) \cup {e}
  BY RangeAppend
<1>7. QED
  BY <1>3, <1>4, <1>5, <1>6

\* QueuePrio is inductive.
LEMMA QueuePrioStep == TypeOK /\ OnePlace /\ QueuePrio /\ [Next]_vars => QueuePrio'
<1> SUFFICES ASSUME TypeOK, OnePlace, QueuePrio, [Next]_vars PROVE QueuePrio'
  OBVIOUS
<1>1. ASSUME NEW t \in Threads, NEW e \in Events, Redispatch(t, e) \/ \E k \in Kinds : Dispatch(t, e, k)
      PROVE  QueuePrio'
  BY <1>1, CallPrio DEF QueuePrio
<1>2. ASSUME NEW t \in Threads, Reject(t) PROVE QueuePrio'
  BY <1>2 DEF Reject, QueuePrio, evars, qvars
<1>3. ASSUME NEW t \in Threads, Enqueue(t) PROVE QueuePrio'
  <2>1. PICK e \in Events, v \in Workers, q \in Priorities : e = dev[t] /\ v = dcpu[t] /\ q = priority[e]
    BY <1>3, EnqueueArgs
  <2>2. \A f \in SeqRange(queue[v][q]) : priority[f] = q
    BY DEF QueuePrio
  <2>3. \A f \in SeqRange(queue'[v][q]) : priority'[f] = q
    BY <1>3, <2>1, <2>2, EnqueueLists
  <2>4. \A w \in Workers, p \in Priorities : w # v \/ p # q =>
           \A f \in SeqRange(queue'[w][p]) : priority'[f] = p
    BY <1>3, <2>1, EnqueueLists DEF QueuePrio
  <2>5. QED
    BY <2>3, <2>4 DEF QueuePrio
<1>4. ASSUME NEW w \in Workers, Splice(w) PROVE QueuePrio'
  BY <1>4, SpliceLists, RangeEmpty DEF QueuePrio
<1>5. ASSUME NEW w \in Workers, Take(w) \/ Release(w) PROVE QueuePrio'
  BY <1>5 DEF Take, Release, QueuePrio, evars, qvars
<1>6. QED
  BY <1>1, <1>2, <1>3, <1>4, <1>5, Movers DEF QueuePrio

\* UrgentFirst of a list, for the priorities P.
InOrder(s, P) == \A i, j \in DOMAIN s : P[s[i]] < HIGH /\ P[s[j]] >= HIGH => j < i

\* Urgent events spliced in front of an ordered list leave it ordered, as do
\* the others spliced behind it.
LEMMA SpliceOrder ==
  ASSUME NEW S, NEW s \in Seq(S), NEW q \in Seq(S), NEW P \in [S -> Int], InOrder(s, P)
  PROVE  /\ (\A e \in SeqRange(q) : P[e] >= HIGH) => InOrder(q \o s, P)
         /\ (\A e \in SeqRange(q) : P[e] < HIGH) => InOrder(s \o q, P)
<1>1. HIGH \in Int /\ Len(s) \in Nat /\ Len(q) \in Nat
  BY DEF HIGH
<1>2. ASSUME \A e \in SeqRange(q) : P[e] >= HIGH PROVE InOrder(q \o s, P)
  <2>1. DOMAIN (q \o s) = 1 .. (Len(q) + Len(s)) /\ DOMAIN s = 1 .. Len(s) /\ DOMAIN q = 1 .. Len(q)
    OBVIOUS
  <2>2. /\ \A i \in DOMAIN q : (q \o s)[i] = q[i] /\ P[q[i]] >= HIGH /\ P[q[i]] \in Int
        /\ \A i \in DOMAIN (q \o s) : i \notin DOMAIN q =>
              i - Len(q) \in DOMAIN s /\ (q \o s)[i] = s[i - Len(q)]
    BY <1>2, <2>1 DEF SeqRange
  <2>3. QED
    BY <1>1, <2>1, <2>2 DEF InOrder
<1>3. ASSUME \A e \in SeqRange(q) : P[e] < HIGH PROVE InOrder(s \o q, P)
  <2>1. DOMAIN (s \o q) = 1 .. (Len(s) + Len(q)) /\ DOMAIN s = 1 .. Len(s) /\ DOMAIN q = 1 .. Len(q)
    OBVIOUS
  <2>2. /\ \A i \in DOMAIN s : (s \o q)[i] = s[i]
        /\ \A i \in DOMAIN (s \o q) : i \notin DOMAIN s =>
              /\ i - Len(s) \in DOMAIN q /\ (s \o q)[i] = q[i - Len(s)]
              /\ P[q[i - Len(s)]] < HIGH /\ P[q[i - Len(s)]] \in Int
    BY <1>3, <2>1 DEF SeqRange
  <2>3. QED
    BY <1>1, <2>1, <2>2 DEF InOrder
<1>4. QED
  BY <1>2, <1>3

\* Removing the head of an ordered list leaves it ordered.
LEMMA TailOrder ==
  ASSUME NEW S, NEW s \in Seq(S), s # <<>>, NEW P, InOrder(s, P)
  PROVE  InOrder(Tail(s), P)
<1>1. /\ Len(s) \in Nat /\ DOMAIN s = 1 .. Len(s) /\ DOMAIN Tail(s) = 1 .. Len(s) - 1
      /\ \A i \in 1 .. Len(s) - 1 : Tail(s)[i] = s[i + 1]
  OBVIOUS
<1>2. QED
  BY <1>1 DEF InOrder

\* UrgentFirst is inductive with QueuePrio.
LEMMA UrgentStep == TypeOK /\ OnePlace /\ QueuePrio /\ UrgentFirst /\ [Next]_vars => UrgentFirst'
<1> SUFFICES ASSUME TypeOK, OnePlace, QueuePrio, UrgentFirst, [Next]_vars PROVE UrgentFirst'
  OBVIOUS
<1>0. /\ \A w \in Workers : InOrder(local[w], priority) /\ local[w] \in Seq(Events)
      /\ priority \in [Events -> Int]
      /\ (\A w \in Workers : InOrder(local'[w], priority')) => UrgentFirst'
  BY DEF UrgentFirst, InOrder, TypeOK, ListTypes, EventTypes
<1>1. ASSUME NEW t \in Threads, NEW e \in Events, Redispatch(t, e) \/ \E k \in Kinds : Dispatch(t, e, k)
      PROVE  UrgentFirst'
  <2>1. /\ local' = local
        /\ \A w \in Workers : \A i \in DOMAIN local[w] : priority'[local[w][i]] = priority[local[w][i]]
    BY <1>1, CallPrio DEF SeqRange
  <2>2. QED
    BY <2>1 DEF UrgentFirst
<1>2. ASSUME NEW t \in Threads, Reject(t) \/ Enqueue(t) PROVE UrgentFirst'
  BY <1>2 DEF Reject, Enqueue, UrgentFirst, evars, wvars
<1>3. ASSUME NEW w \in Workers, Splice(w) PROVE UrgentFirst'
  <2>1. \A e \in SeqRange(queue[w][sec[w]]) : priority[e] = sec[w]
    BY <1>3, SpliceLists DEF QueuePrio
  <2>2. sec[w] \in Int
    BY <1>3, SpliceLists DEF Priorities, IDLE, CRIT
  <2>3. InOrder(local'[w], priority)
    <3>1. CASE sec[w] >= HIGH
      BY <1>0, <1>3, <2>1, <2>2, <3>1, SpliceLists, SpliceOrder
    <3>2. CASE sec[w] < HIGH
      BY <1>0, <1>3, <2>1, <2>2, <3>2, SpliceLists, SpliceOrder DEF HIGH
    <3>3. QED
      BY <2>2, <3>1, <3>2 DEF HIGH
  <2>4. QED
    BY <1>0, <1>3, <2>3, SpliceLists
<1>4. ASSUME NEW w \in Workers, Take(w) PROVE UrgentFirst'
  <2>1. /\ local[w] \in Seq(Events) /\ local[w] # <<>> /\ local'[w] = Tail(local[w])
        /\ \A v \in Workers \ {w} : local'[v] = local[v]
        /\ priority' = priority
    BY <1>4 DEF Take, TypeOK, ListTypes, evars
  <2>2. InOrder(Tail(local[w]), priority)
    BY <1>0, <2>1, TailOrder
  <2>3. QED
    BY <1>0, <2>1, <2>2
<1>5. ASSUME NEW w \in Workers, Release(w) PROVE UrgentFirst'
  BY <1>5 DEF Release, UrgentFirst, evars
<1>6. QED
  BY <1>1, <1>2, <1>3, <1>4, <1>5, Movers DEF UrgentFirst

\* In the local list of a worker the urgent events are in front of the others,
\* whatever sections were left early.
THEOREM UrgentCorrect == Spec => []UrgentFirst
<1>1. Init => QueuePrio /\ UrgentFirst
  BY RangeEmpty DEF Init, QueuePrio, UrgentFirst
<1>2. QED
  BY <1>1, TypeCorrect, PlaceCorrect, QueuePrioStep, UrgentStep, PTL DEF Spec

-----------------------------------------------------------------------------
(* worker_init and worker_fini leave no condition variable behind. *)

\* How often wk_convar of worker w has been initialised and not destroyed: it
\* follows the loops of worker_init, of its cleanup and of worker_fini.
Inits(w) ==
    CASE start \in {"create", "undo"} -> IF w < sindex THEN 1 ELSE 0
      [] start = "wait" -> IF w <= sindex THEN 1 ELSE 0
      [] start = "failed" -> IF w = sindex THEN -1 ELSE 0
      [] start = "up" -> IF fini = "uncalled" \/ (fini = "stop" /\ w <= findex) THEN 1 ELSE 0

\* The strengthening that makes ConvarsDown inductive.
ConvInv ==
    /\ fini # "uncalled" => start = "up"
    /\ start = "up" => sindex = ThreadNum
    /\ \A w \in Workers : convar[w] = Inits(w)

\* ConvInv is inductive.
LEMMA ConvStep == TypeOK /\ ConvInv /\ [Next]_vars => ConvInv'
<1> SUFFICES ASSUME TypeOK, ConvInv, [Next]_vars PROVE ConvInv'
  OBVIOUS
<1>0. /\ start \in {"create", "wait", "undo", "up", "failed"}
      /\ sindex \in Nat /\ sindex <= ThreadNum /\ ThreadNum \in Nat /\ findex \in Int
      /\ fini = "stop" => findex >= 0 /\ findex <= ThreadNum
      /\ fini \in {"uncalled", "stop", "free", "freed"}
      /\ convar \in [Workers -> Int]
      /\ \A w \in Workers : w \in Nat /\ w < ThreadNum
      /\ start \in {"create", "wait", "undo"} => sindex \in Workers
  BY WorkerAssumption DEF WorkerAssumption, TypeOK, StartTypes, FiniTypes, Workers
<1>1. ASSUME StartThread PROVE ConvInv'
  BY <1>0, <1>1 DEF StartThread, ConvInv, Inits
<1>2. ASSUME StartRefused PROVE ConvInv'
  BY <1>0, <1>2 DEF StartRefused, ConvInv, Inits
<1>3. ASSUME StartDone PROVE ConvInv'
  BY <1>0, <1>3 DEF StartDone, ConvInv, Inits
<1>4. ASSUME StartTimeout PROVE ConvInv'
  BY <1>0, <1>4 DEF StartTimeout, ConvInv, Inits
<1>5. ASSUME StartUndo PROVE ConvInv'
  BY <1>0, <1>5 DEF StartUndo, ConvInv, Inits
<1>6. ASSUME FiniCall PROVE ConvInv'
  BY <1>0, <1>6 DEF FiniCall, ConvInv, Inits, svars
<1>7. ASSUME FiniStop PROVE ConvInv'
  <2>1. /\ fini = "stop" /\ start = "up" /\ sindex = ThreadNum /\ findex' = findex - 1
        /\ fini' = IF findex = 0 THEN "free" ELSE "stop"
        /\ start' = "up" /\ sindex' = ThreadNum
    BY <1>7 DEF FiniStop, ConvInv
  <2>2. ASSUME NEW w \in Workers PROVE convar'[w] = IF w = findex THEN convar[w] - 1 ELSE convar[w]
    BY <1>0, <1>7 DEF FiniStop
  <2>3. \A w \in Workers : convar[w] = IF w <= findex THEN 1 ELSE 0
    BY <2>1 DEF ConvInv, Inits
  <2>4. \A w \in Workers : convar'[w] = IF w <= findex - 1 THEN 1 ELSE 0
    BY <1>0, <2>2, <2>3
  <2>5. QED
    BY <1>0, <2>1, <2>4 DEF ConvInv, Inits
<1>8. ASSUME FiniFree PROVE ConvInv'
  BY <1>0, <1>8 DEF FiniFree, ConvInv, Inits, svars
<1>9. CASE UNCHANGED <<start, sindex, fini, findex, convar>>
  BY <1>9 DEF ConvInv, Inits
<1>10. \A t \in Threads, e \in Events : Redispatch(t, e) \/ (\E k \in Kinds : Dispatch(t, e, k)) => ConvInv'
  BY ONLY CallKeeps, <1>9
<1>11. \A t \in Threads : DispatchStep(t) => ConvInv'
  BY ONLY DispatchKeeps, <1>9
<1>12. \A w \in Workers : WorkerStep(w) \/ SpuriousWake(w) => ConvInv'
  BY ONLY LoopKeeps, <1>9
<1>13. UNCHANGED vars => ConvInv'
  BY ONLY <1>9 DEF vars, fvars, svars
<1>14. QED
  BY ONLY [Next]_vars, <1>1, <1>2, <1>3, <1>4, <1>5, <1>6, <1>7, <1>8, <1>10, <1>11, <1>12, <1>13
     DEF Next, StartStep

\* A failed worker_init and a completed worker_fini have destroyed every
\* wk_convar as often as it was initialised, and that of the failed thread
\* once more.
THEOREM ConvarsCorrect == Spec => []ConvarsDown
<1>1. Init => ConvInv
  BY WorkerAssumption DEF WorkerAssumption, Init, ConvInv, Inits, Workers
<1>2. TypeOK /\ ConvInv => ConvarsDown
  BY DEF ConvInv, ConvarsDown, Inits
<1>3. QED
  BY <1>1, <1>2, TypeCorrect, ConvStep, PTL DEF Spec
-----------------------------------------------------------------------------
(* A worker that is told to stop ends drained. *)

\* Worker w has been told to stop.
Told(w) == fini # "uncalled" /\ (fini = "stop" => w > findex)

\* What is owed by worker w: an event owed is still accepted, and the queues the
\* checks behind the loop have passed owe nothing.
Drained(w) ==
    /\ owed[w] \subseteq Accepted(w)
    /\ ~Told(w) => owed[w] = {}
    /\ status[w] = "stop" \/ sec[w] = Exit => Told(w)
    /\ sec[w] = Exit => pc[w] \in {"scan", "done"}
    /\ pc[w] = "scan" /\ sec[w] = Exit =>
          \A p \in Priorities : p > chk[w] => owed[w] \cap SeqRange(queue[w][p]) = {}
    /\ pc[w] = "done" => /\ Told(w) \/ start = "failed"
                         /\ owed[w] = {} /\ local[w] = <<>>

\* The strengthening that makes DrainBeforeExit inductive.
DrainInv == \A w \in Workers : Drained(w)

\* A worker none of whose variables change stays drained.
LEMMA DrainedStays ==
  ASSUME NEW w \in Workers, Drained(w), Told(w)' <=> Told(w), start = "failed" => start' = "failed",
         local'[w] = local[w], queue'[w] = queue[w], owed'[w] = owed[w], status'[w] = status[w],
         pc'[w] = pc[w], sec'[w] = sec[w], chk'[w] = chk[w]
  PROVE  Drained(w)'
<1>1. Accepted(w)' = Accepted(w)
  BY DEF Accepted, SeqRange
<1>2. QED
  BY <1>1 DEF Drained

\* A step of one worker changes nothing another worker works with.
LEMMA LoopOthers ==
  ASSUME TypeOK, NEW w \in Workers, WorkerStep(w) \/ SpuriousWake(w), NEW v \in Workers, v # w
  PROVE  /\ local'[v] = local[v] /\ queue'[v] = queue[v] /\ owed'[v] = owed[v]
         /\ status'[v] = status[v] /\ pc'[v] = pc[v] /\ sec'[v] = sec[v] /\ chk'[v] = chk[v]
<1> DEFINE Same == /\ local'[v] = local[v] /\ queue'[v] = queue[v] /\ owed'[v] = owed[v]
                   /\ status'[v] = status[v] /\ pc'[v] = pc[v] /\ sec'[v] = sec[v] /\ chk'[v] = chk[v]
<1>0. /\ DOMAIN local = Workers /\ DOMAIN queue = Workers /\ DOMAIN owed = Workers
      /\ DOMAIN status = Workers /\ DOMAIN pc = Workers /\ DOMAIN sec = Workers /\ DOMAIN chk = Workers
  BY DEF TypeOK, QueueTypes, ListTypes, ControlTypes, FiniTypes
<1>1. CASE InitTls(w) \/ SignalStart(w) \/ Cancelled(w) \/ LoopTest(w) \/ Block(w)
  BY ONLY <1>0, <1>1, v \in Workers, v # w
     DEF InitTls, SignalStart, Cancelled, LoopTest, Block, qvars, fvars
<1>2. CASE NoWait(w) \/ Wake(w) \/ SpuriousWake(w)
  BY ONLY <1>0, <1>2, v \in Workers, v # w DEF NoWait, Wake, SpuriousWake, Awaken, qvars, fvars
<1>3. CASE Splice(w)
  BY ONLY <1>0, <1>3, v \in Workers, v # w DEF Splice, fvars
<1>4. CASE Take(w)
  BY ONLY <1>0, <1>4, v \in Workers, v # w DEF Take, qvars
<1>5. CASE LeaveSection(w) \/ Preempt(w)
  BY ONLY <1>0, <1>5, v \in Workers, v # w DEF LeaveSection, Preempt, Enter, qvars, fvars
<1>6. CASE Release(w) \/ Return(w) \/ CheckNext(w) \/ ThreadEnd(w)
  BY ONLY <1>0, <1>6, v \in Workers, v # w DEF Release, Return, CheckNext, ThreadEnd, qvars, fvars
<1>7. QED
  BY <1>1, <1>2, <1>3, <1>4, <1>5, <1>6 DEF WorkerStep

\* What worker w has accepted, entry by entry of its lists.
LEMMA AcceptedIs ==
  ASSUME NEW w \in Workers
  PROVE  \A e : e \in Accepted(w) <=> \/ e \in SeqRange(local[w])
                                      \/ \E p \in Priorities : e \in SeqRange(queue[w][p])
  BY DEF Accepted

\* A worker keeps what it owes: a splice moves events within its lists, a take
\* settles the one it takes, and the thread ends when nothing is left.
LEMMA DrainLoop ==
  ASSUME TypeOK, PendingExact, ListInv, ConvInv, OnePlace, DrainInv,
         NEW w \in Workers, WorkerStep(w) \/ SpuriousWake(w)
  PROVE  Drained(w)'
<1>0. /\ UNCHANGED <<fini, findex, start>>
      /\ Told(w)' <=> Told(w)
      /\ Drained(w)
  BY LoopKeeps DEF Told, DrainInv
<1>0a. /\ pc \in [Workers -> {"none", "born", "begun", "loop", "wait", "blocked", "splice", "scan",
                            "handler", "released", "done"}]
       /\ sec \in [Workers -> Priorities \cup {Exit}]
       /\ chk \in [Workers -> Priorities \cup {Exit}]
       /\ pc[w] \in {"splice", "handler", "released"} => sec[w] # Exit /\ chk[w] = sec[w]
       /\ pc[w] \in Outside => sec[w] = CRIT /\ chk[w] = CRIT
       /\ status \in [Workers -> {"running", "stop", "zero", "lost"}]
       /\ owed \in [Workers -> SUBSET Events]
       /\ local \in [Workers -> Seq(Events)]
  BY DEF TypeOK, ControlTypes, FiniTypes, ListTypes
<1>0b. CRIT # Exit
  BY DEF CRIT, Exit
<1>1. ASSUME UNCHANGED <<local, queue, owed, status>>, pc'[w] # "done",
             sec'[w] # Exit
      PROVE  Drained(w)'
  <2>1. Accepted(w)' = Accepted(w)
    BY <1>1 DEF Accepted, SeqRange
  <2>2. QED
    BY <1>0, <1>1, <2>1 DEF Drained
<1>2. CASE InitTls(w)
  <2>1. /\ UNCHANGED <<local, queue, owed, sec>> /\ pc'[w] = "begun" /\ status'[w] = "running"
        /\ sec[w] = CRIT
    BY <1>0a, <1>2 DEF InitTls, qvars, Outside
  <2>2. Accepted(w)' = Accepted(w)
    BY <2>1 DEF Accepted, SeqRange
  <2>3. QED
    BY <1>0, <1>0b, <2>1, <2>2 DEF Drained
<1>3. CASE SignalStart(w) \/ Block(w)
  <2>1. UNCHANGED <<local, queue, owed, status, sec>> /\ pc'[w] \in {"loop", "blocked"} /\ sec[w] = CRIT
    BY <1>0a, <1>3 DEF SignalStart, Block, qvars, fvars, Outside
  <2>2. QED
    BY <1>0b, <1>1, <2>1
<1>4. CASE NoWait(w) \/ Wake(w) \/ SpuriousWake(w)
  <2>1. UNCHANGED <<local, queue, owed, status, sec>> /\ pc'[w] = "splice" /\ sec[w] = CRIT
    BY <1>0a, <1>4 DEF NoWait, Wake, SpuriousWake, Awaken, qvars, fvars, Outside
  <2>2. QED
    BY <1>0b, <1>1, <2>1
<1>5. CASE LoopTest(w)
  <2>1. CASE status[w] # "stop"
    <3>1. UNCHANGED <<local, queue, owed, status, sec>> /\ pc'[w] = "wait" /\ sec[w] = CRIT
      BY <1>0a, <1>5, <2>1 DEF LoopTest, qvars, fvars, Outside
    <3>2. QED
      BY <1>0b, <1>1, <3>1
  <2>2. CASE status[w] = "stop"
    <3>1. /\ UNCHANGED <<local, queue, owed, status, chk>> /\ pc'[w] = "scan" /\ sec'[w] = Exit
          /\ chk[w] = CRIT
      BY <1>0a, <1>5, <2>2 DEF LoopTest, qvars, fvars, Outside
    <3>2. Accepted(w)' = Accepted(w)
      BY <3>1 DEF Accepted, SeqRange
    <3>3. \A p \in Priorities : ~(p > chk'[w])
      BY <3>1 DEF Priorities, IDLE, CRIT
    <3>4. QED
      BY <1>0, <2>2, <3>1, <3>2, <3>3 DEF Drained
  <2>3. QED
    BY <2>1, <2>2
<1>6. CASE Cancelled(w)
  <2>1. /\ UNCHANGED <<local, queue, owed, status, sec>> /\ pc'[w] = "done" /\ sec[w] = CRIT
        /\ start = "failed" /\ pc[w] = "blocked"
    BY <1>0a, <1>6 DEF Cancelled, qvars, fvars, svars, Outside
  <2>2. owed[w] = {} /\ local[w] = <<>>
    BY <1>0, <2>1 DEF ListInv, Outside, ConvInv, Told, Drained
  <2>3. Accepted(w)' = Accepted(w)
    BY <2>1 DEF Accepted, SeqRange
  <2>4. QED
    BY <1>0, <1>0b, <2>1, <2>2, <2>3 DEF Drained
<1>7. CASE Splice(w)
  <2>1. PICK s \in Priorities : s = sec[w]
    BY <1>7, SpliceLists
  <2>2. SeqRange(local'[w]) = SeqRange(local[w]) \cup SeqRange(queue[w][s])
    BY <1>7, <2>1, SpliceLists, RangeConcat
  <2>3. Accepted(w) \subseteq Accepted(w)'
    BY <1>7, <2>1, <2>2, SpliceLists DEF Accepted
  <2>4. pc'[w] = "scan" /\ sec'[w] # Exit /\ UNCHANGED <<owed, status, sec>>
    BY <1>0a, <1>7 DEF Splice, fvars
  <2>5. QED
    BY <1>0, <2>3, <2>4 DEF Drained
<1>8. CASE Take(w)
  <2>1. /\ local[w] \in Seq(Events) /\ local[w] # <<>> /\ local'[w] = Tail(local[w])
        /\ owed'[w] = owed[w] \ {Head(local[w])} /\ pc'[w] = "handler" /\ sec[w] # Exit
        /\ UNCHANGED <<queue, status, sec>>
    BY <1>0a, <1>8 DEF Take, AtList, qvars
  <2>2. SeqRange(local[w]) = {Head(local[w])} \cup SeqRange(local'[w])
    BY <2>1, RangeTail
  <2>3. Accepted(w) \ {Head(local[w])} \subseteq Accepted(w)'
    BY <2>1, <2>2 DEF Accepted
  <2>4. QED
    BY <1>0, <2>1, <2>3 DEF Drained
<1>9. CASE LeaveSection(w)
  <2>1. /\ UNCHANGED <<local, queue, owed, status>> /\ pc'[w] \in {"loop", "splice"}
        /\ sec'[w] = IF sec[w] = IDLE THEN CRIT ELSE sec[w] - 1
        /\ sec[w] \in Priorities
    BY <1>0a, <1>9 DEF LeaveSection, Enter, AtList, qvars, fvars
  <2>2. sec'[w] # Exit
    BY <2>1 DEF Priorities, IDLE, CRIT, Exit
  <2>3. QED
    BY <1>1, <2>1, <2>2
<1>10. CASE Release(w) \/ Return(w)
  <2>1. UNCHANGED <<local, queue, owed, status, sec>> /\ pc'[w] \in {"released", "scan"} /\ sec[w] # Exit
    BY <1>0a, <1>10 DEF Release, Return, qvars, fvars
  <2>2. QED
    BY <1>1, <2>1
<1>11. CASE Preempt(w)
  <2>1. /\ UNCHANGED <<local, queue, owed, status>> /\ pc'[w] = "splice" /\ sec'[w] = chk[w]
        /\ chk[w] > sec[w] /\ chk[w] \in Priorities \cup {Exit} /\ sec[w] \in Priorities \cup {Exit}
    BY <1>0a, <1>11 DEF Preempt, AtCheck, Enter, qvars, fvars
  <2>2. sec'[w] # Exit
    BY <2>1 DEF Priorities, IDLE, CRIT, Exit
  <2>3. QED
    BY <1>1, <2>1, <2>2
<1>12. CASE CheckNext(w)
  <2>1. /\ UNCHANGED <<local, queue, owed, status, sec, pc>> /\ pc[w] = "scan" /\ chk'[w] = chk[w] - 1
        /\ chk[w] > sec[w] /\ ~Preempts(w)
    BY <1>0a, <1>12 DEF CheckNext, AtCheck, qvars, fvars
  <2>2. CASE sec[w] # Exit
    BY <1>1, <2>1, <2>2
  <2>3. CASE sec[w] = Exit
    <3>1. chk[w] \in Priorities /\ sec[w] # NORM
      BY <1>0a, <2>1, <2>3 DEF Priorities, IDLE, NORM, CRIT, Exit
    <3>2. pending[w][chk[w]] = 0
      BY <2>1, <3>1 DEF Preempts
    <3>3. queue[w][chk[w]] \in Seq(Events)
      BY <3>1 DEF TypeOK, QueueTypes
    <3>4. queue[w][chk[w]] = <<>>
      BY <3>1, <3>2, <3>3 DEF PendingExact
    <3>5. SeqRange(queue[w][chk[w]]) = {}
      BY <3>4, RangeEmpty
    <3>6. \A p \in Priorities : p > chk[w] - 1 => p > chk[w] \/ p = chk[w]
      BY <3>1 DEF Priorities, IDLE, CRIT
    <3>7. \A p \in Priorities : p > chk'[w] => owed[w] \cap SeqRange(queue[w][p]) = {}
      BY <1>0, <2>1, <2>3, <3>5, <3>6 DEF Drained
    <3>8. Accepted(w)' = Accepted(w)
      BY <2>1 DEF Accepted, SeqRange
    <3>9. QED
      BY <1>0, <2>1, <2>3, <3>7, <3>8 DEF Drained
  <2>4. QED
    BY <2>2, <2>3
<1>13. CASE ThreadEnd(w)
  <2>1. /\ UNCHANGED <<local, queue, owed, sec>> /\ pc'[w] = "done" /\ pc[w] = "scan"
        /\ sec[w] = Exit /\ chk[w] = Exit /\ status'[w] # "stop"
    BY <1>0a, <1>13 DEF ThreadEnd, qvars
  <2>2. \A p \in Priorities : owed[w] \cap SeqRange(queue[w][p]) = {}
    BY <1>0, <2>1 DEF Drained, Priorities, IDLE, CRIT, Exit
  <2>3. local[w] = <<>> /\ SeqRange(local[w]) = {}
    BY <2>1, RangeEmpty DEF ListInv
  <2>4. owed[w] = {}
    BY <1>0, <2>2, <2>3, AcceptedIs DEF Drained
  <2>5. Told(w)
    BY <1>0, <2>1 DEF Drained
  <2>6. QED
    BY <1>0, <2>1, <2>3, <2>4, <2>5 DEF Drained
<1>14. QED
  BY <1>2, <1>3, <1>4, <1>5, <1>6, <1>7, <1>8, <1>9, <1>10, <1>11, <1>12, <1>13 DEF WorkerStep

\* An event of a call is in no list and in no handler.
LEMMA CalledAlone ==
  ASSUME OnePlace, NEW t \in Threads, NEW e \in Events, e = dev[t], NEW w \in Workers
  PROVE  e \notin Accepted(w) /\ running[w] # e
<1>1. PICK a \in Places : a = <<"call", t, 0>> /\ e \in Content(a)
  BY PlaceIn, ContentIs, WorkerAssumption DEF WorkerAssumption
<1>2. e \notin SeqRange(local[w])
  <2>1. PICK b \in Places : b = <<"local", w, 0>>
    BY PlaceIn
  <2>2. e \notin Content(b)
    BY <1>1, <2>1, Elsewhere
  <2>3. QED
    BY <2>1, <2>2, ContentIs
<1>3. ASSUME NEW p \in Priorities PROVE e \notin SeqRange(queue[w][p])
  <2>1. PICK b \in Places : b = <<"queue", w, p>>
    BY PlaceIn
  <2>2. e \notin Content(b)
    BY <1>1, <2>1, Elsewhere
  <2>3. QED
    BY <2>1, <2>2, ContentIs
<1>4. running[w] # e
  <2>1. PICK b \in Places : b = <<"run", w, 0>>
    BY PlaceIn
  <2>2. e \notin Content(b)
    BY <1>1, <2>1, Elsewhere
  <2>3. QED
    BY <2>1, <2>2, ContentIs, WorkerAssumption DEF WorkerAssumption
<1>5. QED
  BY <1>2, <1>3, <1>4, AcceptedIs

\* An event that enters a queue is not owed: it comes from a call.
LEMMA DrainEnqueue ==
  ASSUME TypeOK, OnePlace, DrainInv, NEW t \in Threads, Enqueue(t), NEW w \in Workers
  PROVE  Drained(w)'
<1>0. /\ Drained(w)
      /\ UNCHANGED <<local, owed, status, pc, sec, chk, fini, findex, start>>
      /\ Told(w)' <=> Told(w)
  BY DEF Enqueue, DrainInv, Told, wvars, fvars, svars
<1>1. PICK e \in Events, v \in Workers, q \in Priorities : e = dev[t] /\ v = dcpu[t] /\ q = priority[e]
  BY EnqueueArgs
<1>2. e \notin Accepted(w)
  BY <1>1, CalledAlone
<1>3. e \notin owed[w]
  BY <1>0, <1>2 DEF Drained
<1>4. \A p \in Priorities : /\ SeqRange(queue[w][p]) \subseteq SeqRange(queue'[w][p])
                            /\ SeqRange(queue'[w][p]) \subseteq SeqRange(queue[w][p]) \cup {e}
  <2>1. CASE w = v
    <3>1. \A p \in Priorities : p # q => queue'[w][p] = queue[w][p]
      BY <1>1, <2>1, EnqueueLists
    <3>2. SeqRange(queue'[w][q]) = SeqRange(queue[w][q]) \cup {e}
      BY <1>1, <2>1, EnqueueLists
    <3>3. QED
      BY <3>1, <3>2
  <2>2. CASE w # v
    <3>1. \A p \in Priorities : queue'[w][p] = queue[w][p]
      BY <1>1, <2>2, EnqueueLists
    <3>2. QED
      BY <3>1
  <2>3. QED
    BY <2>1, <2>2
<1>5. Accepted(w) \subseteq Accepted(w)'
  BY <1>0, <1>4 DEF Accepted
<1>6. QED
  BY <1>0, <1>3, <1>4, <1>5 DEF Drained

\* worker_fini tells one worker after the other, down from the last.
LEMMA DrainFini ==
  ASSUME TypeOK, ConvInv, DrainInv, FiniStop, NEW w \in Workers
  PROVE  Drained(w)'
<1>0. /\ fini = "stop" /\ findex' = findex - 1 /\ findex \in Int /\ start = "up"
      /\ fini' = IF findex = 0 THEN "free" ELSE "stop"
      /\ w \in Int /\ w >= 0 /\ findex >= 0
      /\ status \in [Workers -> {"running", "stop", "zero", "lost"}]
      /\ owed \in [Workers -> SUBSET Events]
      /\ UNCHANGED <<local, queue, pc, sec, chk, start>>
      /\ Drained(w)
  BY WorkerAssumption DEF WorkerAssumption, TypeOK, FiniTypes, FiniStop, ConvInv, DrainInv, Workers, wvars, qvars
<1>1. Accepted(w)' = Accepted(w)
  BY <1>0 DEF Accepted, SeqRange
<1>2. CASE w = findex
  <2>1. Told(w)' /\ ~Told(w)
    BY <1>0, <1>2 DEF Told
  <2>2. status'[w] = "stop" /\ owed'[w] = Accepted(w)
    BY <1>0, <1>2 DEF FiniStop
  <2>3. QED
    BY <1>0, <1>1, <2>1, <2>2 DEF Drained
<1>3. CASE w # findex
  <2>1. Told(w)' <=> Told(w)
    BY <1>0, <1>3 DEF Told
  <2>2. status'[w] = status[w] /\ owed'[w] = owed[w]
    BY <1>0, <1>3 DEF FiniStop
  <2>3. QED
    BY <1>0, <2>1, <2>2, DrainedStays
<1>4. QED
  BY <1>2, <1>3

\* DrainInv is inductive.
LEMMA DrainStep ==
  TypeOK /\ PendingExact /\ ListInv /\ ConvInv /\ OnePlace /\ DrainInv /\ [Next]_vars => DrainInv'
<1> SUFFICES ASSUME TypeOK, PendingExact, ListInv, ConvInv, OnePlace, DrainInv, [Next]_vars,
                    NEW w \in Workers
             PROVE  Drained(w)'
  BY DEF DrainInv
<1>0. Drained(w)
  BY DEF DrainInv
<1>1. CASE UNCHANGED <<local, queue, owed, status, pc, sec, chk, fini, findex, start>>
  BY <1>0, <1>1, DrainedStays DEF Told
<1>2. ASSUME NEW t \in Threads, NEW e \in Events, Redispatch(t, e) \/ \E k \in Kinds : Dispatch(t, e, k)
      PROVE  Drained(w)'
  BY <1>1, <1>2, CallKeeps
<1>3. ASSUME NEW t \in Threads, DispatchStep(t) PROVE Drained(w)'
  BY <1>1, <1>3, DispatchKeeps, DrainEnqueue
<1>4. ASSUME NEW u \in Workers, WorkerStep(u) \/ SpuriousWake(u) PROVE Drained(w)'
  <2>1. CASE u = w
    BY <1>4, <2>1, DrainLoop
  <2>2. CASE u # w
    BY <1>0, <1>4, <2>2, LoopOthers, LoopKeeps, DrainedStays DEF Told
  <2>3. QED
    BY <2>1, <2>2
<1>5. ASSUME StartStep PROVE Drained(w)'
  <2>1. /\ UNCHANGED <<local, queue, owed, status, sec, chk, fini, findex>>
        /\ start # "failed" /\ start # "up" /\ (Told(w)' <=> Told(w)) /\ ~Told(w)
    BY <1>5, StartKeeps DEF StartStep, StartThread, StartRefused, StartDone, StartTimeout, StartUndo, Told, ConvInv
  <2>2. pc'[w] = pc[w] \/ pc'[w] = "born"
    BY <1>5, StartKeeps, StartFresh DEF TypeOK, ControlTypes
  <2>3. pc[w] # "done" /\ owed[w] = {} /\ status[w] # "stop" /\ sec[w] # Exit
    BY <1>0, <2>1 DEF Drained
  <2>4. Accepted(w)' = Accepted(w)
    BY <2>1 DEF Accepted, SeqRange
  <2>5. QED
    BY <2>1, <2>2, <2>3, <2>4 DEF Drained
<1>6. ASSUME FiniCall PROVE Drained(w)'
  <2>1. /\ UNCHANGED <<local, queue, owed, status, pc, sec, chk, start>>
        /\ fini = "uncalled" /\ start = "up" /\ fini' = "stop" /\ findex' = ThreadNum
    BY <1>6 DEF FiniCall, wvars, qvars, svars
  <2>2. ~Told(w) /\ ~Told(w)'
    BY <2>1, WorkerAssumption DEF WorkerAssumption, Told, Workers
  <2>3. QED
    BY <1>0, <2>1, <2>2, DrainedStays
<1>7. ASSUME FiniFree PROVE Drained(w)'
  <2>1. /\ UNCHANGED <<local, queue, owed, pc, sec, chk, start>>
        /\ fini = "free" /\ fini' = "freed"
        /\ status'[w] = status[w] \/ status'[w] = "lost"
    BY <1>7 DEF FiniFree, wvars, qvars, svars, TypeOK, FiniTypes
  <2>2. Told(w) /\ Told(w)'
    BY <2>1 DEF Told
  <2>3. Accepted(w)' = Accepted(w)
    BY <2>1 DEF Accepted, SeqRange
  <2>4. QED
    BY <1>0, <2>1, <2>2, <2>3 DEF Drained
<1>8. UNCHANGED vars => Drained(w)'
  BY <1>1 DEF vars, wvars, qvars, fvars, svars
<1>9. QED
  BY <1>2, <1>3, <1>4, <1>5, <1>6, <1>7, <1>8, DrainFini DEF Next

\* A worker ends only after it has started every event it had accepted when it
\* was told to stop, and leaves nothing in its local list.
THEOREM DrainCorrect == Spec => []DrainBeforeExit
<1>1. Init => PendingExact /\ ListInv /\ ConvInv /\ DrainInv
  BY RangeEmpty, WorkerAssumption DEF WorkerAssumption, Init, PendingExact, ListInv, ConvInv, Inits, DrainInv,
     Drained, Told, Accepted, Workers, CRIT, Exit
<1>2. DrainInv => DrainBeforeExit
  BY DEF DrainInv, Drained, DrainBeforeExit
<1>3. QED
  BY <1>1, <1>2, TypeCorrect, PlaceCorrect, PendingStep, ListStep, ConvStep, DrainStep, PTL DEF Spec

-----------------------------------------------------------------------------
(* The pool implements EventPool. *)

\* e comes before f in a list; in a list with another behind it.
Before(s, e, f) == \E i, j \in DOMAIN s : i < j /\ s[i] = e /\ s[j] = f

Before2(s, t, e, f) == Before(s, e, f) \/ (e \in SeqRange(s) /\ f \in SeqRange(t)) \/ Before(t, e, f)

\* What comes before what in two lists spliced together.
LEMMA BeforeConcat ==
  ASSUME NEW S, NEW s \in Seq(S), NEW t \in Seq(S), NEW e, NEW f
  PROVE  Before(s \o t, e, f) <=> Before2(s, t, e, f)
<1>1. /\ Len(s) \in Nat /\ Len(t) \in Nat
      /\ DOMAIN (s \o t) = 1 .. (Len(s) + Len(t))
      /\ DOMAIN s = 1 .. Len(s) /\ DOMAIN t = 1 .. Len(t)
  OBVIOUS
<1>2. /\ \A i \in DOMAIN s : (s \o t)[i] = s[i]
      /\ \A i \in DOMAIN (s \o t) : i \notin DOMAIN s => i - Len(s) \in DOMAIN t /\ (s \o t)[i] = t[i - Len(s)]
      /\ \A i \in DOMAIN t : i + Len(s) \in DOMAIN (s \o t) /\ (s \o t)[i + Len(s)] = t[i]
  BY <1>1
<1>3. ASSUME Before(s \o t, e, f) PROVE Before2(s, t, e, f)
  <2>1. PICK i \in DOMAIN (s \o t), j \in DOMAIN (s \o t) : i < j /\ (s \o t)[i] = e /\ (s \o t)[j] = f
    BY <1>3 DEF Before
  <2>2. CASE j \in DOMAIN s
    BY <1>1, <1>2, <2>1, <2>2 DEF Before2, Before
  <2>3. CASE i \in DOMAIN s /\ j \notin DOMAIN s
    BY <1>1, <1>2, <2>1, <2>3 DEF Before2, SeqRange
  <2>4. CASE i \notin DOMAIN s /\ j \notin DOMAIN s
    <3>1. /\ i - Len(s) \in DOMAIN t /\ j - Len(s) \in DOMAIN t
          /\ i - Len(s) < j - Len(s) /\ t[i - Len(s)] = e /\ t[j - Len(s)] = f
      BY <1>1, <1>2, <2>1, <2>4
    <3>2. QED
      BY <3>1 DEF Before2, Before
  <2>5. QED
    BY <1>1, <2>1, <2>2, <2>3, <2>4
<1>4. ASSUME Before(s, e, f) PROVE Before(s \o t, e, f)
  BY <1>1, <1>2, <1>4 DEF Before
<1>5. ASSUME e \in SeqRange(s), f \in SeqRange(t) PROVE Before(s \o t, e, f)
  <2>1. PICK i \in DOMAIN s, j \in DOMAIN t : s[i] = e /\ t[j] = f
    BY <1>5 DEF SeqRange
  <2>2. /\ i \in DOMAIN (s \o t) /\ (s \o t)[i] = e
        /\ j + Len(s) \in DOMAIN (s \o t) /\ (s \o t)[j + Len(s)] = f /\ i < j + Len(s)
    BY <1>1, <1>2, <2>1
  <2>3. QED
    BY <2>2 DEF Before
<1>6. ASSUME Before(t, e, f) PROVE Before(s \o t, e, f)
  <2>1. PICK i \in DOMAIN t, j \in DOMAIN t : i < j /\ t[i] = e /\ t[j] = f
    BY <1>6 DEF Before
  <2>2. /\ i + Len(s) \in DOMAIN (s \o t) /\ (s \o t)[i + Len(s)] = e
        /\ j + Len(s) \in DOMAIN (s \o t) /\ (s \o t)[j + Len(s)] = f /\ i + Len(s) < j + Len(s)
    BY <1>1, <1>2, <2>1
  <2>3. QED
    BY <2>2 DEF Before
<1>7. QED
  BY <1>3, <1>4, <1>5, <1>6 DEF Before2

\* Two events one before the other are both in the list.
LEMMA BeforeIn ==
  ASSUME NEW s, NEW e, NEW f, Before(s, e, f)
  PROVE  e \in SeqRange(s) /\ f \in SeqRange(s)
  BY DEF Before, SeqRange

\* An appended event comes after all others.
LEMMA BeforeAppend ==
  ASSUME NEW S, NEW s \in Seq(S), NEW x \in S, NEW e, NEW f
  PROVE  Before(Append(s, x), e, f) <=> Before(s, e, f) \/ (e \in SeqRange(s) /\ f = x)
<1>1. /\ Len(s) \in Nat /\ DOMAIN s = 1 .. Len(s)
      /\ DOMAIN Append(s, x) = 1 .. (Len(s) + 1)
      /\ \A i \in DOMAIN s : Append(s, x)[i] = s[i]
      /\ Append(s, x)[Len(s) + 1] = x
  OBVIOUS
<1>2. ASSUME Before(Append(s, x), e, f) PROVE Before(s, e, f) \/ (e \in SeqRange(s) /\ f = x)
  <2>1. PICK i \in DOMAIN Append(s, x), j \in DOMAIN Append(s, x) :
            i < j /\ Append(s, x)[i] = e /\ Append(s, x)[j] = f
    BY <1>2 DEF Before
  <2>2. CASE j \in DOMAIN s
    BY <1>1, <2>1, <2>2 DEF Before
  <2>3. CASE j = Len(s) + 1
    BY <1>1, <2>1, <2>3 DEF SeqRange
  <2>4. QED
    BY <1>1, <2>1, <2>2, <2>3
<1>3. ASSUME Before(s, e, f) PROVE Before(Append(s, x), e, f)
  BY <1>1, <1>3 DEF Before
<1>4. ASSUME e \in SeqRange(s), f = x PROVE Before(Append(s, x), e, f)
  <2>1. PICK i \in DOMAIN s : s[i] = e
    BY <1>4 DEF SeqRange
  <2>2. /\ i \in DOMAIN Append(s, x) /\ Append(s, x)[i] = e
        /\ Len(s) + 1 \in DOMAIN Append(s, x) /\ i < Len(s) + 1
    BY <1>1, <2>1
  <2>3. QED
    BY <1>1, <1>4, <2>2 DEF Before
<1>5. QED
  BY <1>2, <1>3, <1>4

\* The head comes before all others.
LEMMA BeforeTail ==
  ASSUME NEW S, NEW s \in Seq(S), s # <<>>, NEW e, NEW f
  PROVE  Before(s, e, f) <=> (e = Head(s) /\ f \in SeqRange(Tail(s))) \/ Before(Tail(s), e, f)
<1>1. /\ Len(s) \in Nat /\ Len(s) > 0 /\ DOMAIN s = 1 .. Len(s) /\ DOMAIN Tail(s) = 1 .. (Len(s) - 1)
      /\ Head(s) = s[1]
      /\ \A i \in DOMAIN Tail(s) : Tail(s)[i] = s[i + 1]
  OBVIOUS
<1>2. ASSUME Before(s, e, f) PROVE (e = Head(s) /\ f \in SeqRange(Tail(s))) \/ Before(Tail(s), e, f)
  <2>1. PICK i \in DOMAIN s, j \in DOMAIN s : i < j /\ s[i] = e /\ s[j] = f
    BY <1>2 DEF Before
  <2>2. j - 1 \in DOMAIN Tail(s) /\ Tail(s)[j - 1] = f
    BY <1>1, <2>1
  <2>3. CASE i = 1
    BY <1>1, <2>1, <2>2, <2>3 DEF SeqRange
  <2>4. CASE i # 1
    <3>1. i - 1 \in DOMAIN Tail(s) /\ Tail(s)[i - 1] = e /\ i - 1 < j - 1
      BY <1>1, <2>1, <2>4
    <3>2. QED
      BY <2>2, <3>1 DEF Before
  <2>5. QED
    BY <2>3, <2>4
<1>3. ASSUME e = Head(s), f \in SeqRange(Tail(s)) PROVE Before(s, e, f)
  <2>1. PICK j \in DOMAIN Tail(s) : Tail(s)[j] = f
    BY <1>3 DEF SeqRange
  <2>2. 1 \in DOMAIN s /\ j + 1 \in DOMAIN s /\ 1 < j + 1 /\ s[1] = e /\ s[j + 1] = f
    BY <1>1, <1>3, <2>1
  <2>3. QED
    BY <2>2 DEF Before
<1>4. ASSUME Before(Tail(s), e, f) PROVE Before(s, e, f)
  <2>1. PICK i \in DOMAIN Tail(s), j \in DOMAIN Tail(s) : i < j /\ Tail(s)[i] = e /\ Tail(s)[j] = f
    BY <1>4 DEF Before
  <2>2. i + 1 \in DOMAIN s /\ j + 1 \in DOMAIN s /\ i + 1 < j + 1 /\ s[i + 1] = e /\ s[j + 1] = f
    BY <1>1, <2>1
  <2>3. QED
    BY <2>2 DEF Before
<1>5. QED
  BY <1>2, <1>3, <1>4

\* The pairs of Ahead for local lists lo, queues qu and priorities P: in the
\* form of its definition, and as a relation on the events.
PairsIn(s, p, P) ==
    LET I == {i \in DOMAIN s : P[s[i]] = p} IN
    {<<s[x[1]], s[x[2]]>> : x \in {y \in I \X I : y[1] < y[2]}}

AheadOf(lo, qu, P) == UNION {PairsIn(lo[w] \o qu[w][p], p, P) : w \in Workers, p \in {IDLE, NORM}}

Earlier(lo, qu, P, e, f) ==
    \E w \in Workers, p \in {IDLE, NORM} : P[e] = p /\ P[f] = p /\ Before2(lo[w], qu[w][p], e, f)

\* Ahead is the relation Earlier.
LEMMA AheadPairs ==
  ASSUME NEW lo, NEW qu, NEW P,
         \A w \in Workers : lo[w] \in Seq(Events) /\ \A p \in {IDLE, NORM} : qu[w][p] \in Seq(Events)
  PROVE  AheadOf(lo, qu, P) = {x \in Events \X Events : Earlier(lo, qu, P, x[1], x[2])}
<1>0. \A a, b \in Seq(Events) : a \o b \in Seq(Events) /\ \A i \in DOMAIN (a \o b) : (a \o b)[i] \in Events
  OBVIOUS
<1>1. ASSUME NEW w \in Workers, NEW p \in {IDLE, NORM}
      PROVE  PairsIn(lo[w] \o qu[w][p], p, P)
               = {x \in Events \X Events : P[x[1]] = p /\ P[x[2]] = p /\ Before2(lo[w], qu[w][p], x[1], x[2])}
  <2> DEFINE s == lo[w] \o qu[w][p]
             I == {i \in DOMAIN s : P[s[i]] = p}
             A == {<<s[x[1]], s[x[2]]>> : x \in {y \in I \X I : y[1] < y[2]}}
             B == {x \in Events \X Events : P[x[1]] = p /\ P[x[2]] = p /\ Before(s, x[1], x[2])}
  <2>1. lo[w] \in Seq(Events) /\ qu[w][p] \in Seq(Events)
    OBVIOUS
  <2>1a. s \in Seq(Events) /\ \A i \in DOMAIN s : s[i] \in Events
    BY <1>0, <2>1
  <2>2. B = {x \in Events \X Events : P[x[1]] = p /\ P[x[2]] = p /\ Before2(lo[w], qu[w][p], x[1], x[2])}
    BY <2>1, BeforeConcat
  <2> HIDE DEF s
  <2>3. A \subseteq B
    <3> SUFFICES ASSUME NEW i \in I, NEW j \in I, i < j PROVE <<s[i], s[j]>> \in B
      OBVIOUS
    <3>1. Before(s, s[i], s[j])
      BY DEF Before
    <3>2. QED
      BY <2>1a, <3>1
  <2>4. B \subseteq A
    <3> SUFFICES ASSUME NEW e \in Events, NEW f \in Events, P[e] = p, P[f] = p, Before(s, e, f)
                 PROVE  <<e, f>> \in A
      OBVIOUS
    <3>1. PICK i \in DOMAIN s, j \in DOMAIN s : i < j /\ s[i] = e /\ s[j] = f
      BY DEF Before
    <3>2. <<i, j>> \in {y \in I \X I : y[1] < y[2]}
      BY <3>1
    <3>3. QED
      BY <3>1, <3>2
  <2>5. A = B
    BY <2>3, <2>4
  <2>6. QED
    BY <2>2, <2>5 DEF s, PairsIn
<1>2. ASSUME NEW x \in AheadOf(lo, qu, P)
      PROVE  x \in Events \X Events /\ Earlier(lo, qu, P, x[1], x[2])
  <2>1. PICK w \in Workers, p \in {IDLE, NORM} : x \in PairsIn(lo[w] \o qu[w][p], p, P)
    BY DEF AheadOf
  <2>2. QED
    BY <1>1, <2>1 DEF Earlier
<1>3. ASSUME NEW x \in Events \X Events, Earlier(lo, qu, P, x[1], x[2])
      PROVE  x \in AheadOf(lo, qu, P)
  <2>1. PICK w \in Workers, p \in {IDLE, NORM} : P[x[1]] = p /\ P[x[2]] = p /\ Before2(lo[w], qu[w][p], x[1], x[2])
    BY <1>3 DEF Earlier
  <2>2. x \in PairsIn(lo[w] \o qu[w][p], p, P)
    BY <1>1, <2>1
  <2>3. QED
    BY <2>2 DEF AheadOf
<1>4. QED
  BY <1>2, <1>3

\* The same for the pool, before and after a step.
LEMMA AheadIs ==
  /\ TypeOK => Ahead = {x \in Events \X Events : Earlier(local, queue, priority, x[1], x[2])}
  /\ TypeOK' => Ahead' = {x \in Events \X Events : Earlier(local', queue', priority', x[1], x[2])}
<1>1. IDLE \in Priorities /\ NORM \in Priorities
  BY DEF IDLE, NORM, CRIT, Priorities
<1>2. ASSUME TypeOK PROVE Ahead = {x \in Events \X Events : Earlier(local, queue, priority, x[1], x[2])}
  <2>1. Ahead = AheadOf(local, queue, priority)
    BY DEF Ahead, AheadOf, PairsIn, Line
  <2>2. \A w \in Workers : local[w] \in Seq(Events) /\ \A p \in {IDLE, NORM} : queue[w][p] \in Seq(Events)
    BY <1>1, <1>2 DEF TypeOK, ListTypes, QueueTypes
  <2>3. QED
    BY <2>1, <2>2, AheadPairs
<1>3. ASSUME TypeOK' PROVE Ahead' = {x \in Events \X Events : Earlier(local', queue', priority', x[1], x[2])}
  <2>1. Ahead' = AheadOf(local', queue', priority')
    BY DEF Ahead, AheadOf, PairsIn, Line
  <2>2. \A w \in Workers : local'[w] \in Seq(Events) /\ \A p \in {IDLE, NORM} : queue'[w][p] \in Seq(Events)
    BY <1>1, <1>3 DEF TypeOK, ListTypes, QueueTypes
  <2>3. QED
    BY <2>1, <2>2, AheadPairs
<1>4. QED
  BY <1>2, <1>3

\* What the events before another are worth: both are in the lists.
LEMMA EarlierIn ==
  ASSUME NEW s, NEW t, NEW e, NEW f, Before2(s, t, e, f)
  PROVE  e \in SeqRange(s) \cup SeqRange(t) /\ f \in SeqRange(s) \cup SeqRange(t)
  BY BeforeIn DEF Before2

\* A step that keeps what each worker has accepted, its priorities, and the order
\* of the events of one ordered class is a stuttering step of EventPool.
LEMMA Stutters ==
  ASSUME TypeOK, TypeOK',
         running' = running,
         \A w \in Workers : Accepted(w)' = Accepted(w),
         \A w \in Workers : \A e \in Accepted(w) : priority'[e] = priority[e],
         \A w \in Workers, p \in {IDLE, NORM} : \A e, f \in Events :
            priority[e] = p /\ priority[f] = p =>
               (Before2(local'[w], queue'[w][p], e, f) <=> Before2(local[w], queue[w][p], e, f))
  PROVE  UNCHANGED <<Waiting, Ahead, running>>
<1>0. IDLE \in Priorities /\ NORM \in Priorities
  BY DEF IDLE, NORM, CRIT, Priorities
<1>1. Waiting' = Waiting
  <2>1. \A w \in Workers : {<<e, priority'[e]>> : e \in Accepted(w)'} = {<<e, priority[e]>> : e \in Accepted(w)}
    OBVIOUS
  <2>2. QED
    BY <2>1 DEF Waiting
<1>2. ASSUME NEW e \in Events, NEW f \in Events
      PROVE  Earlier(local', queue', priority', e, f) <=> Earlier(local, queue, priority, e, f)
  <2>1. ASSUME NEW w \in Workers, NEW p \in {IDLE, NORM}, Before2(local[w], queue[w][p], e, f)
        PROVE  priority'[e] = priority[e] /\ priority'[f] = priority[f]
    BY <1>0, <2>1, EarlierIn, AcceptedIs
  <2>2. ASSUME NEW w \in Workers, NEW p \in {IDLE, NORM}, Before2(local'[w], queue'[w][p], e, f)
        PROVE  priority'[e] = priority[e] /\ priority'[f] = priority[f]
    <3>1. e \in Accepted(w)' /\ f \in Accepted(w)'
      BY <1>0, <2>2, EarlierIn DEF Accepted
    <3>2. QED
      BY <3>1
  <2>3. QED
    BY <2>1, <2>2 DEF Earlier
<1>3. Ahead' = Ahead
  BY <1>2, AheadIs
<1>4. QED
  BY <1>1, <1>3

\* A call is a stuttering step: it changes an event the pool does not have.
LEMMA CallStutters ==
  ASSUME TypeOK, TypeOK', OnePlace, NEW t \in Threads, NEW e \in Events,
         Redispatch(t, e) \/ \E k \in Kinds : Dispatch(t, e, k)
  PROVE  UNCHANGED <<Waiting, Ahead, running>>
<1>1. /\ UNCHANGED <<queue, local, running>>
      /\ \A w \in Workers : \A f \in Accepted(w) : priority'[f] = priority[f]
  BY CallPrio, AcceptedIs
<1>2. \A w \in Workers : Accepted(w)' = Accepted(w)
  BY <1>1 DEF Accepted, SeqRange
<1>3. QED
  BY <1>1, <1>2, Stutters

\* A splice is a stuttering step: the events of the queue go behind those of
\* their class, or they are of no ordered class.
LEMMA SpliceStutters ==
  ASSUME TypeOK, TypeOK', QueuePrio, NEW w \in Workers, Splice(w)
  PROVE  UNCHANGED <<Waiting, Ahead, running>>
<1>1. PICK s \in Priorities : s = sec[w]
  BY SpliceLists
<1>2. PICK l \in Seq(Events), q \in Seq(Events) : l = local[w] /\ q = queue[w][s]
  BY <1>1, SpliceLists
<1>3. /\ \A v \in Workers \ {w} : local'[v] = local[v] /\ queue'[v] = queue[v]
      /\ \A p \in Priorities \ {s} : queue'[w][p] = queue[w][p]
      /\ queue'[w][s] = <<>>
      /\ local'[w] = IF s >= HIGH THEN q \o l ELSE l \o q
      /\ priority' = priority /\ running' = running
  BY <1>1, <1>2, SpliceLists
<1>4. \A e \in SeqRange(q) : priority[e] = s
  BY <1>2 DEF QueuePrio
<1>5. SeqRange(local'[w]) = SeqRange(l) \cup SeqRange(q)
  BY <1>3, RangeConcat
<1>6. ASSUME NEW v \in Workers PROVE Accepted(v)' = Accepted(v)
  <2>1. CASE v = w
    <3>1. /\ \A p \in Priorities \ {s} : SeqRange(queue'[w][p]) = SeqRange(queue[w][p])
          /\ SeqRange(queue'[w][s]) = {}
      BY <1>3, RangeEmpty
    <3>2. QED
      BY <1>2, <1>5, <2>1, <3>1 DEF Accepted
  <2>2. CASE v # w
    BY <1>3, <2>2 DEF Accepted, SeqRange
  <2>3. QED
    BY <2>1, <2>2
<1>7. ASSUME NEW v \in Workers, NEW p \in {IDLE, NORM}, NEW e \in Events, NEW f \in Events,
             priority[e] = p, priority[f] = p
      PROVE  Before2(local'[v], queue'[v][p], e, f) <=> Before2(local[v], queue[v][p], e, f)
  <2>1. CASE v # w
    BY <1>3, <2>1
  <2>2. CASE v = w /\ s >= HIGH
    <3>1. p # s /\ p \in Priorities
      BY <2>2 DEF IDLE, NORM, HIGH, CRIT, Priorities
    <3>2. e \notin SeqRange(q) /\ f \notin SeqRange(q)
      BY <1>4, <1>7, <3>1
    <3>3. Before(q \o l, e, f) <=> Before(l, e, f)
      BY <3>2, BeforeConcat, BeforeIn DEF Before2
    <3>4. local'[w] = q \o l /\ queue'[w][p] = queue[w][p]
      BY <1>3, <2>2, <3>1
    <3>5. e \in SeqRange(local'[w]) <=> e \in SeqRange(l)
      BY <1>5, <3>2
    <3>6. QED
      BY <1>2, <2>2, <3>3, <3>4, <3>5 DEF Before2
  <2>3. CASE v = w /\ ~(s >= HIGH) /\ p # s
    <3>1. p \in Priorities
      BY DEF IDLE, NORM, CRIT, Priorities
    <3>2. e \notin SeqRange(q) /\ f \notin SeqRange(q)
      BY <1>4, <1>7, <2>3
    <3>3. Before(l \o q, e, f) <=> Before(l, e, f)
      BY <3>2, BeforeConcat, BeforeIn DEF Before2
    <3>4. local'[w] = l \o q /\ queue'[w][p] = queue[w][p]
      BY <1>3, <2>3, <3>1
    <3>5. e \in SeqRange(local'[w]) <=> e \in SeqRange(l)
      BY <1>5, <3>2
    <3>6. QED
      BY <1>2, <2>3, <3>3, <3>4, <3>5 DEF Before2
  <2>4. CASE v = w /\ ~(s >= HIGH) /\ p = s
    <3>1. Before(l \o q, e, f) <=> Before2(l, q, e, f)
      BY BeforeConcat
    <3>2. local'[w] = l \o q /\ queue'[w][p] = <<>>
      BY <1>3, <2>4
    <3>3. ~Before(<<>>, e, f) /\ SeqRange(<<>>) = {}
      BY BeforeIn, RangeEmpty
    <3>4. QED
      BY <1>2, <2>4, <3>1, <3>2, <3>3 DEF Before2
  <2>5. QED
    BY <2>1, <2>2, <2>3, <2>4
<1>8. QED
  BY <1>3, <1>6, <1>7, Stutters

\* What is waiting for a worker in EventPool.
LEMMA WaitsIs ==
  ASSUME NEW w \in Workers, NEW e
  PROVE  Pool!Waits(w, e) <=> e \in Accepted(w)
<1>1. Waiting[w] = {<<f, priority[f]>> : f \in Accepted(w)}
  BY DEF Waiting
<1>2. ASSUME e \in Accepted(w) PROVE \E x \in Waiting[w] : x[1] = e
  <2>1. <<e, priority[e]>> \in Waiting[w]
    BY <1>1, <1>2
  <2>2. QED
    BY <2>1
<1>3. ASSUME NEW x \in Waiting[w], x[1] = e PROVE e \in Accepted(w)
  BY <1>1, <1>3
<1>4. QED
  BY <1>2, <1>3 DEF Pool!Waits

\* An enqueue is the acceptance of an event.
LEMMA EnqueueSubmits ==
  ASSUME TypeOK, TypeOK', OnePlace, QueuePrio, NEW t \in Threads, Enqueue(t)
  PROVE  Pool!Next
<1>1. PICK e \in Events, v \in Workers, q \in Priorities : e = dev[t] /\ v = dcpu[t] /\ q = priority[e]
  BY EnqueueArgs
<1>2. PICK s \in Seq(Events) : s = queue[v][q]
  BY <1>1, EnqueueLists
<1>3. /\ queue'[v][q] = Append(s, e)
      /\ \A w \in Workers, p \in Priorities : w # v \/ p # q => queue'[w][p] = queue[w][p]
      /\ running' = running /\ local' = local /\ priority' = priority
      /\ SeqRange(queue'[v][q]) = SeqRange(s) \cup {e}
  <2>1. queue'[v][q] = Append(queue[v][q], e)
    <3>1. queue \in [Workers -> [Priorities -> Seq(Events)]]
      BY DEF TypeOK, QueueTypes
    <3>2. queue' = [queue EXCEPT ![v][q] = Append(queue[v][q], e)]
      BY <1>1 DEF Enqueue
    <3>3. QED
      BY <3>1, <3>2
  <2>1a. SeqRange(Append(s, e)) = SeqRange(s) \cup {e}
    BY RangeAppend
  <2>2. /\ \A w \in Workers, p \in Priorities : w # v \/ p # q => queue'[w][p] = queue[w][p]
        /\ UNCHANGED <<running, local, priority>>
    BY <1>1, EnqueueLists
  <2>3. QED
    BY <1>2, <2>1, <2>1a, <2>2
<1>4. \A w \in Workers : e \notin Accepted(w) /\ running[w] # e
  BY <1>1, CalledAlone
<1>5. ~Pool!Held(e)
  BY <1>4, WaitsIs DEF Pool!Held
<1>6. Accepted(v)' = Accepted(v) \cup {e}
  <2>1. \A p \in Priorities \ {q} : SeqRange(queue'[v][p]) = SeqRange(queue[v][p])
    BY <1>3
  <2>2. SeqRange(queue'[v][q]) = SeqRange(queue[v][q]) \cup {e} /\ local' = local
    BY <1>2, <1>3
  <2>3. QED
    BY ONLY <2>1, <2>2, q \in Priorities DEF Accepted
<1>7. \A w \in Workers \ {v} : Accepted(w)' = Accepted(w)
  BY <1>3 DEF Accepted, SeqRange
<1>8. Waiting' = [Waiting EXCEPT ![v] = @ \cup {<<e, q>>}]
  <2>1. {<<f, priority'[f]>> : f \in Accepted(v)'} = {<<f, priority[f]>> : f \in Accepted(v)} \cup {<<e, q>>}
    BY <1>1, <1>3, <1>6
  <2>2. \A w \in Workers \ {v} :
           {<<f, priority'[f]>> : f \in Accepted(w)'} = {<<f, priority[f]>> : f \in Accepted(w)}
    BY <1>3, <1>7
  <2>3. QED
    BY <2>1, <2>2 DEF Waiting
<1>9. \A g : <<g, q>> \in Waiting[v] <=> g \in Accepted(v) /\ priority[g] = q
  BY DEF Waiting
<1>10. \A g \in Accepted(v) : priority[g] = q => g \in SeqRange(local[v]) \cup SeqRange(s)
  BY <1>2, AcceptedIs DEF QueuePrio
<1>10a. \A g \in SeqRange(local[v]) \cup SeqRange(s) : g \in Accepted(v)
  BY <1>2, AcceptedIs
<1>11. ASSUME NEW a \in Events, NEW b \in Events
       PROVE  Earlier(local', queue', priority', a, b) <=>
                 \/ Earlier(local, queue, priority, a, b)
                 \/ b = e /\ q \in {IDLE, NORM} /\ <<a, q>> \in Waiting[v]
  <2>1. ASSUME NEW w \in Workers, NEW p \in {IDLE, NORM}, w # v \/ p # q
        PROVE  Before2(local'[w], queue'[w][p], a, b) <=> Before2(local[w], queue[w][p], a, b)
    <3>1. p \in Priorities
      BY DEF IDLE, NORM, CRIT, Priorities
    <3>2. QED
      BY <1>3, <2>1, <3>1
  <2>2. Before2(local'[v], queue'[v][q], a, b) <=>
           Before2(local[v], s, a, b) \/ (b = e /\ a \in SeqRange(local[v]) \cup SeqRange(s))
    <3>1. Before(Append(s, e), a, b) <=> Before(s, a, b) \/ (a \in SeqRange(s) /\ b = e)
      BY BeforeAppend
    <3>2. QED
      BY <1>3, <3>1 DEF Before2
  <2>3. CASE q \in {IDLE, NORM}
    <3>1. priority[a] = q /\ a \in SeqRange(local[v]) \cup SeqRange(s) <=> <<a, q>> \in Waiting[v]
      BY <1>9, <1>10, <1>10a
    <3>2. QED
      BY <1>1, <1>2, <1>3, <2>1, <2>2, <2>3, <3>1 DEF Earlier
  <2>4. CASE q \notin {IDLE, NORM}
    BY <1>3, <2>1, <2>4 DEF Earlier
  <2>5. QED
    BY <2>3, <2>4
<1>12. Ahead' = Ahead \cup {<<f, e>> : f \in {g \in Events : q \in {IDLE, NORM} /\ <<g, q>> \in Waiting[v]}}
  <2> DEFINE New == {<<f, e>> : f \in {g \in Events : q \in {IDLE, NORM} /\ <<g, q>> \in Waiting[v]}}
  <2>1. New = {x \in Events \X Events : x[2] = e /\ q \in {IDLE, NORM} /\ <<x[1], q>> \in Waiting[v]}
    <3> DEFINE D == {g \in Events : q \in {IDLE, NORM} /\ <<g, q>> \in Waiting[v]}
    <3>1. \A g \in Events : g \in D <=> q \in {IDLE, NORM} /\ <<g, q>> \in Waiting[v]
      OBVIOUS
    <3>2. D \subseteq Events
      OBVIOUS
    <3> HIDE DEF D
    <3>3. {<<f, e>> : f \in D} = {x \in Events \X Events : x[2] = e /\ x[1] \in D}
      BY <3>2
    <3>4. QED
      BY <3>1, <3>3 DEF D
  <2> HIDE DEF New
  <2>2. /\ Ahead = {x \in Events \X Events : Earlier(local, queue, priority, x[1], x[2])}
        /\ Ahead' = {x \in Events \X Events : Earlier(local', queue', priority', x[1], x[2])}
    BY AheadIs
  <2>3. Ahead' = Ahead \cup New
    BY <1>11, <2>1, <2>2
  <2>4. QED
    BY <2>3 DEF New
<1>13. Pool!Submit(v, e, q)
  BY <1>3, <1>5, <1>8, <1>12 DEF Pool!Submit
<1>14. QED
  BY <1>13 DEF Pool!Next

\* Taking the head of the local list starts the event: none is ahead of it.
LEMMA TakeStarts ==
  ASSUME TypeOK, TypeOK', OnePlace, NEW w \in Workers, Take(w)
  PROVE  Pool!Next
<1>1. PICK l \in Seq(Events), e \in Events : l = local[w] /\ e = Head(l)
  BY DEF TypeOK, ListTypes, Take
<1>2. /\ l # <<>>
      /\ running[w] = NoEvent
      /\ \A v \in Workers \ {w} : local'[v] = local[v]
      /\ local'[w] = Tail(l)
      /\ running' = [running EXCEPT ![w] = e]
      /\ UNCHANGED <<queue, priority>>
  BY <1>1 DEF TypeOK, ListTypes, Take, AtList, qvars, evars
<1>3. Once(l)
  BY <1>1 DEF OnePlace
<1>4. /\ SeqRange(l) = {e} \cup SeqRange(local'[w]) /\ e \notin SeqRange(local'[w])
      /\ e \in SeqRange(l)
  BY <1>1, <1>2, <1>3, RangeTail
<1>5. PICK a \in Places : a = <<"local", w, 0>> /\ e \in Content(a)
  BY <1>1, <1>4, PlaceIn, ContentIs
<1>6. ASSUME NEW v \in Workers, NEW p \in Priorities PROVE e \notin SeqRange(queue[v][p])
  <2>1. PICK b \in Places : b = <<"queue", v, p>>
    BY PlaceIn
  <2>2. e \notin Content(b)
    BY <1>5, <2>1, Elsewhere
  <2>3. QED
    BY <2>1, <2>2, ContentIs
<1>7. ASSUME NEW v \in Workers, v # w PROVE e \notin SeqRange(local[v])
  <2>1. PICK b \in Places : b = <<"local", v, 0>>
    BY PlaceIn
  <2>2. e \notin Content(b)
    BY <1>5, <1>7, <2>1, Elsewhere
  <2>3. QED
    BY <2>1, <2>2, ContentIs
<1>8. Accepted(w)' = Accepted(w) \ {e}
  <2>1. SeqRange(local'[w]) = SeqRange(local[w]) \ {e}
    BY <1>1, <1>4
  <2>2. QED
    BY <1>2, <1>6, <2>1 DEF Accepted
<1>9. \A v \in Workers \ {w} : Accepted(v)' = Accepted(v)
  BY <1>2 DEF Accepted, SeqRange
<1>10. Waiting' = [Waiting EXCEPT ![w] = {x \in @ : x[1] # e}]
  <2>1. {<<f, priority'[f]>> : f \in Accepted(w)'} = {x \in {<<f, priority[f]>> : f \in Accepted(w)} : x[1] # e}
    BY <1>2, <1>8
  <2>2. \A v \in Workers \ {w} :
           {<<f, priority'[f]>> : f \in Accepted(v)'} = {<<f, priority[f]>> : f \in Accepted(v)}
    BY <1>2, <1>9
  <2>3. QED
    BY <2>1, <2>2 DEF Waiting
<1>11. Pool!Waits(w, e)
  BY <1>1, <1>4, WaitsIs, AcceptedIs
<1>12. ASSUME NEW v \in Workers, NEW p \in {IDLE, NORM}, NEW f \in Events, NEW g \in Events
       PROVE  /\ Before2(local[v], queue[v][p], f, g) => g # e
              /\ Before2(local'[v], queue'[v][p], f, g) <=> f # e /\ Before2(local[v], queue[v][p], f, g)
  <2>0. p \in Priorities
    BY DEF IDLE, NORM, CRIT, Priorities
  <2>1. CASE v # w
    <3>1. e \notin SeqRange(local[v]) \cup SeqRange(queue[v][p])
      BY <1>6, <1>7, <2>0, <2>1
    <3>2. QED
      BY <1>2, <2>1, <3>1, EarlierIn
  <2>2. CASE v = w
    <3>1. Before(l, f, g) <=> (f = e /\ g \in SeqRange(local'[w])) \/ Before(local'[w], f, g)
      BY <1>1, <1>2, BeforeTail
    <3>2. Before(local'[w], f, g) => f # e /\ g # e
      BY <1>4, BeforeIn
    <3>3. Before(queue[w][p], f, g) => f # e /\ g # e
      BY <1>6, <2>0, BeforeIn
    <3>4. e \notin SeqRange(queue[w][p])
      BY <1>6, <2>0
    <3>5. QED
      BY <1>1, <1>2, <1>4, <2>2, <3>1, <3>2, <3>3, <3>4 DEF Before2
  <2>3. QED
    BY <2>1, <2>2
<1>13. \A f, g \in Events : /\ Earlier(local, queue, priority, f, g) => g # e
                            /\ Earlier(local', queue', priority', f, g) <=>
                                  f # e /\ Earlier(local, queue, priority, f, g)
  BY <1>2, <1>12 DEF Earlier
<1>14. \A x \in Ahead : x[2] # e
  BY <1>13, AheadIs
<1>15. Ahead' = {x \in Ahead : x[1] # e}
  BY <1>13, AheadIs
<1>16. Pool!Start(w, e)
  BY <1>2, <1>10, <1>11, <1>14, <1>15 DEF Pool!Start
<1>17. QED
  BY <1>16 DEF Pool!Next

\* A release hands the event back.
LEMMA ReleaseFinishes ==
  ASSUME TypeOK, NEW w \in Workers, Release(w)
  PROVE  Pool!Next
<1>1. /\ running[w] # NoEvent /\ running' = [running EXCEPT ![w] = NoEvent]
      /\ UNCHANGED <<local, queue, priority>>
  BY DEF TypeOK, ListTypes, Release, qvars, evars
<1>2. \A v \in Workers : Accepted(v)' = Accepted(v)
  BY <1>1 DEF Accepted, SeqRange
<1>3. Waiting' = Waiting
  BY <1>1, <1>2 DEF Waiting
<1>4. Ahead' = Ahead
  BY <1>1 DEF Ahead, Line
<1>5. Pool!Finish(w)
  BY <1>1, <1>3, <1>4 DEF Pool!Finish
<1>6. QED
  BY <1>5 DEF Pool!Next

\* Every step of the pool is a step of EventPool or leaves what it sees unchanged.
LEMMA PoolStep ==
  TypeOK /\ TypeOK' /\ OnePlace /\ QueuePrio /\ [Next]_vars => [Pool!Next]_(Pool!vars)
<1> SUFFICES ASSUME TypeOK, TypeOK', OnePlace, QueuePrio, [Next]_vars
             PROVE  Pool!Next \/ UNCHANGED <<Waiting, Ahead, running>>
  BY DEF Pool!vars
<1>1. ASSUME NEW t \in Threads, Reject(t) PROVE UNCHANGED <<Waiting, Ahead, running>>
  <2>1. UNCHANGED <<local, queue, priority, running>>
    BY <1>1 DEF Reject, wvars, qvars, evars
  <2>2. QED
    BY <2>1 DEF Waiting, Ahead, Line, Accepted, SeqRange
<1>2. CASE UNCHANGED <<free, dev, running, local, queue, priority>>
  BY <1>2 DEF Waiting, Ahead, Line, Accepted, SeqRange
<1>3. QED
  BY <1>1, <1>2, CallStutters, EnqueueSubmits, SpliceStutters, TakeStarts, ReleaseFinishes, Movers

\* The pool starts as EventPool does.
LEMMA PoolInit == Init => Pool!Init
<1> SUFFICES ASSUME Init PROVE Pool!Init
  OBVIOUS
<1>1. \A w \in Workers : Accepted(w) = {}
  BY RangeEmpty, AcceptedIs DEF Init
<1>2. Waiting = [w \in Workers |-> {}]
  BY <1>1 DEF Waiting
<1>3. \A e, f \in Events : ~Earlier(local, queue, priority, e, f)
  <2>1. \A w \in Workers, p \in {IDLE, NORM} : local[w] = <<>> /\ queue[w][p] = <<>>
    BY DEF Init, IDLE, NORM, CRIT, Priorities
  <2>2. QED
    BY <2>1, EarlierIn, RangeEmpty DEF Earlier
<1>4. Ahead = {}
  BY <1>3, AheadIs, TypeInit
<1>5. QED
  BY <1>2, <1>4 DEF Pool!Init, Init

\* The worker pool implements EventPool: an accepted event is run once, by the
\* worker it was accepted for, NORM and IDLE events in the order of acceptance.
THEOREM PoolCorrect == Spec => Implements
<1>1. Init => QueuePrio
  BY RangeEmpty DEF Init, QueuePrio
<1>2. QED
  BY <1>1, TypeCorrect, PlaceCorrect, QueuePrioStep, PoolInit, PoolStep, PTL DEF Spec, Implements, Pool!Spec
=============================================================================
