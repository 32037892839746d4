------------------------------- MODULE EdpEio -------------------------------
(****************************************************************************)
(* The io monitor of edp.io, posix/eio-epoll.c, with the hash set it keeps  *)
(* its descriptors in, src/hset.c on include/list.h.  Every descriptor has  *)
(* one owner (an edpnet sock or serv) that opens it, calls eio_addfd and    *)
(* eio_delfd and closes it; the owners run on different threads.  hset      *)
(* operations run under iod_lock, which makes each of them one action.  Of  *)
(* an epoll thread (eio_worker_routine) only its end changes state here:    *)
(* the callbacks it makes are part of EdpSock.                              *)
(****************************************************************************)
EXTENDS ListHead, Integers, FiniteSets

CONSTANTS Fds,          \* descriptors, numbers
          Size,         \* hs_size of iod_fds, EPOLL_MAX_EVENTS
          IoNum,        \* iod_num, the epoll threads
          Ioes,         \* eio_event_t objects of iod_evcache
          NoIoe

Buckets == 0 .. (Size - 1)
IoWorkers == 0 .. (IoNum - 1)
Nodes == Buckets \cup Ioes      \* hs_ents[b], and ioe_ent of each object

ASSUME EioAssumption ==
    /\ Fds \subseteq Nat
    /\ Size \in Nat \ {0}
    /\ IoNum \in Nat \ {0}
    /\ Ioes \cap Nat = {}
    /\ IsFiniteSet(Ioes)
    /\ NoIoe \notin Ioes
    /\ Poison \notin Nodes

VARIABLES
    list,       \* the pointers of hs_ents and of the ioe_ent entries
    used,       \* the objects allocated from iod_evcache
    ioe_fd,     \* ioe_fd, and hse_hash
    ioe_worker,
    iod_round,  \* iod_round modulo iod_num
    interest,   \* kernel: interest[w][f], the data.ptr epoll w has for f
    opc,        \* where the owner of descriptor f is
    arg,        \* arg[f]: its variable ioe
    iwk_init    \* iwk_init[w], 0 once the thread has left its loop

ivars == <<used, ioe_fd, ioe_worker, iod_round>>
vars == <<list, ivars, interest, opc, arg, iwk_init>>

None == [f \in Fds |-> NoIoe]

\* After eio_init: hset_create has made every bucket an empty list.
Init ==
    /\ list = [next |-> [n \in Nodes |-> IF n \in Ioes THEN Poison ELSE n],
               prev |-> [n \in Nodes |-> IF n \in Ioes THEN Poison ELSE n]]
    /\ used = {}
    /\ ioe_fd = [i \in Ioes |-> 0]
    /\ ioe_worker = [i \in Ioes |-> 0]
    /\ iod_round = 0
    /\ interest = [w \in IoWorkers |-> None]
    /\ opc = [f \in Fds |-> "closed"]
    /\ arg = None
    /\ iwk_init = [w \in IoWorkers |-> 1]

-----------------------------------------------------------------------------
(* hset *)

Bucket(f) == f % Size

Entries(f) == Walk(list, Bucket(f), Cardinality(Nodes))

\* hset_get: the entry with that hash the walk over its bucket meets.
HsetGet(f) == {i \in Entries(f) : ioe_fd[i] = f}

\* hset_add of a hash that is not there: list_add_tail(lh, &hse->hse_node),
\* the bucket is added to the list of the entry.
HsetAdd(f, i) == AddTail(InitHead(list, i), Bucket(f), i)

\* hset_del: the entry is unlinked when there is one.
HsetDel(f) == IF HsetGet(f) = {} THEN list ELSE Delete(list, CHOOSE i \in HsetGet(f) : TRUE)

-----------------------------------------------------------------------------
(* The owner of a descriptor *)

Goto(f, label) == opc' = [opc EXCEPT ![f] = label]

\* socket() or accept() returns f.
Open(f) ==
    /\ opc[f] = "closed"
    /\ Goto(f, "open")
    /\ UNCHANGED <<list, ivars, interest, arg, iwk_init>>

\* Mutant of AddFd: iod_round is used without the modulo.
AddFdNoModulo(f, i) ==
    /\ opc[f] = "open"
    /\ i \in Ioes \ used
    /\ used' = used \cup {i}
    /\ ioe_fd' = [ioe_fd EXCEPT ![i] = f]
    /\ ioe_worker' = [ioe_worker EXCEPT ![i] = iod_round]
    /\ iod_round' = iod_round + 1
    /\ arg' = [arg EXCEPT ![f] = i]
    /\ Goto(f, "add")
    /\ UNCHANGED <<list, interest, iwk_init>>

\* eio_addfd: worker_lightload, mcache_alloc, the fields of the object.
AddFd(f, i) ==
    /\ opc[f] = "open"
    /\ i \in Ioes \ used
    /\ used' = used \cup {i}
    /\ ioe_fd' = [ioe_fd EXCEPT ![i] = f]
    /\ ioe_worker' = [ioe_worker EXCEPT ![i] = iod_round]
    /\ iod_round' = (iod_round + 1) % IoNum
    /\ arg' = [arg EXCEPT ![f] = i]
    /\ Goto(f, "add")
    /\ UNCHANGED <<list, interest, iwk_init>>

\* mcache_alloc fails: -ENOMEM.
AddNoMem(f) ==
    /\ opc[f] = "open"
    /\ used = Ioes
    /\ iod_round' = (iod_round + 1) % IoNum
    /\ Goto(f, "refused")
    /\ UNCHANGED <<list, used, ioe_fd, ioe_worker, interest, arg, iwk_init>>

\* hset_add finds the hash: -EEXIST, the owner closes the descriptor.
AddExists(f) ==
    /\ opc[f] = "add"
    /\ HsetGet(f) # {}
    /\ used' = used \ {arg[f]}
    /\ arg' = [arg EXCEPT ![f] = NoIoe]
    /\ Goto(f, "refused")
    /\ UNCHANGED <<list, ioe_fd, ioe_worker, iod_round, interest, iwk_init>>

\* Mutant of AddEntry: an entry that is there already is taken for a success.
AddEntryAnyway(f) ==
    /\ opc[f] = "add"
    /\ list' = IF HsetGet(f) = {} THEN HsetAdd(f, arg[f]) ELSE list
    /\ Goto(f, "ctl")
    /\ UNCHANGED <<ivars, interest, arg, iwk_init>>

AddEntry(f) ==
    /\ opc[f] = "add"
    /\ HsetGet(f) = {}
    /\ list' = HsetAdd(f, arg[f])
    /\ Goto(f, "ctl")
    /\ UNCHANGED <<ivars, interest, arg, iwk_init>>

\* epoll_ctl(EPOLL_CTL_ADD)
Watch(f) ==
    /\ opc[f] = "ctl"
    /\ iwk_init[ioe_worker[arg[f]]] = 1
    /\ interest' = [interest EXCEPT ![ioe_worker[arg[f]]][f] = arg[f]]
    /\ arg' = [arg EXCEPT ![f] = NoIoe]
    /\ Goto(f, "watched")
    /\ UNCHANGED <<list, ivars, iwk_init>>

\* Mutant of WatchFails: the entry is not taken out of the set.
WatchFailsKeeps(f) ==
    /\ opc[f] = "ctl"
    /\ used' = used \ {arg[f]}
    /\ arg' = [arg EXCEPT ![f] = NoIoe]
    /\ Goto(f, "refused")
    /\ UNCHANGED <<list, ioe_fd, ioe_worker, iod_round, interest, iwk_init>>

\* It fails: hset_del, mcache_free.
WatchFails(f) ==
    /\ opc[f] = "ctl"
    /\ list' = HsetDel(f)
    /\ used' = used \ {arg[f]}
    /\ arg' = [arg EXCEPT ![f] = NoIoe]
    /\ Goto(f, "refused")
    /\ UNCHANGED <<ioe_fd, ioe_worker, iod_round, interest, iwk_init>>

\* eio_delfd of a watched descriptor: hset_get and hset_del under iod_lock.
DelFd(f) ==
    /\ opc[f] = "watched"
    /\ HsetGet(f) # {}
    /\ list' = HsetDel(f)
    /\ arg' = [arg EXCEPT ![f] = CHOOSE i \in HsetGet(f) : TRUE]
    /\ Goto(f, "del")
    /\ UNCHANGED <<ivars, interest, iwk_init>>

\* "fd:%d not in watch!", -ENOENT
DelFdMissing(f) ==
    /\ opc[f] = "watched"
    /\ HsetGet(f) = {}
    /\ Goto(f, "missing")
    /\ UNCHANGED <<list, ivars, interest, arg, iwk_init>>

\* Mutant of Unwatch: the object is freed, the descriptor stays in the epoll.
UnwatchFreesOnly(f) ==
    LET i == arg[f] IN
    /\ opc[f] = "del"
    /\ interest[ioe_worker[i]][f] # NoIoe
    /\ used' = used \ {i}
    /\ arg' = [arg EXCEPT ![f] = NoIoe]
    /\ Goto(f, "unwatched")
    /\ UNCHANGED <<list, ioe_fd, ioe_worker, iod_round, interest, iwk_init>>

\* epoll_ctl(EPOLL_CTL_DEL) succeeds for a descriptor the epoll has, then the
\* object is freed, whether or not an epoll thread is using it.
Unwatch(f) ==
    LET i == arg[f]
        w == ioe_worker[i] IN
    /\ opc[f] = "del"
    /\ interest[w][f] # NoIoe
    /\ interest' = [interest EXCEPT ![w][f] = NoIoe]
    /\ used' = used \ {i}
    /\ arg' = [arg EXCEPT ![f] = NoIoe]
    /\ Goto(f, "unwatched")
    /\ UNCHANGED <<list, ioe_fd, ioe_worker, iod_round, iwk_init>>

\* It fails when the epoll is closed: -ENOENT, the object stays allocated.
UnwatchFails(f) ==
    /\ opc[f] = "del"
    /\ interest[ioe_worker[arg[f]]][f] = NoIoe
    /\ arg' = [arg EXCEPT ![f] = NoIoe]
    /\ Goto(f, "unwatched")
    /\ UNCHANGED <<list, ivars, interest, iwk_init>>

\* close(): the kernel drops f from every epoll.  A sock is destroyed without
\* eio_delfd, its status is cleared before it is tested.
Close(f) ==
    /\ opc[f] \in {"refused", "watched", "missing", "unwatched"}
    /\ interest' = [w \in IoWorkers |-> [interest[w] EXCEPT ![f] = NoIoe]]
    /\ Goto(f, "closed")
    /\ UNCHANGED <<list, ivars, arg, iwk_init>>

-----------------------------------------------------------------------------
(* eio_worker_routine *)

\* epoll_wait fails (EINTR too): eio_fini_tls closes the epoll.
EpollFails(w) ==
    /\ iwk_init[w] = 1
    /\ iwk_init' = [iwk_init EXCEPT ![w] = 0]
    /\ interest' = [interest EXCEPT ![w] = None]
    /\ UNCHANGED <<list, ivars, opc, arg>>

-----------------------------------------------------------------------------
OwnerStep(f) == \/ Open(f) \/ \E i \in Ioes : AddFd(f, i) \/ AddNoMem(f)
                \/ AddExists(f) \/ AddEntry(f) \/ Watch(f) \/ WatchFails(f)
                \/ DelFd(f) \/ DelFdMissing(f) \/ Unwatch(f) \/ UnwatchFails(f) \/ Close(f)

Next == \/ \E f \in Fds : OwnerStep(f)
        \/ \E w \in IoWorkers : EpollFails(w)

Spec == Init /\ [][Next]_vars

-----------------------------------------------------------------------------
(* Properties *)

\* Types of all variables; an owner has an object exactly within a call.
TypeOK ==
    /\ list \in [next : [Nodes -> Nodes \cup {Poison}], prev : [Nodes -> Nodes \cup {Poison}]]
    /\ used \subseteq Ioes
    /\ ioe_fd \in [Ioes -> Nat]
    /\ ioe_worker \in [Ioes -> IoWorkers]
    /\ iod_round \in IoWorkers
    /\ interest \in [IoWorkers -> [Fds -> Ioes \cup {NoIoe}]]
    /\ opc \in [Fds -> {"closed", "open", "add", "ctl", "refused", "watched",
                         "del", "missing", "unwatched"}]
    /\ arg \in [Fds -> Ioes \cup {NoIoe}]
    /\ \A f \in Fds : arg[f] # NoIoe <=> opc[f] \in {"add", "ctl", "del"}
    /\ iwk_init \in [IoWorkers -> {0, 1}]

\* A walk over a bucket ends and meets only allocated objects of that bucket:
\* hset_add, hset_get and hset_del never follow a pointer into freed memory,
\* whatever entries the swapped arguments of hset.c:117 have cut off.
BucketSound ==
    \A b \in Buckets : /\ WalkEnds(list, b, Cardinality(Nodes))
                       /\ \A i \in Walk(list, b, Cardinality(Nodes)) :
                             i \in used /\ Bucket(ioe_fd[i]) = b

\* eio_delfd takes the object that is registered for the descriptor, not one of
\* an earlier owner of the same number (eio-epoll.c:136-147).
DelOwn ==
    \A f \in Fds : opc[f] = "del" =>
        \E w \in IoWorkers : \/ interest[w][f] = arg[f] /\ ioe_worker[arg[f]] = w
                             \/ iwk_init[w] = 0 /\ ioe_worker[arg[f]] = w

\* What an epoll will hand to its thread as data.ptr is an object that is
\* allocated, of the same descriptor, and the descriptor is open; at most one
\* epoll watches it (eio-epoll.c:97-125, 147-154, 223).
WatchSound ==
    \A w \in IoWorkers, f \in Fds : interest[w][f] # NoIoe =>
        /\ interest[w][f] \in used
        /\ ioe_fd[interest[w][f]] = f
        /\ opc[f] \in {"watched", "del", "missing"}
        /\ \A v \in IoWorkers : interest[v][f] # NoIoe => v = w

\* What an epoll hands to its thread for f.
Handed(f) == LET W == {w \in IoWorkers : interest[w][f] # NoIoe} IN
             IF W = {} THEN NoIoe ELSE interest[CHOOSE w \in W : TRUE][f]

Monitor == INSTANCE FdMonitor WITH
              Cookies <- Ioes, NoFd <- -1, NoCookie <- NoIoe,
              fdof <- [i \in Ioes |-> IF i \in used THEN ioe_fd[i] ELSE -1],
              watch <- [f \in Fds |-> Handed(f)]

\* The monitor implements FdMonitor: eio_delfd frees the object of the
\* descriptor it takes out and no other, whatever the hash set has lost and
\* whichever of its epolls watches (eio-epoll.c:74-157).
Implements == Monitor!Spec

\* eio-epoll.c:138, "fd:%d not in watch!": eio_delfd reports that only for a
\* descriptor no epoll watches.
MissingNotWatched ==
    \A f \in Fds : opc[f] = "missing" => \A w \in IoWorkers : interest[w][f] = NoIoe
=============================================================================
