------------------------------ MODULE FdMonitor ------------------------------
(****************************************************************************)
(* What the io monitor of edp.io (eio_addfd and eio_delfd) promises to the  *)
(* socks and servs: a descriptor that is watched reports with the object    *)
(* that was allocated for it, and that object stays allocated until the     *)
(* descriptor is not watched any more.  The hash set the objects are found  *)
(* in and the epoll threads are left to the implementation, EdpEio.         *)
(****************************************************************************)

CONSTANTS Fds,          \* descriptors
          Cookies,      \* the objects whose address an epoll hands back
          NoFd, NoCookie

VARIABLES fdof,         \* fdof[c]: the descriptor c was allocated for, or NoFd
          watch         \* watch[f]: what an epoll hands back for f, or NoCookie

vars == <<fdof, watch>>

Init ==
    /\ fdof = [c \in Cookies |-> NoFd]
    /\ watch = [f \in Fds |-> NoCookie]

\* eio_addfd takes an object for f, then has it watched or gives it back.
Reserve(f, c) ==
    /\ fdof[c] = NoFd
    /\ fdof' = [fdof EXCEPT ![c] = f]
    /\ UNCHANGED watch

Watch(f, c) ==
    /\ fdof[c] = f
    /\ watch[f] = NoCookie
    /\ watch' = [watch EXCEPT ![f] = c]
    /\ UNCHANGED fdof

Refuse(f, c) ==
    /\ fdof[c] = f
    /\ watch[f] # c
    /\ fdof' = [fdof EXCEPT ![c] = NoFd]
    /\ UNCHANGED watch

\* eio_delfd
Unwatch(f) ==
    /\ watch[f] # NoCookie
    /\ fdof' = [fdof EXCEPT ![watch[f]] = NoFd]
    /\ watch' = [watch EXCEPT ![f] = NoCookie]

\* close() ends the watch; the object stays allocated.
Close(f) ==
    /\ watch' = [watch EXCEPT ![f] = NoCookie]
    /\ UNCHANGED fdof

\* An epoll thread has ended: the descriptors F it watched are watched no more.
Fail(F) ==
    /\ watch' = [f \in Fds |-> IF f \in F THEN NoCookie ELSE watch[f]]
    /\ UNCHANGED fdof

Next == \/ \E f \in Fds : \/ \E c \in Cookies : Reserve(f, c) \/ Watch(f, c) \/ Refuse(f, c)
                          \/ Unwatch(f) \/ Close(f)
        \/ \E F \in SUBSET Fds : Fail(F)

Spec == Init /\ [][Next]_vars

\* A watched descriptor reports with an object that is allocated for it.
Sound == \A f \in Fds : watch[f] # NoCookie => fdof[watch[f]] = f
=============================================================================
