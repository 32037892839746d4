------------------------------ MODULE EventPool ------------------------------
(****************************************************************************)
(* What the worker pool of edp.io promises to the threads that dispatch     *)
(* events to it (__edp_dispatch, src/worker.c): an accepted event is run    *)
(* exactly once, by the worker it was accepted for, and two events of one   *)
(* ordered class (NORM or IDLE) accepted for one worker are started in the  *)
(* order they were accepted.  Queues, wake-ups and priorities between the   *)
(* classes are left to the implementation, EdpWorker.                       *)
(****************************************************************************)

CONSTANTS Workers,      \* the worker threads of the pool
          Events,       \* the edp_event_t objects of the application
          Classes,      \* the scheduling classes (priorities)
          Ordered,      \* the classes served in order of acceptance
          NoEvent       \* "no event"

VARIABLES waiting,      \* waiting[w]: <<event, class>> accepted, not started
          ahead,        \* <<e, f>>: e must be started before f
          running       \* running[w]: the event whose handler w executes

vars == <<waiting, ahead, running>>

Init ==
    /\ waiting = [w \in Workers |-> {}]
    /\ ahead = {}
    /\ running = [w \in Workers |-> NoEvent]

\* Event e waits for worker w; the pool holds e, or else the application owns it.
Waits(w, e) == \E x \in waiting[w] : x[1] = e

Held(e) == \E w \in Workers : running[w] = e \/ Waits(w, e)

\* An event of the application is accepted for worker w in class c.
Submit(w, e, c) ==
    /\ UNCHANGED running
    /\ ~Held(e)
    /\ waiting' = [waiting EXCEPT ![w] = @ \cup {<<e, c>>}]
    /\ ahead' = ahead \cup {<<f, e>> : f \in {g \in Events : c \in Ordered /\ <<g, c>> \in waiting[w]}}

\* Worker w starts the handler of a waiting event that none is ahead of.
Start(w, e) ==
    /\ running[w] = NoEvent
    /\ running' = [running EXCEPT ![w] = e]
    /\ Waits(w, e)
    /\ \A x \in ahead : x[2] # e
    /\ waiting' = [waiting EXCEPT ![w] = {x \in @ : x[1] # e}]
    /\ ahead' = {x \in ahead : x[1] # e}

\* The done callback hands the event back to the application.
Finish(w) ==
    /\ running[w] # NoEvent
    /\ running' = [running EXCEPT ![w] = NoEvent]
    /\ UNCHANGED <<waiting, ahead>>

Next == \E w \in Workers : \/ \E e \in Events, c \in Classes : Submit(w, e, c)
                           \/ \E e \in Events : Start(w, e)
                           \/ Finish(w)

Spec == Init /\ [][Next]_vars
=============================================================================
