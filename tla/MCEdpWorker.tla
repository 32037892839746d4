----------------------------- MODULE MCEdpWorker -----------------------------
(****************************************************************************)
(* Instances of EdpWorker for TLC.                                          *)
(****************************************************************************)
EXTENDS EdpWorker, TLC

LOCAL INSTANCE SequencesExt

Kind(t, p) == [type |-> t, priority |-> p]

\* A CRIT event no section above NORM takes, a HIGH event only HIGH takes, a
\* NORM event of the type the tests of the repository use.
KindsMixed == {Kind(0, CRIT), Kind(HIGH, HIGH), Kind(0, NORM)}

\* Traffic of the ratio mechanism: HIGH preempting NORM.
KindsHighNorm == {Kind(HIGH, HIGH), Kind(0, NORM)}

\* One class is enough where the matter is which worker an event goes to.
KindsIdle == {Kind(0, IDLE)}

\* The same, and a priority that is out of range.
KindsRefused == KindsIdle \cup {Kind(0, 7)}

\* Events are interchangeable, and so are clients.
Symmetry == Permutations(Events) \cup Permutations(Clients)

AllThreads == Threads

-----------------------------------------------------------------------------
(* The queues and the local list of a worker are sequences in EdpWorker: the *)
(* operations of list.h they stand for, on all lists of at most four entries.*)

L == INSTANCE ListHead WITH Poison <- 0

ListNodes == 1 .. 6             \* 5 and 6 are the heads, of events and of a queue

Blank == [next |-> [n \in ListNodes |-> n], prev |-> [n \in ListNodes |-> n]]

Filled(l, head, s) == FoldLeft(LAMBDA m, n : L!AddTail(m, n, head), l, s)

\* list_add_tail, list_del, list_splice_init and list_splice_tail_init are the
\* operations on sequences (worker.c:146, 152-155, 208, 338; list.h:89-369).
ASSUME ListsAreSequences ==
    \A q \in SetToAllKPermutations(1 .. 4) : \A k \in 0 .. Len(q) :
        LET s == SubSeq(q, 1, k)
            t == SubSeq(q, k + 1, Len(q))
            l == Filled(Filled(Blank, 5, s), 6, t)
            Holds(m, x, y) == L!Represents(m, 5, x) /\ L!Represents(m, 6, y) IN
        /\ Holds(l, s, t)
        /\ Holds(L!SpliceInit(l, 6, 5), t \o s, <<>>)
        /\ Holds(L!SpliceTailInit(l, 6, 5), s \o t, <<>>)
        /\ s # <<>> => Holds(L!Delete(l, Head(s)), Tail(s), t)
        /\ L!IsEmpty(l, 5) <=> s = <<>>
=============================================================================
