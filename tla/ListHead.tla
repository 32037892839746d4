------------------------------ MODULE ListHead ------------------------------
(****************************************************************************)
(* The circular doubly linked lists of include/list.h.  A store l holds the *)
(* pointers of all nodes, l.next and l.prev; an operation returns the store *)
(* it leaves, with its assignments in the order of the code.                *)
(****************************************************************************)
EXTENDS Naturals, Sequences

CONSTANT Poison     \* LIST_POISON1, LIST_POISON2: no node

\* INIT_LIST_HEAD: the node is a list of its own.
InitHead(l, n) == [next |-> [l.next EXCEPT ![n] = n], prev |-> [l.prev EXCEPT ![n] = n]]

\* __list_add: new goes between p and n.
Insert(l, new, p, n) ==
    [next |-> [l.next EXCEPT ![new] = n, ![p] = new],
     prev |-> [l.prev EXCEPT ![n] = new, ![new] = p]]

\* list_add: new goes behind head.
Add(l, new, head) == Insert(l, new, head, l.next[head])

\* list_add_tail: new goes in front of head.
AddTail(l, new, head) == Insert(l, new, l.prev[head], head)

\* list_del: the neighbours of n are joined, its pointers are poisoned.
Delete(l, n) ==
    LET p == l.prev[n]
        s == l.next[n] IN
    [next |-> [l.next EXCEPT ![p] = s, ![n] = Poison],
     prev |-> [l.prev EXCEPT ![s] = p, ![n] = Poison]]

\* list_empty
IsEmpty(l, head) == l.next[head] = head

\* __list_splice: the entries of list go between p and n.
Splice(l, list, p, n) ==
    LET first == l.next[list]
        last == l.prev[list] IN
    [next |-> [l.next EXCEPT ![p] = first, ![last] = n],
     prev |-> [l.prev EXCEPT ![first] = p, ![n] = last]]

\* list_splice_init: the entries of list go behind head, list is emptied.
SpliceInit(l, list, head) ==
    IF IsEmpty(l, list) THEN l ELSE InitHead(Splice(l, list, head, l.next[head]), list)

\* list_splice_tail_init: they go in front of head.
SpliceTailInit(l, list, head) ==
    IF IsEmpty(l, list) THEN l ELSE InitHead(Splice(l, list, l.prev[head], head), list)

\* list_for_each_entry from head: the node after k steps, head when it is over.
Steps(l, head, k) ==
    LET f[i \in 0 .. k] == LET n == IF i = 0 THEN head ELSE f[i - 1] IN
                           IF (i > 0 /\ n = head) \/ n = Poison THEN n ELSE l.next[n]
    IN  f

\* The nodes a walk over a store of at most k nodes visits, and that it ends.
Walk(l, head, k) == {Steps(l, head, k)[i] : i \in 0 .. k} \ {head, Poison}

WalkEnds(l, head, k) == Steps(l, head, k)[k] = head

-----------------------------------------------------------------------------
(* What the operations are about: the list of head has the entries of s.    *)

\* The stores over a set of nodes.
Stores(Nodes) == [next : [Nodes -> Nodes \cup {Poison}], prev : [Nodes -> Nodes \cup {Poison}]]

\* The i-th node from head, 0 and Len(s) + 1 being head itself.
Node(head, s, i) == IF i \in 1 .. Len(s) THEN s[i] ELSE head

\* Every entry is in the list once, and the pointers lead from one to the next
\* and back.
Represents(l, head, s) ==
    /\ \A i \in 1 .. Len(s) : s[i] # head
    /\ \A i, j \in 1 .. Len(s) : s[i] = s[j] => i = j
    /\ \A i \in 0 .. Len(s) : /\ l.next[Node(head, s, i)] = Node(head, s, i + 1)
                              /\ l.prev[Node(head, s, i + 1)] = Node(head, s, i)
=============================================================================
