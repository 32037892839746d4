---------------------------- MODULE EdpEioProofs ----------------------------
(****************************************************************************)
(* Theorems about EdpEio for every set of descriptors and objects, every    *)
(* size of the hash set and every number of epoll threads.                  *)
(****************************************************************************)
EXTENDS EdpEio, ListHeadProofs, FiniteSetTheorems

\* Bucket b is an empty list, or a list of the entry i alone: hset_add passes
\* its arguments to list_add_tail the wrong way round, so that the bucket leaves
\* the entries it had and joins the list of the new one.
Lone(b) == list.next[b] = b /\ list.prev[b] = b
Ring(b, i) == /\ list.next[b] = i /\ list.prev[b] = i
              /\ list.next[i] = b /\ list.prev[i] = b

RingInv ==
    \A b \in Buckets : Lone(b) \/ \E i \in used : Ring(b, i) /\ Bucket(ioe_fd[i]) = b

\* hset_get finds object i.
Linked(i) == i \in used /\ list.next[Bucket(ioe_fd[i])] = i

\* The object of a call is allocated and the call's own; it is not in the set
\* before hset_add nor after hset_del.
OwnerInv ==
    \A f \in Fds : arg[f] # NoIoe =>
        /\ arg[f] \in used /\ ioe_fd[arg[f]] = f
        /\ opc[f] \in {"add", "del"} => ~Linked(arg[f])

\* Object i is registered for f, unless the epoll it was registered at is closed.
Registered(f, i) ==
    /\ \A w \in IoWorkers : interest[w][f] \in {NoIoe, i}
    /\ interest[ioe_worker[i]][f] = i \/ iwk_init[ioe_worker[i]] = 0

\* An object in the set that has the number of a descriptor that is being watched
\* is the one of that call or registration.
LinkInv ==
    \A f \in Fds, i \in Ioes : Linked(i) /\ ioe_fd[i] = f =>
        /\ opc[f] = "ctl" => i = arg[f]
        /\ opc[f] = "watched" => Registered(f, i)

\* What an epoll has is an allocated object of the descriptor and of the epoll.
WatchInv ==
    /\ \A w \in IoWorkers, f \in Fds : interest[w][f] # NoIoe =>
          /\ interest[w][f] \in used
          /\ ioe_fd[interest[w][f]] = f /\ ioe_worker[interest[w][f]] = w
          /\ opc[f] \in {"watched", "del", "missing"}
          /\ \A v \in IoWorkers : interest[v][f] # NoIoe => v = w
    /\ \A f \in Fds : opc[f] = "del" => Registered(f, arg[f])

IInv == TypeOK /\ RingInv /\ OwnerInv /\ LinkInv /\ WatchInv

-----------------------------------------------------------------------------
(* The hash set. *)

\* The buckets and the objects are different nodes, and a hash has its bucket.
LEMMA NodeFacts ==
  /\ \A b \in Buckets : b \in Nodes /\ b \notin Ioes /\ b # Poison
  /\ \A i \in Ioes : i \in Nodes /\ i \notin Buckets /\ i # Poison /\ i # NoIoe
  /\ \A n \in Nat : Bucket(n) \in Buckets
  /\ \A f \in Fds : f \in Nat
<1>1. \A b \in Buckets : b \in Nat
  BY DEF Buckets
<1>2. \A n \in Nat : Bucket(n) \in Buckets
  BY EioAssumption DEF Buckets, Bucket, EioAssumption
<1>3. QED
  BY <1>1, <1>2, EioAssumption DEF Nodes, EioAssumption

\* The stores of EdpEio are those of ListHead.
LEMMA StoreFacts ==
  ASSUME TypeOK
  PROVE  /\ list \in Stores(Nodes)
         /\ list.next \in [Nodes -> Nodes \cup {Poison}] /\ list.prev \in [Nodes -> Nodes \cup {Poison}]
  BY DEF TypeOK, Stores

\* There is a node, and the number of nodes bounds the walks.
LEMMA NodeCount == ASSUME NEW b \in Buckets PROVE Cardinality(Nodes) \in Nat /\ 1 <= Cardinality(Nodes)
<1>1. IsFiniteSet(Buckets)
  <2>1. 0 \in Int /\ Size - 1 \in Int
    BY EioAssumption DEF EioAssumption
  <2>2. QED
    BY <2>1, FS_Interval DEF Buckets
<1>2. IsFiniteSet(Nodes)
  BY <1>1, EioAssumption, FS_Union DEF Nodes, EioAssumption
<1>3. Cardinality(Nodes) \in Nat /\ Nodes # {}
  BY <1>2, FS_CardinalityType, NodeFacts
<1>4. Cardinality(Nodes) # 0
  BY <1>2, <1>3, FS_EmptySet
<1>5. QED
  BY <1>3, <1>4

\* A walk over a bucket meets its entry, when it has one, and ends.
LEMMA BucketWalk ==
  ASSUME TypeOK, RingInv, NEW b \in Buckets
  PROVE  /\ WalkEnds(list, b, Cardinality(Nodes))
         /\ \A i : i \in Walk(list, b, Cardinality(Nodes)) <=>
                     i \in Ioes /\ Linked(i) /\ Bucket(ioe_fd[i]) = b
<1> DEFINE k == Cardinality(Nodes)
<1>1. b \in Nodes /\ k \in Nat /\ 1 <= k /\ Poison \notin Nodes /\ list \in Stores(Nodes)
  BY NodeFacts, NodeCount, StoreFacts, EioAssumption DEF EioAssumption
<1>2. \A i : i \in used => i \in Ioes /\ i \in Nodes /\ i # b
  BY NodeFacts DEF TypeOK
<1> HIDE DEF k
<1>3. CASE Lone(b)
  <2> DEFINE s == <<>>
  <2>1. s \in Seq(Nodes) /\ Len(s) = 0
    OBVIOUS
  <2>2. Represents(list, b, s)
    BY <1>3, <2>1 DEF Represents, Node, Lone
  <2>3. Walk(list, b, k) = {s[i] : i \in 1 .. Len(s)} /\ WalkEnds(list, b, k)
    <3> HIDE DEF s
    <3>1. Len(s) <= k
      BY <1>1, <2>1
    <3>2. QED
      BY <1>1, <2>1, <2>2, <3>1, WalkCorrect
  <2>4. Walk(list, b, k) = {}
    BY <2>3
  <2>5. \A i : ~(i \in Ioes /\ Linked(i) /\ Bucket(ioe_fd[i]) = b)
    BY <1>2, <1>3 DEF Linked, Lone
  <2>6. QED
    BY <2>3, <2>4, <2>5 DEF k
<1>4. ASSUME NEW j \in used, Ring(b, j), Bucket(ioe_fd[j]) = b
      PROVE  /\ WalkEnds(list, b, k)
             /\ \A i : i \in Walk(list, b, k) <=> i \in Ioes /\ Linked(i) /\ Bucket(ioe_fd[i]) = b
  <2> DEFINE s == <<j>>
  <2>1. s \in Seq(Nodes) /\ Len(s) = 1 /\ s[1] = j
    BY <1>2
  <2>2. Represents(list, b, s)
    <3> HIDE DEF s
    <3>1. Node(b, s, 0) = b /\ Node(b, s, 1) = j /\ Node(b, s, 2) = b
      BY <2>1 DEF Node
    <3>2. \A i \in 1 .. 1 : i = 1
      OBVIOUS
    <3>3. \A i \in 0 .. 1 : i = 0 \/ i = 1
      OBVIOUS
    <3>4. QED
      BY <1>2, <1>4, <2>1, <3>1, <3>2, <3>3 DEF Represents, Ring
  <2>3. Walk(list, b, k) = {s[i] : i \in 1 .. Len(s)} /\ WalkEnds(list, b, k)
    <3> HIDE DEF s
    <3> QED BY <1>1, <2>1, <2>2, WalkCorrect
  <2>4. \A i : i \in Walk(list, b, k) <=> i = j
    <3> HIDE DEF s
    <3>1. 1 \in 1 .. Len(s) /\ \A i \in 1 .. Len(s) : i = 1
      BY <2>1
    <3>2. QED
      BY <2>1, <2>3, <3>1
  <2>5. \A i : (i \in Ioes /\ Linked(i) /\ Bucket(ioe_fd[i]) = b) <=> i = j
    BY <1>2, <1>4 DEF Linked, Ring
  <2>6. QED
    BY <2>3, <2>4, <2>5
<1>5. QED
  BY <1>3, <1>4 DEF RingInv, k

\* hset_get finds the linked object of a descriptor; there is at most one.
LEMMA HsetIs ==
  ASSUME TypeOK, RingInv, NEW f \in Fds
  PROVE  /\ \A i : i \in HsetGet(f) <=> i \in Ioes /\ Linked(i) /\ ioe_fd[i] = f
         /\ \A i, j : i \in HsetGet(f) /\ j \in HsetGet(f) => i = j
<1>1. Bucket(f) \in Buckets
  BY NodeFacts
<1>2. \A i : i \in Entries(f) <=> i \in Ioes /\ Linked(i) /\ Bucket(ioe_fd[i]) = Bucket(f)
  BY <1>1, BucketWalk DEF Entries
<1>3. \A i : i \in HsetGet(f) <=> i \in Ioes /\ Linked(i) /\ ioe_fd[i] = f
  BY <1>2 DEF HsetGet
<1>4. QED
  BY <1>3 DEF Linked

\* What hset_add does to the pointers.
LEMMA AddShape ==
  ASSUME TypeOK, NEW b \in Buckets, NEW i \in Ioes, list' = AddTail(InitHead(list, i), b, i)
  PROVE  /\ list' \in Stores(Nodes)
         /\ list'.next[b] = i /\ list'.prev[b] = i /\ list'.next[i] = b /\ list'.prev[i] = b
         /\ \A n \in Nodes \ {b, i} : list'.next[n] = list.next[n] /\ list'.prev[n] = list.prev[n]
<1> DEFINE l == InitHead(list, i)
<1>1. b \in Nodes /\ i \in Nodes /\ b # i
  BY NodeFacts
<1>2. /\ list.next \in [Nodes -> Nodes \cup {Poison}] /\ list.prev \in [Nodes -> Nodes \cup {Poison}]
  BY StoreFacts
<1>3. /\ l.next = [list.next EXCEPT ![i] = i] /\ l.prev = [list.prev EXCEPT ![i] = i]
  BY DEF InitHead
<1>4. l.prev[i] = i /\ l.next \in [Nodes -> Nodes \cup {Poison}] /\ l.prev \in [Nodes -> Nodes \cup {Poison}]
  BY <1>1, <1>2, <1>3
<1> HIDE DEF l
<1>5. list' = [next |-> [l.next EXCEPT ![b] = i, ![i] = b], prev |-> [l.prev EXCEPT ![i] = b, ![b] = i]]
  BY <1>4 DEF AddTail, Insert, l
<1>6. /\ list'.next = [l.next EXCEPT ![b] = i, ![i] = b]
      /\ list'.prev = [l.prev EXCEPT ![i] = b, ![b] = i]
  BY <1>5
<1>7. /\ list'.next \in [Nodes -> Nodes \cup {Poison}] /\ list'.prev \in [Nodes -> Nodes \cup {Poison}]
      /\ list'.next[b] = i /\ list'.prev[b] = i /\ list'.next[i] = b /\ list'.prev[i] = b
      /\ \A n \in Nodes \ {b, i} : list'.next[n] = list.next[n] /\ list'.prev[n] = list.prev[n]
  BY <1>1, <1>2, <1>3, <1>4, <1>6
<1>8. list' \in Stores(Nodes)
  BY <1>5, <1>6, <1>7 DEF Stores
<1>9. QED
  BY <1>7, <1>8

\* What hset_del of a linked object does to them.
LEMMA DelShape ==
  ASSUME TypeOK, NEW b \in Buckets, NEW i \in Ioes, Ring(b, i), list' = Delete(list, i)
  PROVE  /\ list' \in Stores(Nodes)
         /\ list'.next[b] = b /\ list'.prev[b] = b
         /\ \A n \in Nodes \ {b, i} : list'.next[n] = list.next[n] /\ list'.prev[n] = list.prev[n]
<1>1. b \in Nodes /\ i \in Nodes /\ b # i
  BY NodeFacts
<1>2. /\ list.next \in [Nodes -> Nodes \cup {Poison}] /\ list.prev \in [Nodes -> Nodes \cup {Poison}]
  BY StoreFacts
<1>3. list' = [next |-> [list.next EXCEPT ![b] = b, ![i] = Poison], prev |-> [list.prev EXCEPT ![b] = b, ![i] = Poison]]
  BY DEF Delete, Ring
<1>4. /\ list'.next = [list.next EXCEPT ![b] = b, ![i] = Poison]
      /\ list'.prev = [list.prev EXCEPT ![b] = b, ![i] = Poison]
  BY <1>3
<1>5. /\ list'.next \in [Nodes -> Nodes \cup {Poison}] /\ list'.prev \in [Nodes -> Nodes \cup {Poison}]
      /\ list'.next[b] = b /\ list'.prev[b] = b
      /\ \A n \in Nodes \ {b, i} : list'.next[n] = list.next[n] /\ list'.prev[n] = list.prev[n]
  BY <1>1, <1>2, <1>4
<1>6. list' \in Stores(Nodes)
  BY <1>3, <1>4, <1>5 DEF Stores
<1>7. QED
  BY <1>5, <1>6

-----------------------------------------------------------------------------
(* What the steps do to the set. *)

\* A bucket has itself or an allocated object behind it.
LEMMA BucketNext ==
  ASSUME TypeOK, RingInv, NEW b \in Buckets
  PROVE  list.next[b] = b \/ \E i \in used : list.next[b] = i /\ Ring(b, i) /\ Bucket(ioe_fd[i]) = b
  BY DEF RingInv, Lone, Ring

\* An object that is not in the set is freed.
LEMMA FreeOther ==
  ASSUME TypeOK, RingInv, NEW x \in Ioes, ~Linked(x), UNCHANGED <<list, ioe_fd>>, used' = used \ {x}
  PROVE  RingInv' /\ \A j \in Ioes : Linked(j)' <=> Linked(j)
<1>1. \A j \in Ioes : Linked(j)' <=> Linked(j)
  BY DEF Linked
<1>2. RingInv'
  <2> SUFFICES ASSUME NEW b \in Buckets
               PROVE  Lone(b)' \/ \E i \in used' : Ring(b, i)' /\ Bucket(ioe_fd'[i]) = b
    BY DEF RingInv, Bucket
  <2>1. CASE Lone(b)
    BY <2>1 DEF Lone
  <2>2. ASSUME NEW i \in used, Ring(b, i), Bucket(ioe_fd[i]) = b
        PROVE  i \in used' /\ Ring(b, i)' /\ Bucket(ioe_fd'[i]) = b
    BY <2>2 DEF Linked, Ring
  <2>3. QED
    BY <2>1, <2>2 DEF RingInv
<1>3. QED
  BY <1>1, <1>2

\* An object is allocated.
LEMMA AllocOther ==
  ASSUME TypeOK, RingInv, NEW x \in Ioes, x \notin used, NEW f \in Nat, UNCHANGED list,
         used' = used \cup {x}, ioe_fd' = [ioe_fd EXCEPT ![x] = f]
  PROVE  RingInv' /\ \A j \in Ioes : Linked(j)' <=> Linked(j)
<1>1. ioe_fd'[x] = f /\ \A j \in Ioes \ {x} : ioe_fd'[j] = ioe_fd[j]
  BY DEF TypeOK
<1>2. list.next[Bucket(f)] # x
  BY NodeFacts, BucketNext
<1>3. \A j \in Ioes : Linked(j)' <=> Linked(j)
  <2> TAKE j \in Ioes
  <2>1. CASE j = x
    BY <1>1, <1>2, <2>1 DEF Linked, Bucket
  <2>2. CASE j # x
    BY <1>1, <2>2 DEF Linked, Bucket
  <2>3. QED
    BY <2>1, <2>2
<1>4. RingInv'
  <2> SUFFICES ASSUME NEW b \in Buckets
               PROVE  Lone(b)' \/ \E i \in used' : Ring(b, i)' /\ Bucket(ioe_fd'[i]) = b
    BY DEF RingInv, Bucket
  <2>1. CASE Lone(b)
    BY <2>1 DEF Lone
  <2>2. ASSUME NEW i \in used, Ring(b, i), Bucket(ioe_fd[i]) = b
        PROVE  i \in used' /\ Ring(b, i)' /\ Bucket(ioe_fd'[i]) = b
    <3>1. ioe_fd'[i] = ioe_fd[i]
      BY <1>1 DEF TypeOK
    <3>2. QED
      BY <2>2, <3>1 DEF Ring
  <2>3. QED
    BY <2>1, <2>2 DEF RingInv
<1>5. QED
  BY <1>3, <1>4

\* hset_add: the object is in the set, what its bucket had is cut off.
LEMMA SetAdds ==
  ASSUME TypeOK, RingInv, NEW f \in Fds, NEW i \in used, ioe_fd[i] = f,
         list' = HsetAdd(f, i), UNCHANGED <<used, ioe_fd>>
  PROVE  /\ list' \in Stores(Nodes) /\ RingInv'
         /\ \A j \in Ioes : Linked(j)' <=> j = i \/ (Linked(j) /\ Bucket(ioe_fd[j]) # Bucket(f))
<1>1. PICK b \in Buckets : b = Bucket(f)
  BY NodeFacts
<1>2. i \in Ioes /\ \A j \in Ioes : Bucket(ioe_fd[j]) \in Buckets
  BY NodeFacts DEF TypeOK
<1>3. /\ list' \in Stores(Nodes)
      /\ list'.next[b] = i /\ list'.prev[b] = i /\ list'.next[i] = b /\ list'.prev[i] = b
      /\ \A n \in Nodes \ {b, i} : list'.next[n] = list.next[n] /\ list'.prev[n] = list.prev[n]
  BY <1>1, <1>2, AddShape DEF HsetAdd
<1>4. \A c \in Buckets \ {b} : list'.next[c] = list.next[c] /\ list'.prev[c] = list.prev[c]
  BY <1>2, <1>3, NodeFacts
<1>5. \A j \in Ioes : Linked(j)' <=> j = i \/ (Linked(j) /\ Bucket(ioe_fd[j]) # b)
  <2> TAKE j \in Ioes
  <2>1. Bucket(ioe_fd[j])' = Bucket(ioe_fd[j])
    BY DEF Bucket
  <2>2. CASE Bucket(ioe_fd[j]) = b
    BY <1>1, <1>3, <2>1, <2>2 DEF Linked
  <2>3. CASE Bucket(ioe_fd[j]) # b
    BY <1>1, <1>2, <1>4, <2>1, <2>3 DEF Linked
  <2>4. QED
    BY <2>2, <2>3
<1>6. RingInv'
  <2> SUFFICES ASSUME NEW c \in Buckets
               PROVE  Lone(c)' \/ \E j \in used' : Ring(c, j)' /\ Bucket(ioe_fd'[j]) = c
    BY DEF RingInv, Bucket
  <2>1. CASE c = b
    BY <1>1, <1>3, <2>1 DEF Ring
  <2>2. CASE c # b
    <3>1. CASE Lone(c)
      BY <1>4, <2>2, <3>1 DEF Lone
    <3>2. ASSUME NEW j \in used, Ring(c, j), Bucket(ioe_fd[j]) = c
          PROVE  j \in used' /\ Ring(c, j)' /\ Bucket(ioe_fd'[j]) = c
      <4>1. j # i /\ j # b /\ j \in Nodes
        BY <1>1, <2>2, <3>2, NodeFacts DEF TypeOK
      <4>2. QED
        BY <1>3, <1>4, <2>2, <3>2, <4>1 DEF Ring
    <3>3. QED
      BY <3>1, <3>2 DEF RingInv
  <2>3. QED
    BY <2>1, <2>2
<1>7. QED
  BY <1>1, <1>3, <1>5, <1>6

\* hset_del: the object is no longer in the set, and may be freed.
LEMMA SetDels ==
  ASSUME TypeOK, RingInv, NEW f \in Fds, NEW i \in HsetGet(f),
         list' = HsetDel(f), UNCHANGED ioe_fd, used' = used \/ used' = used \ {i}
  PROVE  /\ list' \in Stores(Nodes) /\ RingInv'
         /\ \A j \in Ioes : Linked(j)' <=> Linked(j) /\ j # i
<1>1. PICK b \in Buckets : b = Bucket(f)
  BY NodeFacts
<1>2. /\ i \in Ioes /\ Linked(i) /\ ioe_fd[i] = f
      /\ \A j \in HsetGet(f) : j = i
  BY HsetIs
<1>3. (CHOOSE j \in HsetGet(f) : TRUE) = i /\ HsetGet(f) # {}
  BY <1>2
<1>4. list' = Delete(list, i)
  BY <1>3 DEF HsetDel
<1>5. Ring(b, i)
  BY <1>1, <1>2, BucketNext, NodeFacts DEF Linked
<1>6. /\ list' \in Stores(Nodes)
      /\ list'.next[b] = b /\ list'.prev[b] = b
      /\ \A n \in Nodes \ {b, i} : list'.next[n] = list.next[n] /\ list'.prev[n] = list.prev[n]
  BY <1>2, <1>4, <1>5, DelShape
<1>7. \A c \in Buckets \ {b} : list'.next[c] = list.next[c] /\ list'.prev[c] = list.prev[c]
  BY <1>2, <1>6, NodeFacts
<1>8. \A j \in Ioes : Linked(j)' <=> Linked(j) /\ j # i
  <2> TAKE j \in Ioes
  <2>1. Bucket(ioe_fd[j])' = Bucket(ioe_fd[j]) /\ Bucket(ioe_fd[j]) \in Buckets
    BY NodeFacts DEF Bucket, TypeOK
  <2>2. CASE Bucket(ioe_fd[j]) = b
    <3>1. ~Linked(j)'
      BY <1>6, <2>1, <2>2, NodeFacts DEF Linked
    <3>2. Linked(j) => j = i
      BY <1>5, <2>2 DEF Linked, Ring
    <3>3. QED
      BY <3>1, <3>2
  <2>3. CASE Bucket(ioe_fd[j]) # b
    <3>1. j # i
      BY <1>1, <1>2, <2>3
    <3>2. list'.next[Bucket(ioe_fd[j])] = list.next[Bucket(ioe_fd[j])]
      BY <1>7, <2>1, <2>3
    <3>3. QED
      BY <2>1, <3>1, <3>2 DEF Linked
  <2>4. QED
    BY <2>2, <2>3
<1>9. RingInv'
  <2> SUFFICES ASSUME NEW c \in Buckets
               PROVE  Lone(c)' \/ \E j \in used' : Ring(c, j)' /\ Bucket(ioe_fd'[j]) = c
    BY DEF RingInv, Bucket
  <2>1. CASE c = b
    BY <1>6, <2>1 DEF Lone
  <2>2. CASE c # b
    <3>1. CASE Lone(c)
      BY <1>7, <2>2, <3>1 DEF Lone
    <3>2. ASSUME NEW j \in used, Ring(c, j), Bucket(ioe_fd[j]) = c
          PROVE  j \in used' /\ Ring(c, j)' /\ Bucket(ioe_fd'[j]) = c
      <4>1. j # i /\ j # b /\ j \in Nodes
        BY <1>1, <1>2, <2>2, <3>2, NodeFacts DEF TypeOK
      <4>2. QED
        BY <1>6, <1>7, <2>2, <3>2, <4>1 DEF Ring
    <3>3. QED
      BY <3>1, <3>2 DEF RingInv
  <2>3. QED
    BY <2>1, <2>2
<1>10. QED
  BY <1>6, <1>8, <1>9

-----------------------------------------------------------------------------
(* IInv is inductive. *)

\* A step of the owner of f leaves the other descriptors, their objects and what
\* the epolls have of them alone.
Elsewhere(f) ==
    /\ \A g \in Fds \ {f} : /\ arg'[g] = arg[g] /\ opc'[g] = opc[g]
                            /\ \A w \in IoWorkers : interest'[w][g] = interest[w][g]
    /\ used \ {arg[f]} \subseteq used'
    /\ \A i \in used : ioe_fd'[i] = ioe_fd[i] /\ ioe_worker'[i] = ioe_worker[i]
    /\ iwk_init' = iwk_init
    /\ \A j \in Ioes : Linked(j)' => Linked(j) \/ j = arg[f]

\* So only f's own part of the invariant has to be shown.
LEMMA OwnerFrame ==
  ASSUME TypeOK, OwnerInv, LinkInv, WatchInv, TypeOK', NEW f \in Fds, Elsewhere(f),
         arg'[f] # NoIoe => /\ arg'[f] \in used' /\ ioe_fd'[arg'[f]] = f
                            /\ opc'[f] \in {"add", "del"} => ~Linked(arg[f])',
         \A i \in Ioes : Linked(i)' /\ ioe_fd'[i] = f =>
            (opc'[f] = "ctl" => i = arg'[f]) /\ (opc'[f] = "watched" => Registered(f, i)'),
         \A w \in IoWorkers : interest'[w][f] # NoIoe =>
            /\ interest'[w][f] \in used'
            /\ ioe_fd'[interest'[w][f]] = f /\ ioe_worker'[interest'[w][f]] = w
            /\ opc'[f] \in {"watched", "del", "missing"}
            /\ \A v \in IoWorkers : interest'[v][f] # NoIoe => v = w,
         opc'[f] = "del" => Registered(f, arg[f])'
  PROVE  OwnerInv' /\ LinkInv' /\ WatchInv'
<1>0. /\ used \subseteq Ioes /\ used' \subseteq Ioes /\ NoIoe \notin Ioes
      /\ arg[f] # NoIoe => arg[f] \in used /\ ioe_fd[arg[f]] = f
  BY EioAssumption DEF EioAssumption, TypeOK, OwnerInv
<1>1. ASSUME NEW g \in Fds \ {f}, arg'[g] # NoIoe
      PROVE  /\ arg'[g] = arg[g] /\ arg[g] \in used /\ arg[g] # arg[f] /\ ioe_fd[arg[g]] = g
             /\ arg'[g] \in used' /\ ioe_fd'[arg'[g]] = g
             /\ opc'[g] \in {"add", "del"} => ~Linked(arg[g])'
  <2>1. arg'[g] = arg[g] /\ opc'[g] = opc[g]
    BY DEF Elsewhere
  <2>2. arg[g] \in used /\ ioe_fd[arg[g]] = g /\ (opc[g] \in {"add", "del"} => ~Linked(arg[g]))
    BY <1>1, <2>1 DEF OwnerInv
  <2>3. arg[g] # arg[f]
    BY <1>0, <2>2
  <2>4. arg[g] \in used' /\ ioe_fd'[arg[g]] = g
    BY <2>2, <2>3 DEF Elsewhere
  <2>5. PICK x \in Ioes : x = arg[g]
    BY <1>0, <2>2
  <2>6. opc'[g] \in {"add", "del"} => ~Linked(x)'
    BY <2>1, <2>2, <2>3, <2>5 DEF Elsewhere
  <2>7. Linked(arg[g])' <=> Linked(x)'
    BY <2>1, <2>5 DEF Linked
  <2>8. QED
    BY <2>1, <2>2, <2>3, <2>4, <2>6, <2>7
<1>2. OwnerInv'
  BY <1>1 DEF OwnerInv
<1>3. ASSUME NEW g \in Fds \ {f}, NEW i \in used, Registered(g, i) PROVE Registered(g, i)'
  BY <1>3 DEF Registered, Elsewhere, TypeOK
<1>4. LinkInv'
  <2> SUFFICES ASSUME NEW g \in Fds \ {f}, NEW i \in Ioes, Linked(i)', ioe_fd'[i] = g
               PROVE  (opc'[g] = "ctl" => i = arg'[g]) /\ (opc'[g] = "watched" => Registered(g, i)')
    BY DEF LinkInv
  <2>1. arg'[g] = arg[g] /\ opc'[g] = opc[g]
    BY DEF Elsewhere
  <2>2. i = arg[f] => ioe_fd'[i] = f
    BY <1>0 DEF Elsewhere
  <2>3. Linked(i) /\ i \in used
    BY <2>2 DEF Elsewhere, Linked
  <2>4. ioe_fd[i] = g
    BY <2>3 DEF Elsewhere
  <2>5. QED
    BY <1>3, <2>1, <2>3, <2>4 DEF LinkInv
<1>5. WatchInv'
  <2>1. ASSUME NEW w \in IoWorkers, NEW g \in Fds \ {f}, interest'[w][g] # NoIoe
        PROVE  /\ interest'[w][g] \in used'
               /\ ioe_fd'[interest'[w][g]] = g /\ ioe_worker'[interest'[w][g]] = w
               /\ opc'[g] \in {"watched", "del", "missing"}
               /\ \A v \in IoWorkers : interest'[v][g] # NoIoe => v = w
    <3>1. /\ \A v \in IoWorkers : interest'[v][g] = interest[v][g]
          /\ opc'[g] = opc[g]
      BY DEF Elsewhere
    <3>2. PICK i : i = interest[w][g]
      OBVIOUS
    <3>3. /\ i \in used /\ ioe_fd[i] = g /\ ioe_worker[i] = w
          /\ opc[g] \in {"watched", "del", "missing"}
          /\ \A v \in IoWorkers : interest[v][g] # NoIoe => v = w
      BY <2>1, <3>1, <3>2 DEF WatchInv
    <3>4. i # arg[f]
      BY <1>0, <3>3
    <3>5. i \in used' /\ ioe_fd'[i] = g /\ ioe_worker'[i] = w
      BY <3>3, <3>4 DEF Elsewhere
    <3>6. QED
      BY <3>1, <3>2, <3>3, <3>5
  <2>2. ASSUME NEW g \in Fds \ {f}, opc'[g] = "del" PROVE Registered(g, arg[g])'
    <3>1. arg'[g] # NoIoe /\ opc[g] = "del"
      BY <2>2 DEF TypeOK, Elsewhere
    <3>2. arg'[g] = arg[g] /\ arg[g] \in used
      BY <1>1, <3>1
    <3>3. PICK x \in used : x = arg[g]
      BY <3>2
    <3>4. Registered(g, x)'
      BY <1>3, <3>1, <3>3 DEF WatchInv
    <3>5. QED
      BY <3>2, <3>3, <3>4 DEF Registered
  <2>3. QED
    BY <2>1, <2>2 DEF WatchInv
<1>6. QED
  BY <1>2, <1>4, <1>5

\* The types after a step that leaves the pointers a store.
LEMMA ListType == ASSUME list' \in Stores(Nodes) PROVE list' \in [next : [Nodes -> Nodes \cup {Poison}], prev : [Nodes -> Nodes \cup {Poison}]]
  BY DEF Stores

\* The next epoll thread is one of them.
LEMMA NextRound == \A r \in IoWorkers : (r + 1) % IoNum \in IoWorkers
  BY EioAssumption DEF EioAssumption, IoWorkers

\* socket(), a failing mcache_alloc, an eio_delfd that finds nothing.
LEMMA QuietOwner ==
  ASSUME IInv, NEW f \in Fds, Open(f) \/ AddNoMem(f) \/ DelFdMissing(f)
  PROVE  IInv'
<1> USE DEF IInv, Goto, ivars
<1>1. /\ UNCHANGED <<list, used, ioe_fd, ioe_worker, interest, arg, iwk_init>>
      /\ arg[f] = NoIoe
      /\ \A g \in Fds \ {f} : opc'[g] = opc[g]
      /\ opc'[f] \in {"open", "refused", "missing"}
      /\ opc'[f] = "missing" => opc[f] = "watched"
      /\ opc'[f] # "missing" => opc[f] \in {"closed", "open"}
  BY DEF Open, AddNoMem, DelFdMissing, TypeOK
<1>2. TypeOK'
  <2>1. iod_round' \in IoWorkers
    BY NextRound DEF Open, AddNoMem, DelFdMissing, TypeOK
  <2>2. QED
    BY <2>1 DEF Open, AddNoMem, DelFdMissing, TypeOK
<1>3. RingInv' /\ \A j \in Ioes : Linked(j)' <=> Linked(j)
  BY <1>1 DEF RingInv, Lone, Ring, Linked, Bucket
<1>4. Elsewhere(f)
  BY <1>1, <1>3 DEF Elsewhere
<1>5. \A w \in IoWorkers : interest'[w][f] # NoIoe =>
         /\ interest'[w][f] \in used'
         /\ ioe_fd'[interest'[w][f]] = f /\ ioe_worker'[interest'[w][f]] = w
         /\ opc'[f] \in {"watched", "del", "missing"}
         /\ \A v \in IoWorkers : interest'[v][f] # NoIoe => v = w
  BY <1>1 DEF WatchInv
<1>6. QED
  BY <1>1, <1>2, <1>3, <1>4, <1>5, OwnerFrame

\* eio_addfd takes an object.
LEMMA AddFdStep == ASSUME IInv, NEW f \in Fds, NEW i \in Ioes, AddFd(f, i) PROVE IInv'
<1> USE DEF IInv, Goto
<1>1. /\ UNCHANGED <<list, interest, iwk_init>>
      /\ arg[f] = NoIoe /\ i \notin used /\ used' = used \cup {i}
      /\ \A g \in Fds \ {f} : opc'[g] = opc[g] /\ arg'[g] = arg[g]
      /\ opc[f] = "open" /\ opc'[f] = "add" /\ arg'[f] = i
      /\ ioe_fd' = [ioe_fd EXCEPT ![i] = f] /\ ioe_fd'[i] = f
      /\ \A j \in used : ioe_fd'[j] = ioe_fd[j] /\ ioe_worker'[j] = ioe_worker[j]
  BY DEF AddFd, TypeOK
<1>2. TypeOK'
  <2>1. iod_round' \in IoWorkers
    BY NextRound DEF AddFd, TypeOK
  <2>2. ioe_worker' \in [Ioes -> IoWorkers] /\ ioe_fd' \in [Ioes -> Nat]
    BY NodeFacts DEF AddFd, TypeOK
  <2>3. QED
    BY <1>1, <2>1, <2>2, NodeFacts DEF AddFd, TypeOK
<1>3. RingInv' /\ \A j \in Ioes : Linked(j)' <=> Linked(j)
  BY <1>1, NodeFacts, AllocOther
<1>4. ~Linked(i)' /\ (Linked(arg[f])' <=> Linked(i)')
  BY <1>1, <1>3 DEF Linked
<1>5. Elsewhere(f)
  BY <1>1, <1>3 DEF Elsewhere
<1>6. \A w \in IoWorkers : interest'[w][f] = NoIoe
  BY <1>1 DEF WatchInv
<1>7. QED
  BY <1>1, <1>2, <1>3, <1>4, <1>5, <1>6, OwnerFrame

\* The hash is there already: the object is given back.
LEMMA AddExistsStep == ASSUME IInv, NEW f \in Fds, AddExists(f) PROVE IInv'
<1> USE DEF IInv, Goto
<1>1. PICK i \in Ioes : i = arg[f]
  BY DEF AddExists, TypeOK
<1>2. /\ UNCHANGED <<list, ioe_fd, ioe_worker, interest, iwk_init>>
      /\ used' = used \ {i} /\ arg'[f] = NoIoe
      /\ \A g \in Fds \ {f} : opc'[g] = opc[g] /\ arg'[g] = arg[g]
      /\ opc[f] = "add" /\ opc'[f] = "refused"
  BY <1>1 DEF AddExists, TypeOK
<1>3. TypeOK'
  BY DEF AddExists, TypeOK
<1>4. RingInv' /\ \A j \in Ioes : Linked(j)' <=> Linked(j)
  <2>1. ~Linked(i)
    BY <1>1, <1>2, NodeFacts DEF OwnerInv
  <2>2. QED
    BY <1>2, <2>1, FreeOther
<1>5. Elsewhere(f)
  BY <1>1, <1>2, <1>4 DEF Elsewhere
<1>6. \A w \in IoWorkers : interest'[w][f] = NoIoe
  BY <1>2 DEF WatchInv
<1>7. QED
  BY <1>2, <1>3, <1>4, <1>5, <1>6, OwnerFrame

\* The object goes into the set.
LEMMA AddEntryStep == ASSUME IInv, NEW f \in Fds, AddEntry(f) PROVE IInv'
<1> USE DEF IInv, Goto, ivars
<1>1. PICK i \in Ioes : i = arg[f] /\ i # NoIoe
  BY NodeFacts DEF AddEntry, TypeOK
<1>2. /\ UNCHANGED <<used, ioe_fd, ioe_worker, interest, arg, iwk_init>>
      /\ list' = HsetAdd(f, i)
      /\ \A g \in Fds \ {f} : opc'[g] = opc[g]
      /\ opc[f] = "add" /\ opc'[f] = "ctl"
      /\ i \in used /\ ioe_fd[i] = f
  BY <1>1 DEF AddEntry, TypeOK, OwnerInv
<1>3. /\ list' \in Stores(Nodes) /\ RingInv'
      /\ \A j \in Ioes : Linked(j)' <=> j = i \/ (Linked(j) /\ Bucket(ioe_fd[j]) # Bucket(f))
  BY <1>2, SetAdds
<1>4. TypeOK'
  BY <1>3, ListType DEF AddEntry, TypeOK
<1>5. Elsewhere(f)
  BY <1>1, <1>2, <1>3 DEF Elsewhere
<1>6. \A w \in IoWorkers : interest'[w][f] = NoIoe
  BY <1>2 DEF WatchInv
<1>7. \A j \in Ioes : Linked(j)' /\ ioe_fd'[j] = f => j = arg'[f]
  BY <1>1, <1>2, <1>3
<1>8. QED
  BY <1>1, <1>2, <1>3, <1>4, <1>5, <1>6, <1>7, OwnerFrame

\* The descriptor is registered.
LEMMA WatchStep == ASSUME IInv, NEW f \in Fds, Watch(f) PROVE IInv'
<1> USE DEF IInv, Goto, ivars
<1>1. PICK i \in Ioes : i = arg[f] /\ i # NoIoe
  BY NodeFacts DEF Watch, TypeOK
<1>2. PICK u \in IoWorkers : u = ioe_worker[i]
  BY DEF TypeOK
<1>3. /\ UNCHANGED <<list, used, ioe_fd, ioe_worker, iod_round, iwk_init>>
      /\ \A g \in Fds \ {f} : opc'[g] = opc[g] /\ arg'[g] = arg[g]
      /\ opc[f] = "ctl" /\ opc'[f] = "watched" /\ arg'[f] = NoIoe
      /\ i \in used /\ ioe_fd[i] = f
      /\ interest' = [interest EXCEPT ![u][f] = i]
  BY <1>1, <1>2 DEF Watch, TypeOK, OwnerInv
<1>4. /\ interest' \in [IoWorkers -> [Fds -> Ioes \cup {NoIoe}]]
      /\ interest'[u][f] = i
      /\ \A w \in IoWorkers, g \in Fds : w # u \/ g # f => interest'[w][g] = interest[w][g]
  BY <1>3 DEF TypeOK
<1>5. TypeOK'
  BY <1>3, <1>4 DEF Watch, TypeOK
<1>6. RingInv' /\ \A j \in Ioes : Linked(j)' <=> Linked(j)
  BY <1>3 DEF RingInv, Lone, Ring, Linked, Bucket
<1>7. Elsewhere(f)
  BY <1>3, <1>4, <1>6 DEF Elsewhere
<1>8. \A w \in IoWorkers : interest[w][f] = NoIoe
  BY <1>3 DEF WatchInv
<1>9. \A w \in IoWorkers : interest'[w][f] # NoIoe =>
         /\ interest'[w][f] \in used'
         /\ ioe_fd'[interest'[w][f]] = f /\ ioe_worker'[interest'[w][f]] = w
         /\ opc'[f] \in {"watched", "del", "missing"}
         /\ \A v \in IoWorkers : interest'[v][f] # NoIoe => v = w
  BY <1>2, <1>3, <1>4, <1>8
<1>10. \A j \in Ioes : Linked(j)' /\ ioe_fd'[j] = f => Registered(f, j)'
  <2> SUFFICES ASSUME NEW j \in Ioes, Linked(j), ioe_fd[j] = f PROVE Registered(f, j)'
    BY <1>3, <1>6
  <2>1. j = i
    BY <1>1, <1>3 DEF LinkInv
  <2>2. QED
    BY <1>2, <1>3, <1>4, <1>8, <2>1 DEF Registered
<1>11. QED
  BY <1>3, <1>5, <1>6, <1>7, <1>9, <1>10, OwnerFrame

\* The registration fails: the object of the call is taken out of the set, when
\* it is still there, and given back.
LEMMA WatchFailsStep == ASSUME IInv, NEW f \in Fds, WatchFails(f) PROVE IInv'
<1> USE DEF IInv, Goto
<1>1. PICK i \in Ioes : i = arg[f] /\ i # NoIoe
  BY NodeFacts DEF WatchFails, TypeOK
<1>2. /\ UNCHANGED <<ioe_fd, ioe_worker, iod_round, interest, iwk_init>>
      /\ list' = HsetDel(f) /\ used' = used \ {i} /\ arg'[f] = NoIoe
      /\ \A g \in Fds \ {f} : opc'[g] = opc[g] /\ arg'[g] = arg[g]
      /\ opc[f] = "ctl" /\ opc'[f] = "refused"
      /\ i \in used /\ ioe_fd[i] = f
  BY <1>1 DEF WatchFails, TypeOK, OwnerInv
<1>3. list' \in Stores(Nodes) /\ RingInv' /\ \A j \in Ioes : Linked(j)' => Linked(j)
  <2>1. CASE HsetGet(f) = {}
    <3>1. ~Linked(i) /\ list' = list
      BY <1>2, <2>1, HsetIs DEF HsetDel
    <3>2. QED
      BY <1>2, <3>1, FreeOther, StoreFacts
  <2>2. ASSUME NEW j \in HsetGet(f) PROVE list' \in Stores(Nodes) /\ RingInv' /\ \A x \in Ioes : Linked(x)' => Linked(x)
    <3>1. j = i
      BY <1>1, <1>2, HsetIs DEF LinkInv
    <3>2. QED
      BY <1>2, <3>1, SetDels
  <2>3. QED
    BY <2>1, <2>2
<1>4. TypeOK'
  BY <1>3, ListType DEF WatchFails, TypeOK
<1>5. Elsewhere(f)
  BY <1>1, <1>2, <1>3 DEF Elsewhere
<1>6. \A w \in IoWorkers : interest'[w][f] = NoIoe
  BY <1>2 DEF WatchInv
<1>7. QED
  BY <1>2, <1>3, <1>4, <1>5, <1>6, OwnerFrame

\* eio_delfd takes the object out of the set.
LEMMA DelFdStep == ASSUME IInv, NEW f \in Fds, DelFd(f) PROVE IInv'
<1> USE DEF IInv, Goto, ivars
<1>1. PICK i \in HsetGet(f) : TRUE
  BY DEF DelFd
<1>2. /\ i \in Ioes /\ Linked(i) /\ i \in used /\ ioe_fd[i] = f /\ i # NoIoe
      /\ \A j \in HsetGet(f) : j = i
  BY HsetIs, NodeFacts DEF Linked
<1>3. /\ UNCHANGED <<used, ioe_fd, ioe_worker, iod_round, interest, iwk_init>>
      /\ list' = HsetDel(f) /\ arg[f] = NoIoe
      /\ arg' = [arg EXCEPT ![f] = i] /\ opc' = [opc EXCEPT ![f] = "del"]
      /\ opc[f] = "watched"
  BY <1>1, <1>2 DEF DelFd, TypeOK
<1>4. list' \in Stores(Nodes) /\ RingInv' /\ \A j \in Ioes : Linked(j)' <=> Linked(j) /\ j # i
  BY <1>1, <1>3, SetDels
<1>5. TypeOK'
  BY <1>2, <1>3, <1>4, ListType DEF TypeOK
<1>6. /\ arg'[f] = i /\ opc'[f] = "del"
      /\ \A g \in Fds \ {f} : opc'[g] = opc[g] /\ arg'[g] = arg[g]
  BY <1>3 DEF TypeOK
<1>7. Elsewhere(f)
  BY <1>3, <1>4, <1>6 DEF Elsewhere
<1>8. Registered(f, arg[f])'
  <2>1. Registered(f, i)
    BY <1>2, <1>3 DEF LinkInv
  <2>2. QED
    BY <1>3, <1>6, <2>1 DEF Registered
<1>9. ~Linked(arg[f])'
  BY <1>2, <1>4, <1>6 DEF Linked
<1>10. \A w \in IoWorkers : interest'[w][f] # NoIoe =>
         /\ interest'[w][f] \in used'
         /\ ioe_fd'[interest'[w][f]] = f /\ ioe_worker'[interest'[w][f]] = w
         /\ opc'[f] \in {"watched", "del", "missing"}
         /\ \A v \in IoWorkers : interest'[v][f] # NoIoe => v = w
  BY <1>3, <1>6 DEF WatchInv
<1>11. QED
  BY <1>2, <1>3, <1>4, <1>5, <1>6, <1>7, <1>8, <1>9, <1>10, OwnerFrame

\* The descriptor leaves its epoll, the object is freed.
LEMMA UnwatchStep == ASSUME IInv, NEW f \in Fds, Unwatch(f) PROVE IInv'
<1> USE DEF IInv, Goto
<1>1. PICK i \in Ioes : i = arg[f] /\ i # NoIoe
  BY NodeFacts DEF Unwatch, TypeOK
<1>2. PICK u \in IoWorkers : u = ioe_worker[i]
  BY DEF TypeOK
<1>3. /\ UNCHANGED <<list, ioe_fd, ioe_worker, iod_round, iwk_init>>
      /\ used' = used \ {i}
      /\ \A g \in Fds \ {f} : opc'[g] = opc[g] /\ arg'[g] = arg[g]
      /\ opc[f] = "del" /\ opc'[f] = "unwatched" /\ arg'[f] = NoIoe
      /\ interest[u][f] # NoIoe
      /\ interest' = [interest EXCEPT ![u][f] = NoIoe]
  BY <1>1, <1>2 DEF Unwatch, TypeOK
<1>4. /\ interest' \in [IoWorkers -> [Fds -> Ioes \cup {NoIoe}]]
      /\ interest'[u][f] = NoIoe
      /\ \A w \in IoWorkers, g \in Fds : w # u \/ g # f => interest'[w][g] = interest[w][g]
  BY <1>3 DEF TypeOK
<1>5. TypeOK'
  BY <1>3, <1>4 DEF Unwatch, TypeOK
<1>6. RingInv' /\ \A j \in Ioes : Linked(j)' <=> Linked(j)
  <2>1. ~Linked(i)
    BY <1>1, <1>3 DEF OwnerInv
  <2>2. QED
    BY <1>3, <2>1, FreeOther
<1>7. Elsewhere(f)
  BY <1>1, <1>3, <1>4, <1>6 DEF Elsewhere
<1>8. \A w \in IoWorkers : interest'[w][f] = NoIoe
  BY <1>3, <1>4 DEF WatchInv
<1>9. QED
  BY <1>3, <1>5, <1>6, <1>7, <1>8, OwnerFrame

\* The epoll is closed: the call returns, the object stays allocated.
LEMMA UnwatchFailsStep == ASSUME IInv, NEW f \in Fds, UnwatchFails(f) PROVE IInv'
<1> USE DEF IInv, Goto, ivars
<1>1. PICK i \in Ioes : i = arg[f] /\ i # NoIoe
  BY NodeFacts DEF UnwatchFails, TypeOK
<1>2. /\ UNCHANGED <<list, used, ioe_fd, ioe_worker, iod_round, interest, iwk_init>>
      /\ \A g \in Fds \ {f} : opc'[g] = opc[g] /\ arg'[g] = arg[g]
      /\ opc[f] = "del" /\ opc'[f] = "unwatched" /\ arg'[f] = NoIoe
      /\ interest[ioe_worker[i]][f] = NoIoe
  BY <1>1 DEF UnwatchFails, TypeOK
<1>3. TypeOK'
  BY <1>2 DEF UnwatchFails, TypeOK
<1>4. RingInv' /\ \A j \in Ioes : Linked(j)' <=> Linked(j)
  BY <1>2 DEF RingInv, Lone, Ring, Linked, Bucket
<1>5. Elsewhere(f)
  BY <1>2, <1>4 DEF Elsewhere
<1>6. \A w \in IoWorkers : interest[w][f] = NoIoe
  <2> SUFFICES ASSUME NEW w \in IoWorkers, interest[w][f] # NoIoe PROVE FALSE
    OBVIOUS
  <2>1. interest[w][f] = i /\ ioe_worker[interest[w][f]] = w
    BY <1>1, <1>2 DEF WatchInv, Registered
  <2>2. QED
    BY <1>2, <2>1
<1>7. QED
  BY <1>2, <1>3, <1>4, <1>5, <1>6, OwnerFrame

\* close() drops the descriptor from every epoll.
LEMMA CloseStep == ASSUME IInv, NEW f \in Fds, Close(f) PROVE IInv'
<1> USE DEF IInv, Goto, ivars
<1>1. /\ UNCHANGED <<list, used, ioe_fd, ioe_worker, iod_round, arg, iwk_init>>
      /\ \A g \in Fds \ {f} : opc'[g] = opc[g]
      /\ opc[f] \in {"refused", "watched", "missing", "unwatched"} /\ opc'[f] = "closed"
      /\ arg[f] = NoIoe
      /\ interest' = [w \in IoWorkers |-> [interest[w] EXCEPT ![f] = NoIoe]]
  BY DEF Close, TypeOK
<1>2. /\ interest' \in [IoWorkers -> [Fds -> Ioes \cup {NoIoe}]]
      /\ \A w \in IoWorkers : interest'[w][f] = NoIoe
      /\ \A w \in IoWorkers, g \in Fds \ {f} : interest'[w][g] = interest[w][g]
  BY <1>1 DEF TypeOK
<1>3. TypeOK'
  BY <1>1, <1>2 DEF Close, TypeOK
<1>4. RingInv' /\ \A j \in Ioes : Linked(j)' <=> Linked(j)
  BY <1>1 DEF RingInv, Lone, Ring, Linked, Bucket
<1>5. Elsewhere(f)
  BY <1>1, <1>2, <1>4 DEF Elsewhere
<1>6. QED
  BY <1>1, <1>2, <1>3, <1>4, <1>5, OwnerFrame

\* An epoll is closed with its thread.
LEMMA FailStep == ASSUME IInv, NEW w \in IoWorkers, EpollFails(w) PROVE IInv'
<1> USE DEF IInv, ivars
<1>1. /\ UNCHANGED <<list, used, ioe_fd, ioe_worker, iod_round, opc, arg>>
      /\ iwk_init' = [iwk_init EXCEPT ![w] = 0]
      /\ interest' = [interest EXCEPT ![w] = None]
  BY DEF EpollFails
<1>2. /\ interest' \in [IoWorkers -> [Fds -> Ioes \cup {NoIoe}]]
      /\ \A g \in Fds : interest'[w][g] = NoIoe
      /\ \A v \in IoWorkers \ {w} : interest'[v] = interest[v] /\ iwk_init'[v] = iwk_init[v]
      /\ iwk_init'[w] = 0 /\ iwk_init' \in [IoWorkers -> {0, 1}]
  BY <1>1 DEF TypeOK, None
<1>3. TypeOK'
  BY <1>1, <1>2 DEF TypeOK
<1>4. RingInv' /\ \A j \in Ioes : Linked(j)' <=> Linked(j)
  BY <1>1 DEF RingInv, Lone, Ring, Linked, Bucket
<1>5. OwnerInv'
  <2> SUFFICES ASSUME NEW f \in Fds, arg[f] # NoIoe
               PROVE  /\ arg[f] \in used /\ ioe_fd[arg[f]] = f
                      /\ opc[f] \in {"add", "del"} => ~Linked(arg[f])'
    BY <1>1 DEF OwnerInv
  <2>1. arg[f] \in Ioes
    BY DEF TypeOK
  <2>2. Linked(arg[f])' <=> Linked(arg[f])
    BY <1>1 DEF Linked, Bucket
  <2>3. QED
    BY <2>2 DEF OwnerInv
<1>6. \A f \in Fds, i \in Ioes : Registered(f, i) => Registered(f, i)'
  <2> TAKE f \in Fds, i \in Ioes
  <2> HAVE Registered(f, i)
  <2>1. \A v \in IoWorkers : interest'[v][f] \in {NoIoe, i}
    BY <1>2 DEF Registered
  <2>2. ioe_worker'[i] = ioe_worker[i] /\ ioe_worker[i] \in IoWorkers
    BY <1>1 DEF TypeOK
  <2>3. interest'[ioe_worker[i]][f] = i \/ iwk_init'[ioe_worker[i]] = 0
    BY <1>2, <2>2 DEF Registered
  <2>4. QED
    BY <2>1, <2>2, <2>3 DEF Registered
<1>7. LinkInv'
  BY <1>1, <1>4, <1>6 DEF LinkInv
<1>8. WatchInv'
  <2>1. \A v \in IoWorkers, f \in Fds : interest'[v][f] # NoIoe => v # w /\ interest'[v][f] = interest[v][f]
    BY <1>2
  <2>2. \A f \in Fds : opc[f] = "del" => Registered(f, arg[f])'
    <3> SUFFICES ASSUME NEW f \in Fds, opc[f] = "del" PROVE Registered(f, arg[f])'
      OBVIOUS
    <3>1. PICK i \in Ioes : i = arg[f]
      BY DEF TypeOK
    <3>2. Registered(f, i)'
      BY <1>6, <3>1 DEF WatchInv
    <3>3. QED
      BY <1>1, <3>1, <3>2 DEF Registered
  <2>3. QED
    BY <1>1, <2>1, <2>2 DEF WatchInv
<1>9. QED
  BY <1>3, <1>4, <1>5, <1>7, <1>8

\* The initial state has the invariant.
LEMMA IInvInit == Init => IInv
<1> SUFFICES ASSUME Init PROVE IInv
  OBVIOUS
<1>1. /\ list.next = [n \in Nodes |-> IF n \in Ioes THEN Poison ELSE n]
      /\ list.prev = [n \in Nodes |-> IF n \in Ioes THEN Poison ELSE n]
      /\ used = {} /\ arg = None /\ \A f \in Fds : opc[f] = "closed"
      /\ \A w \in IoWorkers, f \in Fds : interest[w][f] = NoIoe
  BY DEF Init, None
<1>2. 0 \in IoWorkers
  BY EioAssumption DEF EioAssumption, IoWorkers
<1>3. TypeOK
  BY <1>2 DEF Init, TypeOK, None
<1>4. RingInv
  BY <1>1, NodeFacts DEF RingInv, Lone
<1>5. OwnerInv /\ LinkInv /\ WatchInv
  BY <1>1 DEF OwnerInv, LinkInv, WatchInv, Linked, None
<1>6. QED
  BY <1>3, <1>4, <1>5 DEF IInv

\* IInv is inductive.
LEMMA IInvStep == IInv /\ [Next]_vars => IInv'
<1>1. ASSUME IInv, UNCHANGED vars PROVE IInv'
  BY <1>1 DEF IInv, vars, ivars, TypeOK, RingInv, Lone, Ring, OwnerInv, LinkInv, WatchInv, Linked, Registered, Bucket
<1>2. ASSUME IInv, NEW f \in Fds, OwnerStep(f) PROVE IInv'
  BY <1>2, QuietOwner, AddFdStep, AddExistsStep, AddEntryStep, WatchStep, WatchFailsStep,
     DelFdStep, UnwatchStep, UnwatchFailsStep, CloseStep DEF OwnerStep
<1>3. QED
  BY <1>1, <1>2, FailStep DEF Next

\* The inductive invariant of the io monitor.
LEMMA IInvCorrect == Spec => []IInv
  BY IInvInit, IInvStep, PTL DEF Spec

\* Every variable keeps its type; an owner has an object exactly within a call.
THEOREM TypeCorrect == Spec => []TypeOK
<1>1. IInv => TypeOK
  BY DEF IInv
<1>2. QED
  BY <1>1, IInvCorrect, PTL

\* hset_add, hset_get and hset_del never follow a pointer into freed memory and
\* their walks end, although hset_add cuts off the entries a bucket had.
THEOREM BucketCorrect == Spec => []BucketSound
<1>1. IInv => BucketSound
  BY BucketWalk DEF IInv, BucketSound, Linked
<1>2. QED
  BY <1>1, IInvCorrect, PTL

\* eio_delfd takes the object that is registered for the descriptor.
THEOREM DelCorrect == Spec => []DelOwn
<1>1. IInv => DelOwn
  <2> SUFFICES ASSUME IInv, NEW f \in Fds, opc[f] = "del"
               PROVE  \E w \in IoWorkers : \/ interest[w][f] = arg[f] /\ ioe_worker[arg[f]] = w
                                           \/ iwk_init[w] = 0 /\ ioe_worker[arg[f]] = w
    BY DEF DelOwn
  <2>1. arg[f] \in Ioes /\ ioe_worker[arg[f]] \in IoWorkers
    BY DEF IInv, TypeOK
  <2>2. QED
    BY <2>1 DEF IInv, WatchInv, Registered
<1>2. QED
  BY <1>1, IInvCorrect, PTL

\* What an epoll hands to its thread is an allocated object of an open descriptor
\* that no other epoll watches.
THEOREM WatchCorrect == Spec => []WatchSound
<1>1. IInv => WatchSound
  BY DEF IInv, WatchInv, WatchSound
<1>2. QED
  BY <1>1, IInvCorrect, PTL

-----------------------------------------------------------------------------
(* The refinement of FdMonitor. *)

\* The variables of FdMonitor.
Fdof == [i \in Ioes |-> IF i \in used THEN ioe_fd[i] ELSE -1]
WatchMap == [f \in Fds |-> Handed(f)]

\* What an epoll hands to its thread is what the one epoll that watches has.
LEMMA HandedIs ==
  ASSUME WatchInv, NEW f \in Fds
  PROVE  /\ \A w \in IoWorkers : interest[w][f] # NoIoe => Handed(f) = interest[w][f]
         /\ (\A w \in IoWorkers : interest[w][f] = NoIoe) => Handed(f) = NoIoe
<1> DEFINE W == {w \in IoWorkers : interest[w][f] # NoIoe}
<1>1. \A v, w \in W : v = w
  BY DEF WatchInv
<1>2. Handed(f) = IF W = {} THEN NoIoe ELSE interest[CHOOSE w \in W : TRUE][f]
  BY DEF Handed
<1>3. QED
  BY <1>1, <1>2

\* The same after a step.
LEMMA HandedIsNext ==
  ASSUME WatchInv', NEW f \in Fds
  PROVE  /\ \A w \in IoWorkers : interest'[w][f] # NoIoe => Handed(f)' = interest'[w][f]
         /\ (\A w \in IoWorkers : interest'[w][f] = NoIoe) => Handed(f)' = NoIoe
<1> DEFINE W == {w \in IoWorkers : interest'[w][f] # NoIoe}
<1>1. \A v, w \in W : v = w
  BY DEF WatchInv
<1>2. Handed(f)' = IF W = {} THEN NoIoe ELSE interest'[CHOOSE w \in W : TRUE][f]
  BY DEF Handed
<1>3. QED
  BY <1>1, <1>2

\* A descriptor whose registrations do not change.
LEMMA HandedSame ==
  ASSUME NEW f \in Fds, \A w \in IoWorkers : interest'[w][f] = interest[w][f]
  PROVE  Handed(f)' = Handed(f)
<1>1. {w \in IoWorkers : interest'[w][f] # NoIoe} = {w \in IoWorkers : interest[w][f] # NoIoe}
  OBVIOUS
<1> DEFINE W == {w \in IoWorkers : interest[w][f] # NoIoe}
<1>2. W # {} => (CHOOSE w \in W : TRUE) \in IoWorkers
  OBVIOUS
<1>3. Handed(f) = IF W = {} THEN NoIoe ELSE interest[CHOOSE w \in W : TRUE][f]
  BY DEF Handed
<1>4. Handed(f)' = IF W = {} THEN NoIoe ELSE interest'[CHOOSE w \in W : TRUE][f]
  BY <1>1 DEF Handed
<1>5. QED
  BY <1>2, <1>3, <1>4

\* The steps of FdMonitor on an object, over Fdof and WatchMap.
LEMMA MonitorSteps ==
  ASSUME NEW f \in Fds, NEW c \in Ioes
  PROVE  /\ Fdof[c] = -1 /\ Fdof' = [Fdof EXCEPT ![c] = f] /\ WatchMap' = WatchMap => Monitor!Reserve(f, c)
         /\ Fdof[c] = f /\ WatchMap[f] = NoIoe /\ WatchMap' = [WatchMap EXCEPT ![f] = c] /\ Fdof' = Fdof
               => Monitor!Watch(f, c)
         /\ Fdof[c] = f /\ WatchMap[f] # c /\ Fdof' = [Fdof EXCEPT ![c] = -1] /\ WatchMap' = WatchMap
               => Monitor!Refuse(f, c)
         /\ WatchMap[f] # NoIoe /\ Fdof' = [Fdof EXCEPT ![WatchMap[f]] = -1]
               /\ WatchMap' = [WatchMap EXCEPT ![f] = NoIoe] => Monitor!Unwatch(f)
  BY DEF Fdof, WatchMap, Monitor!Reserve, Monitor!Watch, Monitor!Refuse, Monitor!Unwatch

\* An object that changes hands.
LEMMA FdofMoves ==
  ASSUME TypeOK, NEW c \in Ioes
  PROVE  /\ UNCHANGED <<used, ioe_fd>> => Fdof' = Fdof
         /\ \A f \in Fds : used' = used \cup {c} /\ ioe_fd' = [ioe_fd EXCEPT ![c] = f]
               => Fdof' = [Fdof EXCEPT ![c] = f]
         /\ used' = used \ {c} /\ ioe_fd' = ioe_fd => Fdof' = [Fdof EXCEPT ![c] = -1]
  BY DEF TypeOK, Fdof

\* The map after a step that changes what is handed out for f alone.
LEMMA WatchMoves ==
  ASSUME NEW f \in Fds, \A g \in Fds \ {f} : Handed(g)' = Handed(g)
  PROVE  WatchMap' = [WatchMap EXCEPT ![f] = Handed(f)']
  BY DEF WatchMap

\* Every step of the owner of a descriptor is a step of FdMonitor, or none.
LEMMA OwnerImplements ==
  ASSUME IInv, IInv', NEW f \in Fds, OwnerStep(f)
  PROVE  Monitor!Next \/ UNCHANGED <<Fdof, WatchMap>>
<1> USE DEF ivars
<1>1. ASSUME UNCHANGED interest PROVE WatchMap' = WatchMap
  BY <1>1, HandedSame DEF WatchMap
<1>2. ASSUME NEW i \in Ioes, AddFd(f, i) PROVE Monitor!Next
  <2>1. Fdof[i] = -1 /\ Fdof' = [Fdof EXCEPT ![i] = f]
    <3>1. i \notin used /\ used' = used \cup {i} /\ ioe_fd' = [ioe_fd EXCEPT ![i] = f]
      BY <1>2 DEF AddFd
    <3>2. QED
      BY <3>1, FdofMoves DEF Fdof, IInv
  <2>2. WatchMap' = WatchMap
    BY <1>1, <1>2 DEF AddFd
  <2>3. Monitor!Reserve(f, i)
    BY <2>1, <2>2, MonitorSteps
  <2>4. QED
    BY <2>3 DEF Monitor!Next
<1>3. CASE AddExists(f) \/ WatchFails(f)
  <2>1. PICK i \in Ioes : i = arg[f]
    BY <1>3 DEF AddExists, WatchFails, IInv, TypeOK
  <2>2. /\ used' = used \ {i} /\ ioe_fd' = ioe_fd /\ UNCHANGED interest
        /\ opc[f] \in {"add", "ctl"}
        /\ i \in used /\ ioe_fd[i] = f
    BY <1>3, <2>1, NodeFacts DEF AddExists, WatchFails, IInv, OwnerInv
  <2>3. Fdof[i] = f /\ Fdof' = [Fdof EXCEPT ![i] = -1]
    BY <2>2, FdofMoves DEF Fdof, IInv
  <2>4. WatchMap[f] # i
    <3>1. \A w \in IoWorkers : interest[w][f] = NoIoe
      BY <2>2 DEF IInv, WatchInv
    <3>2. QED
      BY <3>1, HandedIs, NodeFacts DEF IInv, WatchMap
  <2>5. Monitor!Refuse(f, i)
    BY <1>1, <2>2, <2>3, <2>4, MonitorSteps
  <2>6. QED
    BY <2>5 DEF Monitor!Next
<1>4. CASE Watch(f)
  <2>1. PICK i \in Ioes : i = arg[f] /\ i # NoIoe
    BY <1>4, NodeFacts DEF Watch, IInv, TypeOK
  <2>2. PICK u \in IoWorkers : u = ioe_worker[i]
    BY DEF IInv, TypeOK
  <2>3. /\ UNCHANGED <<used, ioe_fd>> /\ opc[f] = "ctl"
        /\ i \in used /\ ioe_fd[i] = f
        /\ interest' = [interest EXCEPT ![u][f] = i]
    BY <1>4, <2>1, <2>2 DEF Watch, IInv, OwnerInv
  <2>4. /\ interest'[u][f] = i
        /\ \A w \in IoWorkers, g \in Fds \ {f} : interest'[w][g] = interest[w][g]
        /\ \A w \in IoWorkers : interest[w][f] = NoIoe
    <3>1. interest \in [IoWorkers -> [Fds -> Ioes \cup {NoIoe}]]
      BY DEF IInv, TypeOK
    <3>2. \A w \in IoWorkers : interest[w][f] = NoIoe
      BY <2>3 DEF IInv, WatchInv
    <3>3. QED
      BY <2>3, <3>1, <3>2
  <2>5. Handed(f) = NoIoe /\ Handed(f)' = i
    BY <2>1, <2>4, HandedIs, HandedIsNext DEF IInv
  <2>6. \A g \in Fds \ {f} : Handed(g)' = Handed(g)
    BY <2>4, HandedSame
  <2>7. WatchMap' = [WatchMap EXCEPT ![f] = i] /\ WatchMap[f] = NoIoe
    BY <2>5, <2>6, WatchMoves DEF WatchMap
  <2>8. Fdof[i] = f /\ Fdof' = Fdof
    BY <2>3, FdofMoves DEF Fdof, IInv
  <2>9. Monitor!Watch(f, i)
    BY <2>7, <2>8, MonitorSteps
  <2>10. QED
    BY <2>9 DEF Monitor!Next
<1>5. CASE Unwatch(f)
  <2>1. PICK i \in Ioes : i = arg[f] /\ i # NoIoe
    BY <1>5, NodeFacts DEF Unwatch, IInv, TypeOK
  <2>2. PICK u \in IoWorkers : u = ioe_worker[i]
    BY DEF IInv, TypeOK
  <2>3. /\ ioe_fd' = ioe_fd /\ used' = used \ {i} /\ opc[f] = "del" /\ interest[u][f] # NoIoe
        /\ interest' = [interest EXCEPT ![u][f] = NoIoe]
    BY <1>5, <2>1, <2>2 DEF Unwatch
  <2>4. /\ \A w \in IoWorkers : interest'[w][f] = NoIoe
        /\ \A w \in IoWorkers, g \in Fds \ {f} : interest'[w][g] = interest[w][g]
        /\ interest[u][f] = i
    BY <2>1, <2>3 DEF IInv, TypeOK, WatchInv, Registered
  <2>5. Handed(f) = i /\ Handed(f)' = NoIoe
    BY <2>3, <2>4, HandedIs, HandedIsNext DEF IInv
  <2>6. \A g \in Fds \ {f} : Handed(g)' = Handed(g)
    BY <2>4, HandedSame
  <2>7. WatchMap' = [WatchMap EXCEPT ![f] = NoIoe] /\ WatchMap[f] = i
    BY <2>5, <2>6, WatchMoves DEF WatchMap
  <2>8. Fdof' = [Fdof EXCEPT ![i] = -1]
    BY <2>3, FdofMoves DEF IInv
  <2>9. Monitor!Unwatch(f)
    BY <2>1, <2>7, <2>8, MonitorSteps
  <2>10. QED
    BY <2>9 DEF Monitor!Next
<1>6. CASE Close(f)
  <2>1. UNCHANGED <<used, ioe_fd>> /\ interest' = [w \in IoWorkers |-> [interest[w] EXCEPT ![f] = NoIoe]]
    BY <1>6 DEF Close
  <2>2. /\ \A w \in IoWorkers : interest'[w][f] = NoIoe
        /\ \A w \in IoWorkers, g \in Fds \ {f} : interest'[w][g] = interest[w][g]
    BY <2>1 DEF IInv, TypeOK
  <2>3. Handed(f)' = NoIoe /\ \A g \in Fds \ {f} : Handed(g)' = Handed(g)
    BY <2>2, HandedIsNext, HandedSame DEF IInv
  <2>4. WatchMap' = [WatchMap EXCEPT ![f] = NoIoe]
    BY <2>3, WatchMoves
  <2>5. Fdof' = Fdof
    BY <2>1 DEF Fdof
  <2>6. Monitor!Close(f)
    BY <2>4, <2>5 DEF Fdof, WatchMap, Monitor!Close
  <2>7. QED
    BY <2>6 DEF Monitor!Next
<1>7. CASE Open(f) \/ AddNoMem(f) \/ AddEntry(f) \/ DelFd(f) \/ DelFdMissing(f) \/ UnwatchFails(f)
  <2>1. UNCHANGED <<used, ioe_fd, interest>>
    BY <1>7 DEF Open, AddNoMem, AddEntry, DelFd, DelFdMissing, UnwatchFails
  <2>2. Fdof' = Fdof
    BY <2>1 DEF Fdof
  <2>3. QED
    BY <1>1, <2>1, <2>2
<1>8. QED
  BY <1>2, <1>3, <1>4, <1>5, <1>6, <1>7 DEF OwnerStep

\* The end of an epoll thread is Fail of the descriptors it watched.
LEMMA FailImplements ==
  ASSUME IInv, IInv', NEW w \in IoWorkers, EpollFails(w) PROVE Monitor!Next
<1> DEFINE F == {f \in Fds : interest[w][f] # NoIoe}
<1>1. /\ UNCHANGED <<used, ioe_fd>>
      /\ \A g \in Fds : interest'[w][g] = NoIoe
      /\ \A v \in IoWorkers \ {w} : interest'[v] = interest[v]
  BY DEF EpollFails, ivars, IInv, TypeOK, None
<1>2. ASSUME NEW f \in Fds PROVE Handed(f)' = IF f \in F THEN NoIoe ELSE Handed(f)
  <2>1. CASE f \in F
    <3>1. \A v \in IoWorkers : interest'[v][f] = NoIoe
      BY <1>1, <2>1 DEF IInv, WatchInv
    <3>2. QED
      BY <2>1, <3>1, HandedIsNext DEF IInv
  <2>2. CASE f \notin F
    <3>1. \A v \in IoWorkers : interest'[v][f] = interest[v][f]
      BY <1>1, <2>2
    <3>2. QED
      BY <2>2, <3>1, HandedSame
  <2>3. QED
    BY <2>1, <2>2
<1> HIDE DEF F
<1>3. WatchMap' = [f \in Fds |-> IF f \in F THEN NoIoe ELSE WatchMap[f]]
  BY <1>2 DEF WatchMap
<1>4. Fdof' = Fdof
  BY <1>1 DEF Fdof
<1>5. F \in SUBSET Fds
  BY DEF F
<1>6. Monitor!Fail(F)
  BY <1>3, <1>4 DEF Fdof, WatchMap, Monitor!Fail
<1>7. QED
  BY <1>5, <1>6 DEF Monitor!Next

\* The monitor implements FdMonitor: eio_delfd frees the object of the descriptor
\* it takes out and no other, whatever the hash set has lost and whichever of its
\* epolls watches.
THEOREM MonitorCorrect == Spec => Implements
<1>1. Init => Monitor!Init
  <2> SUFFICES ASSUME Init PROVE Monitor!Init
    OBVIOUS
  <2>1. used = {} /\ \A w \in IoWorkers, f \in Fds : interest[w][f] = NoIoe
    BY DEF Init, None
  <2>2. \A f \in Fds : Handed(f) = NoIoe
    BY <2>1, IInvInit, HandedIs DEF IInv
  <2>3. QED
    BY <2>1, <2>2 DEF Monitor!Init
<1>2. IInv /\ IInv' /\ [Next]_vars => [Monitor!Next]_(Monitor!vars)
  <2> SUFFICES ASSUME IInv, IInv', [Next]_vars PROVE Monitor!Next \/ UNCHANGED <<Fdof, WatchMap>>
    BY DEF Monitor!vars, Fdof, WatchMap
  <2>1. CASE UNCHANGED vars
    <3>1. UNCHANGED <<used, ioe_fd, interest>>
      BY <2>1 DEF vars, ivars
    <3>2. QED
      BY <3>1, HandedSame DEF Fdof, WatchMap
  <2>2. CASE Next
    BY <2>2, OwnerImplements, FailImplements DEF Next
  <2>3. QED
    BY <2>1, <2>2
<1>3. QED
  BY <1>1, <1>2, IInvCorrect, PTL DEF Spec, Implements, Monitor!Spec
=============================================================================
